-------------------------- MODULE Workflow_proofs --------------------------
(* Proofs about the workflow machine, for every set of commands and checks, *)
(* every length of plan and every run id, and about the view that shows it, *)
(* whose two variables the machine's own theorems do not mention.           *)
EXTENDS Focus, SequenceTheorems, TLAPS

(* Where the machine takes a command is a condition on its state.           *)
USE DEF CanStart, CanAnswer, CanDecide, CanApprovePlan, CanApproveTask,
        CanRevise, CanRollBack, CanResume, CanIntegrate

-----------------------------------------------------------------------------
(* Type correctness.                                                       *)

(* A plan is a sequence of expectFailing sets, of 1 to MaxTasks of them.    *)
LEMMA PlanFacts ==
    ASSUME NEW p \in Plans
    PROVE  /\ p \in Seq(SUBSET Commands)
           /\ Len(p) \in 1..MaxTasks
<1>1. PICK n \in 1..MaxTasks : p \in [1..n -> SUBSET Commands]
  BY DEF Plans
<1>2. n \in Nat
  BY <1>1, WorkflowAssumption
<1> QED
  BY <1>1, <1>2, WorkflowAssumption

(* The position is within the plan's bound whenever the plan has a next     *)
(* task.                                                                    *)
LEMMA NextTaskInBounds ==
    ASSUME TypeOK, HasMoreTasks
    PROVE  taskIndex + 1 \in 0..(MaxTasks - 1)
<1>1. Len(tasks) <= MaxTasks
  BY PlanFacts, WorkflowAssumption DEF TypeOK
<1>2. Len(tasks) \in Nat
  BY PlanFacts, WorkflowAssumption DEF TypeOK
<1> QED
  BY <1>1, <1>2, WorkflowAssumption DEF TypeOK, HasMoreTasks

LEMMA NoItemsInItems == NoItems \in Items
  BY DEF NoItems, Items

LEMMA TypeInit == Init => TypeOK
<1> SUFFICES ASSUME Init PROVE TypeOK
  OBVIOUS
<1>1. 0 \in 0..(MaxTasks - 1) /\ 0 \in 0..MaxTasks
  BY WorkflowAssumption
<1> QED
  BY <1>1, NoItemsInItems
     DEF Init, TypeOK, States, PlanStates, Modes, Note_, NoNote

LEMMA ApproveTaskType ==
    ASSUME TypeOK, NEW items \in Items, NEW before, ApproveTaskWith(items, before)
    PROVE  /\ state' \in {"executing", "integrating"}
           /\ resumeState' = state'
           /\ taskIndex' \in 0..(MaxTasks - 1)
           /\ tasks' = tasks
           /\ planApproved' = planApproved
           /\ taskApprovals' \subseteq 0..(MaxTasks - 1)
           /\ evidence' \in Items
           /\ runId' \in Runs \cup {NoRun}
           /\ taskRisk' \in {"unknown", "low", "high"}
           /\ turnEvents' \subseteq AgentEvents
  BY NextTaskInBounds, NoItemsInItems
     DEF ApproveTaskWith, NoteTaskApproval, EnterExecuting, Enter, OpenTurn, TypeOK

LEMMA ReviewType ==
    ASSUME TypeOK, NEW items \in Items, NEW before, EnterAwaitingReview(items, before)
    PROVE  /\ state' \in {"executing", "integrating", "awaitingReview"}
           /\ resumeState' = state'
           /\ taskIndex' \in 0..(MaxTasks - 1)
           /\ tasks' = tasks
           /\ planApproved' = planApproved
           /\ taskApprovals' \subseteq 0..(MaxTasks - 1)
           /\ evidence' \in Items
           /\ runId' \in Runs \cup {NoRun}
           /\ taskRisk' \in {"unknown", "low", "high"}
           /\ turnEvents' \subseteq AgentEvents
<1>1. CASE ApproveTaskWith(items, before \o <<Do("noteAutoApprovedTask")>>)
  BY <1>1, ApproveTaskType
<1>2. CASE Enter("awaitingReview", before) /\ evidence' = items
           /\ UNCHANGED <<plan, runId, taskRisk, turnEvents>>
  BY <1>2 DEF Enter, plan, TypeOK
<1> QED
  BY <1>1, <1>2 DEF EnterAwaitingReview

(* Every event the machine processes keeps its state well typed.            *)
LEMMA TypeStep == TypeOK /\ [Next]_vars => TypeOK'
<1> SUFFICES ASSUME TypeOK, [Next]_vars PROVE TypeOK'
  OBVIOUS
<1> USE DEF TypeOK, States, PlanStates, WorkStates, Terminal, Modes,
            Enter, EnterSilently, OpenTurn, plan, proof
<1>z. 0 \in 0..(MaxTasks - 1)
  BY WorkflowAssumption
<1>n. ForgetNote => revise' \in Note_
  BY WorkflowAssumption DEF ForgetNote, NoNote, Note_
<1>1. CASE Start
  BY <1>1 DEF Start, EnterExploring
<1>2. CASE AnswerClarification
  BY <1>2 DEF AnswerClarification, EnterExploring
<1>3. CASE Decide
  BY <1>3 DEF Decide, EnterPlanning
<1>4. CASE ApprovePlan
  BY <1>4, <1>z, NoItemsInItems DEF ApprovePlan, ApprovePlanWith, EnterExecuting
<1>5. CASE ApproveTask
  BY <1>5, ApproveTaskType DEF ApproveTask
<1>6. CASE Revise
  BY <1>6, WorkflowAssumption DEF Note_, Revise, EnterProposing, EnterPlanning, EnterRevising, Note
<1>7. CASE Rollback
  BY <1>7, NoItemsInItems DEF Rollback, RollBack, EnterExecuting
<1>8. CASE Pause
  BY <1>8 DEF Pause
<1>9. CASE Resume
  <2>1. CASE EnterAwaitingReview(evidence, <<>>)
    BY <1>9, <2>1, ReviewType DEF Resume
  <2>2. CASE ~EnterAwaitingReview(evidence, <<>>)
    BY <1>9, <2>2, NoItemsInItems
       DEF Resume, EnterExploring, EnterProposing, EnterPlanning,
           EnterExecuting, EnterVerifying, EnterRevising
  <2> QED
    BY <2>1, <2>2
<1>10. CASE Cancel
  BY <1>10 DEF Cancel
<1>11. CASE SetLowEnergy
  BY <1>11 DEF SetLowEnergy
<1>12. CASE Integrate
  BY <1>12 DEF Integrate
<1>13. CASE \E e \in AgentEvents : AgentEvent(e)
  BY <1>13 DEF AgentEvent
<1>14. CASE PlanEvent
  BY <1>14 DEF PlanEvent, AgentEvents
<1>15. CASE TurnFinished
  <2>1. CASE ExploreFinished
    BY <2>1 DEF ExploreFinished, EnterPlanning, EnterProposing
  <2>2. CASE ProposeFinished
    BY <2>2, <1>n DEF ProposeFinished
  <2>3. CASE PlanFinished
    BY <2>3, <1>n, <1>z, NoItemsInItems
       DEF PlanFinished, ApprovePlanWith, EnterExecuting
  <2>4. CASE ExecuteFinished
    BY <2>4 DEF ExecuteFinished, EnterVerifying
  <2>5. CASE ReviseFinished
    BY <2>5, <1>n DEF ReviseFinished, EnterVerifying
  <2>6. CASE VerifyFinished
    BY <2>6 DEF VerifyFinished
  <2> QED
    BY <1>15, <2>1, <2>2, <2>3, <2>4, <2>5, <2>6 DEF TurnFinished
<1>16. CASE TurnFailed
  BY <1>16 DEF TurnFailed
<1>17. CASE \E run \in Runs, risk \in {"low", "high"} : VerificationDone(run, risk)
  BY <1>17 DEF VerificationDone
<1>18. CASE VerificationFailed
  BY <1>18 DEF VerificationFailed
<1>19. CASE \E items \in Items : EvidenceResult(items)
  <2> PICK items \in Items : EvidenceResult(items)
    BY <1>19
  <2>1. CASE EnterAwaitingReview(items, <<Do("noteToleratedFailures")>>)
             /\ UNCHANGED <<mode, lowEnergy, revise>>
    BY <2>1, ReviewType
  <2>2. CASE ~EnterAwaitingReview(items, <<Do("noteToleratedFailures")>>)
    BY <2>2 DEF EvidenceResult
  <2> QED
    BY <2>1, <2>2 DEF EvidenceResult
<1>20. CASE UNCHANGED vars
  BY <1>20 DEF vars
<1> QED
  BY <1>1, <1>2, <1>3, <1>4, <1>5, <1>6, <1>7, <1>8, <1>9, <1>10, <1>11, <1>12,
     <1>13, <1>14, <1>15, <1>16, <1>17, <1>18, <1>19, <1>20 DEF Next, UserCommand

(* The machine's state is well typed in every reachable state.              *)
THEOREM TypeCorrect == Spec => []TypeOK
  BY TypeInit, TypeStep, PTL DEF Spec

-----------------------------------------------------------------------------
(* Safety.  What a review and an integration rest on is established long    *)
(* before them and carried along by the return address: `paused`, `done`    *)
(* and `cancelled` stamp none, so resumeState still names the state whose   *)
(* facts hold there.                                                        *)

(* Every state that work or planning rests in stamps its own name.          *)
Stamped == state \in PlanStates \cup WorkStates => resumeState = state

(* No task is begun or approved before the first executing.                 *)
PlanningIsFresh == resumeState \in PlanStates => taskIndex = 0 /\ taskApprovals = {}

(* Planning's notes are gone once the turn they were for is over.           *)
NotesConsumed ==
    /\ resumeState \in PlanStates \ {"proposing", "planning"} => revise = NoNote
    /\ resumeState = "proposing" => revise.about \in {"none", "proposal"}
    /\ resumeState = "planning" => revise.about \in {"none", "plan"}

ReviewHasProof ==
    resumeState = "awaitingReview" => EvidenceComplete(evidence, ExpectFailing)

EarlierApproved == \A i \in 0..(taskIndex - 1) : i \in taskApprovals

IntegrationIsWhole ==
    resumeState = "integrating" => \A i \in 0..(Len(tasks) - 1) : i \in taskApprovals

DoneHasProof ==
    state = "done" => resumeState = "integrating" /\ EvidenceComplete(evidence, {})

IInv ==
    /\ TypeOK
    /\ Stamped
    /\ PlanningIsFresh
    /\ NotesConsumed
    /\ ReviewHasProof
    /\ EarlierApproved
    /\ IntegrationIsWhole
    /\ DoneHasProof
LEMMA IInvInit == Init => IInv
  BY TypeInit
     DEF Init, IInv, Stamped, PlanningIsFresh, NotesConsumed, ReviewHasProof,
         EarlierApproved, IntegrationIsWhole, DoneHasProof, PlanStates

(* Approving a task: it leads to the next one, or - when there is no next   *)
(* one - to an integration with every task approved.                        *)
LEMMA ApproveTaskKeeps ==
    ASSUME IInv, NEW items \in Items, NEW before, ApproveTaskWith(items, before)
    PROVE  /\ EarlierApproved'
           /\ IntegrationIsWhole'
<1>1. Len(tasks) \in Nat
  BY PlanFacts, WorkflowAssumption DEF IInv, TypeOK
<1>2. taskIndex \in Nat
  BY WorkflowAssumption DEF IInv, TypeOK
<1>3. CASE HasMoreTasks
  <2>1. taskIndex' = taskIndex + 1 /\ resumeState' = "executing"
    BY <1>3 DEF ApproveTaskWith, EnterExecuting, OpenTurn, Enter
  <2>2. taskApprovals' = taskApprovals \cup {taskIndex}
    BY DEF ApproveTaskWith, NoteTaskApproval
  <2> QED
    BY <1>2, <2>1, <2>2 DEF IInv, EarlierApproved, IntegrationIsWhole
<1>4. CASE ~HasMoreTasks
  <2>1. taskIndex' = taskIndex /\ tasks' = tasks
    BY <1>4 DEF ApproveTaskWith
  <2>2. taskApprovals' = taskApprovals \cup {taskIndex}
    BY DEF ApproveTaskWith, NoteTaskApproval
  <2>3. Len(tasks) - 1 <= taskIndex
    BY <1>1, <1>2, <1>4 DEF HasMoreTasks
  <2>4. EarlierApproved'
    BY <1>2, <2>1, <2>2 DEF IInv, EarlierApproved
  <2>5. \A i \in 0..(Len(tasks) - 1) : i \in taskApprovals'
    BY <1>1, <1>2, <2>2, <2>3 DEF IInv, EarlierApproved
  <2> QED
    BY <2>1, <2>4, <2>5 DEF IntegrationIsWhole
<1> QED
  BY <1>3, <1>4

(* Leaving a verified task for review, or approving it at once, keeps the   *)
(* rest of the invariant; `items` is complete for the task.                 *)
LEMMA ReviewKeeps ==
    ASSUME IInv, NEW items \in Items, NEW before,
           EvidenceComplete(items, ExpectFailing),
           EnterAwaitingReview(items, before)
    PROVE  /\ Stamped' /\ PlanningIsFresh' /\ NotesConsumed' /\ ReviewHasProof'
           /\ EarlierApproved' /\ IntegrationIsWhole' /\ DoneHasProof'
<1>1. CASE ApproveTaskWith(items, before \o <<Do("noteAutoApprovedTask")>>)
  <2>1. EarlierApproved' /\ IntegrationIsWhole'
    BY <1>1, ApproveTaskKeeps
  <2>2. state' \in {"executing", "integrating"} /\ resumeState' = state'
    BY <1>1, ApproveTaskType DEF IInv
  <2> QED
    BY <2>1, <2>2
       DEF Stamped, PlanningIsFresh, NotesConsumed, ReviewHasProof, DoneHasProof,
           PlanStates
<1>2. CASE Enter("awaitingReview", before) /\ evidence' = items
           /\ UNCHANGED <<plan, runId, taskRisk, turnEvents>>
  <2>1. ReviewHasProof'
    BY <1>2 DEF ReviewHasProof, ExpectFailing, HasTask, plan, EvidenceComplete,
                CommandSatisfied
  <2> QED
    BY <1>2, <2>1
       DEF IInv, Enter, plan, Stamped, PlanningIsFresh, NotesConsumed,
           EarlierApproved, IntegrationIsWhole, DoneHasProof, PlanStates
<1> QED
  BY <1>1, <1>2 DEF EnterAwaitingReview
(* Every event the machine processes keeps the invariant.                   *)
LEMMA IInvStep == IInv /\ [Next]_vars => IInv'
<1> SUFFICES ASSUME IInv, [Next]_vars PROVE IInv'
  OBVIOUS
<1> DEFINE Rest == /\ Stamped /\ PlanningIsFresh /\ NotesConsumed
                   /\ ReviewHasProof /\ EarlierApproved
                   /\ IntegrationIsWhole /\ DoneHasProof
<1>t. TypeOK'
  BY TypeStep DEF IInv
<1>r. SUFFICES Rest'
  BY <1>t DEF IInv
<1> USE DEF IInv, Stamped, PlanningIsFresh, NotesConsumed, ReviewHasProof,
            EarlierApproved, IntegrationIsWhole, DoneHasProof,
            PlanStates, WorkStates, Enter, EnterSilently, OpenTurn, plan, proof,
            ExpectFailing, HasTask
<1>1. CASE Start
  BY <1>1 DEF Start, EnterExploring
<1>2. CASE AnswerClarification
  BY <1>2 DEF AnswerClarification, EnterExploring
<1>3. CASE Decide
  BY <1>3 DEF Decide, EnterPlanning, NoNote
<1>4. CASE ApprovePlan
  BY <1>4 DEF ApprovePlan, ApprovePlanWith, EnterExecuting
<1>5. CASE ApproveTask
  <2>1. EarlierApproved' /\ IntegrationIsWhole'
    BY <1>5, ApproveTaskKeeps DEF ApproveTask, TypeOK
  <2>2. state' \in {"executing", "integrating"} /\ resumeState' = state'
    BY <1>5, ApproveTaskType DEF ApproveTask, TypeOK
  <2> QED
    BY <2>1, <2>2
<1>6. CASE Revise
  BY <1>6 DEF Revise, EnterProposing, EnterPlanning, EnterRevising, Note
<1>7. CASE Rollback
  BY <1>7 DEF Rollback, RollBack, EnterExecuting
<1>8. CASE Pause
  BY <1>8 DEF Pause
<1>9. CASE Resume
  <2>1. CASE resumeState = "awaitingReview"
    BY <1>9, <2>1, ReviewKeeps DEF Resume, TypeOK, Resumable
  <2>2. CASE resumeState \in {"exploring", "proposing", "planning"}
    BY <1>9, <2>2
       DEF Resume, EnterExploring, EnterProposing, EnterPlanning, Resumable
  <2>3. CASE resumeState = "executing"
    BY <1>9, <2>3 DEF Resume, EnterExecuting, Resumable
  <2>4. CASE resumeState \in {"verifying", "revising"}
    BY <1>9, <2>4 DEF Resume, EnterVerifying, EnterRevising, Resumable
  <2>5. CASE resumeState = "integrating"
    BY <1>9, <2>5 DEF Resume, Resumable
  <2>6. CASE resumeState \notin Resumable
    <3>1. state' = "idle" /\ resumeState' = "idle" /\ UNCHANGED <<plan, proof, revise>>
      BY <1>9, <2>6 DEF Resume, Resumable
    <3>2. revise = NoNote /\ taskIndex = 0 /\ taskApprovals = {}
      BY <2>6 DEF Resumable, TypeOK
    <3> QED
      BY <3>1, <3>2
  <2> QED
    BY <2>1, <2>2, <2>3, <2>4, <2>5, <2>6 DEF Resumable
<1>10. CASE Cancel
  BY <1>10 DEF Cancel
<1>11. CASE SetLowEnergy
  BY <1>11 DEF SetLowEnergy
<1>12. CASE Integrate
  BY <1>12 DEF Integrate, MayIntegrate
<1>13. CASE \E e \in AgentEvents : AgentEvent(e)
  BY <1>13 DEF AgentEvent
<1>14. CASE PlanEvent
  BY <1>14 DEF PlanEvent
<1>15. CASE TurnFinished
  <2>1. CASE ExploreFinished
    BY <2>1 DEF ExploreFinished, EnterPlanning, EnterProposing, NoNote
  <2>2. CASE ProposeFinished
    BY <2>2 DEF ProposeFinished, ForgetNote, NoNote
  <2>3. CASE PlanFinished
    BY <2>3 DEF PlanFinished, ForgetNote, NoNote, ApprovePlanWith, EnterExecuting
  <2>4. CASE ExecuteFinished
    BY <2>4 DEF ExecuteFinished, EnterVerifying
  <2>5. CASE ReviseFinished
    BY <2>5 DEF ReviseFinished, EnterVerifying
  <2>6. CASE VerifyFinished
    BY <2>6 DEF VerifyFinished
  <2> QED
    BY <1>15, <2>1, <2>2, <2>3, <2>4, <2>5, <2>6 DEF TurnFinished
<1>16. CASE TurnFailed
  BY <1>16 DEF TurnFailed
<1>17. CASE \E run \in Runs, risk \in {"low", "high"} : VerificationDone(run, risk)
  BY <1>17 DEF VerificationDone
<1>18. CASE VerificationFailed
  BY <1>18 DEF VerificationFailed
<1>19. CASE \E items \in Items : EvidenceResult(items)
  <2> PICK items \in Items : EvidenceResult(items)
    BY <1>19
  <2>1. CASE EvidenceComplete(items, ExpectFailing)
             /\ EnterAwaitingReview(items, <<Do("noteToleratedFailures")>>)
    BY <2>1, ReviewKeeps
  <2>2. CASE /\ state \in {"verifying", "integrating"}
             /\ state' \in {"paused", state}
             /\ UNCHANGED <<resumeState, plan, revise>>
    BY <2>2
  <2> QED
    BY <2>1, <2>2 DEF EvidenceResult
<1>20. CASE UNCHANGED vars
  BY <1>20 DEF vars
<1> QED
  BY <1>1, <1>2, <1>3, <1>4, <1>5, <1>6, <1>7, <1>8, <1>9, <1>10, <1>11, <1>12,
     <1>13, <1>14, <1>15, <1>16, <1>17, <1>18, <1>19, <1>20 DEF Next, UserCommand

LEMMA Inductive == Spec => []IInv
  BY IInvInit, IInvStep, PTL DEF Spec

(* An objective that is done holds a set that is green without exemption.   *)
THEOREM DoneProven == Spec => []DoneIsProven
<1>1. IInv => DoneIsProven
  BY DEF IInv, DoneHasProof, DoneIsProven
<1> QED
  BY <1>1, Inductive, PTL

(* A task under review, or paused there, has complete evidence.             *)
THEOREM ReviewEvidenced == Spec => []ReviewIsEvidenced
<1>1. IInv => ReviewIsEvidenced
  BY DEF IInv, ReviewHasProof, Stamped, WorkStates, ReviewIsEvidenced
<1> QED
  BY <1>1, Inductive, PTL

(* Tasks are approved in order, and all of them before an integration.      *)
THEOREM ReviewInOrder == Spec => []ReviewedInOrder
<1>1. IInv => ReviewedInOrder
  BY DEF IInv, EarlierApproved, IntegrationIsWhole, Stamped, DoneHasProof,
         WorkStates, ReviewedInOrder
<1> QED
  BY <1>1, Inductive, PTL

(* A planning prompt carries a note only if it was written for it.          *)
THEOREM NotesFit == Spec => []PlanningNotesFit
<1>1. IInv => PlanningNotesFit
  BY DEF IInv, NotesConsumed, Stamped, PlanStates, PlanningNotesFit
<1> QED
  BY <1>1, Inductive, PTL

-----------------------------------------------------------------------------
(* What a step may never do to work that has begun.                        *)

KeepsPlan ==
    (resumeState \in WorkStates) =>
        /\ resumeState' \in WorkStates
        /\ tasks' = tasks
        /\ taskApprovals \subseteq taskApprovals'
        /\ taskIndex' \in {taskIndex, taskIndex + 1}

LEMMA ApproveTaskKeepsPlan ==
    ASSUME NEW items, NEW before, ApproveTaskWith(items, before)
    PROVE  KeepsPlan
  BY DEF KeepsPlan, ApproveTaskWith, NoteTaskApproval, EnterExecuting, OpenTurn,
         Enter, WorkStates

LEMMA ReviewKeepsPlan ==
    ASSUME NEW items, NEW before, EnterAwaitingReview(items, before)
    PROVE  KeepsPlan
  BY ApproveTaskKeepsPlan
     DEF EnterAwaitingReview, KeepsPlan, Enter, plan, WorkStates

(* A step from work stays with the plan.  Planning's own transitions are    *)
(* excluded by Stamped, paused's by the return address.                     *)
LEMMA PlanStep == IInv /\ [Next]_vars => KeepsPlan
<1> SUFFICES ASSUME IInv, [Next]_vars, resumeState \in WorkStates
             PROVE  KeepsPlan
  BY DEF KeepsPlan
<1> USE DEF KeepsPlan, WorkStates, Enter, EnterSilently, OpenTurn, plan
<1>s. state \notin PlanStates
  BY DEF IInv, Stamped, PlanStates
<1>1. CASE Start \/ AnswerClarification \/ Decide \/ ApprovePlan \/ PlanEvent
           \/ ExploreFinished \/ ProposeFinished \/ PlanFinished
  BY <1>1, <1>s DEF Start, AnswerClarification, Decide, ApprovePlan, PlanEvent,
     ExploreFinished, ProposeFinished, PlanFinished, PlanStates
<1>2. CASE ApproveTask
  BY <1>2, ApproveTaskKeepsPlan DEF ApproveTask
<1>3. CASE Revise
  BY <1>3, <1>s DEF Revise, EnterRevising, PlanStates
<1>4. CASE Rollback
  BY <1>4 DEF Rollback, RollBack, EnterExecuting
<1>5. CASE Resume
  <2>1. CASE EnterAwaitingReview(evidence, <<>>)
    BY <2>1, ReviewKeepsPlan
  <2>2. CASE ~EnterAwaitingReview(evidence, <<>>)
    BY <1>5, <2>2 DEF Resume, EnterExecuting, EnterVerifying, EnterRevising, Resumable
  <2> QED
    BY <2>1, <2>2
<1>6. CASE Pause \/ Cancel \/ SetLowEnergy \/ Integrate
  BY <1>6 DEF Pause, Cancel, SetLowEnergy, Integrate
<1>7. CASE \E e \in AgentEvents : AgentEvent(e)
  BY <1>7 DEF AgentEvent
<1>8. CASE ExecuteFinished \/ ReviseFinished \/ VerifyFinished
  BY <1>8 DEF ExecuteFinished, ReviseFinished, VerifyFinished, EnterVerifying
<1>9. CASE TurnFailed \/ VerificationFailed
  BY <1>9 DEF TurnFailed, VerificationFailed
<1>10. CASE \E run \in Runs, risk \in {"low", "high"} : VerificationDone(run, risk)
  BY <1>10 DEF VerificationDone
<1>11. CASE \E items \in Items : EvidenceResult(items)
  <2> PICK items \in Items : EvidenceResult(items)
    BY <1>11
  <2>1. CASE EnterAwaitingReview(items, <<Do("noteToleratedFailures")>>)
    BY <2>1, ReviewKeepsPlan
  <2>2. CASE UNCHANGED <<resumeState, plan>>
    BY <2>2
  <2> QED
    BY <2>1, <2>2 DEF EvidenceResult
<1>12. CASE UNCHANGED vars
  BY <1>12 DEF vars
<1> QED
  BY <1>1, <1>2, <1>3, <1>4, <1>5, <1>6, <1>7, <1>8, <1>9, <1>10, <1>11, <1>12
     DEF Next, UserCommand, TurnFinished

(* No pause, failure, revision or rollback loses the plan, an approval or   *)
(* the position of work that has begun.                                     *)
THEOREM PlanKept == Spec => WorkKeepsItsPlan
<1>1. IInv /\ [Next]_vars => [KeepsPlan]_vars
  BY PlanStep
<1>2. Spec => [][KeepsPlan]_vars
  BY <1>1, Inductive, PTL DEF Spec
<1> QED
  BY <1>2 DEF WorkKeepsItsPlan, KeepsPlan

-----------------------------------------------------------------------------
(* The promise.  The machine's twenty states are four stages; a step that   *)
(* stays within one and touches nothing the promise speaks of is a stutter. *)

(* Nothing is proven before the work begins.                                *)
PlanningIsUnproven == resumeState \in PlanStates => evidence = NoItems

Stutter == UNCHANGED Promise!objective
PromiseKept == PlanningIsUnproven' /\ [Promise!Next]_(Promise!objective)

LEMMA StageFacts ==
    ASSUME IInv
    PROVE  /\ state \in PlanStates => Stage = "planning"
           /\ state \in WorkStates => Stage = "working"
           /\ state = "paused" =>
                Stage = IF resumeState \in PlanStates THEN "planning" ELSE "working"
           /\ Active <=> Stage \in {"planning", "working"}
           /\ Stage = "planning" => resumeState \in PlanStates
           /\ Stage = "working" => resumeState \notin PlanStates
  BY DEF IInv, TypeOK, Stamped, Stage, States, Terminal, PlanStates, WorkStates, Active

(* A step within a stage that leaves what the promise speaks of alone.      *)
LEMMA StaysInStage ==
    ASSUME IInv, IInv', PlanningIsUnproven, Stage' = Stage,
           resumeState' \in PlanStates <=> resumeState \in PlanStates,
           UNCHANGED <<lowEnergy, plan, evidence>>
    PROVE  PromiseKept
<1>1. Stutter
  BY DEF Stutter, Promise!objective, plan
<1>2. PlanningIsUnproven'
  BY DEF PlanningIsUnproven
<1> QED
  BY <1>1, <1>2 DEF PromiseKept, Stutter

(* Work begins: with nothing approved, nothing proven and the first task.   *)
LEMMA BeginsWork ==
    ASSUME IInv, PlanningIsUnproven, Stage = "planning", Stage' = "working",
           resumeState' \notin PlanStates,
           tasks' \in Plans \cup {tasks}, taskIndex' = 0, evidence' = NoItems,
           UNCHANGED <<lowEnergy, taskApprovals>>
    PROVE  PromiseKept
<1>1. resumeState \in PlanStates
  BY StageFacts
<1>2. taskIndex' = taskIndex /\ evidence' = evidence
  BY <1>1 DEF IInv, PlanningIsFresh, PlanningIsUnproven
<1>3. tasks' \in Promise!Plans \cup {tasks}
  BY DEF Plans, Promise!Plans
<1>4. Promise!Begin
  BY <1>2, <1>3 DEF Promise!Begin
<1> QED
  BY <1>4 DEF PromiseKept, Promise!Next, PlanningIsUnproven

(* Approving a task with the set that is complete for it.                   *)
LEMMA ApprovesOnProof ==
    ASSUME IInv, Stage = "working", NEW items \in Items, NEW before,
           EvidenceComplete(items, ExpectFailing),
           ApproveTaskWith(items, before), lowEnergy' = lowEnergy
    PROVE  Promise!ApproveOn(items) /\ resumeState' \notin PlanStates
<1>1. Len(tasks) \in Nat /\ taskIndex \in Nat
  BY PlanFacts, WorkflowAssumption DEF IInv, TypeOK
<1>2. HasMoreTasks <=> taskIndex + 1 < Len(tasks)
  BY <1>1 DEF HasMoreTasks
<1>3. Promise!EvidenceComplete(items, Promise!Exempt)
  BY DEF Promise!EvidenceComplete, EvidenceComplete, Promise!Exempt, ExpectFailing,
     HasTask, Promise!CommandSatisfied, CommandSatisfied, Promise!Ids, Ids
<1>4. /\ taskApprovals' = taskApprovals \cup {taskIndex}
      /\ tasks' = tasks
      /\ IF taskIndex + 1 < Len(tasks)
         THEN taskIndex' = taskIndex + 1 /\ evidence' = NoItems
         ELSE taskIndex' = taskIndex /\ evidence' = items
  BY <1>2 DEF ApproveTaskWith, NoteTaskApproval, EnterExecuting
<1>5. state' \in {"executing", "integrating"} /\ resumeState' = state'
  BY ApproveTaskType DEF IInv
<1>6. Stage' = "working" /\ resumeState' \notin PlanStates
  BY <1>5 DEF Stage, Terminal, PlanStates
<1>7. Promise!NoItems = NoItems
  BY DEF Promise!NoItems, NoItems, Promise!Ids, Ids, Promise!Missing, Missing
<1> QED
  BY <1>3, <1>4, <1>6, <1>7 DEF Promise!ApproveOn

(* Leaving verification, or coming back to a review: the set is offered for *)
(* approval, or approved at once in Low Energy Mode.                        *)
LEMMA ReviewKeepsPromise ==
    ASSUME IInv, Stage = "working", NEW items \in Items, NEW before,
           EvidenceComplete(items, ExpectFailing),
           EnterAwaitingReview(items, before), lowEnergy' = lowEnergy
    PROVE  PromiseKept
<1>1. CASE lowEnergy /\ ApproveTaskWith(items, before \o <<Do("noteAutoApprovedTask")>>)
  <2>1. Promise!ApproveOn(items) /\ resumeState' \notin PlanStates
    BY <1>1, ApprovesOnProof
  <2>2. items \in Promise!Items
    BY DEF Items, Promise!Items, Promise!Ids, Ids, Promise!Status, Status,
       Promise!Missing, Missing
  <2>3. Promise!AutoApprove
    BY <1>1, <2>1, <2>2 DEF Promise!AutoApprove
  <2> QED
    BY <2>1, <2>3 DEF PromiseKept, Promise!Next, PlanningIsUnproven
<1>2. CASE Enter("awaitingReview", before) /\ evidence' = items /\ UNCHANGED plan
  <2>1. Stage' = "working" /\ resumeState' \notin PlanStates
    BY <1>2 DEF Enter, Stage, Terminal, PlanStates
  <2>2. evidence' \in Promise!Items
    BY <1>2 DEF Items, Promise!Items, Promise!Ids, Ids, Promise!Status, Status,
       Promise!Missing, Missing
  <2>3. Promise!Judge
    BY <1>2, <2>1, <2>2 DEF Promise!Judge, plan
  <2> QED
    BY <2>1, <2>3 DEF PromiseKept, Promise!Next, PlanningIsUnproven
<1> QED
  BY <1>1, <1>2 DEF EnterAwaitingReview

(* Between the stages: ending the objective, or its mode of approval.       *)
LEMMA EndsOrSets ==
    ASSUME IInv, PlanningIsUnproven, Cancel \/ SetLowEnergy \/ Integrate
    PROVE  PromiseKept
<1> USE DEF plan, proof, EnterSilently
<1>s. resumeState' = resumeState /\ UNCHANGED <<plan, evidence>>
  BY DEF Cancel, SetLowEnergy, Integrate
<1>u. PlanningIsUnproven'
  BY <1>s DEF PlanningIsUnproven
<1>1. CASE Cancel
  <2>1. Stage' = "cancelled" /\ Stage \in {"planning", "working"}
    BY <1>1, StageFacts DEF Cancel, Stage, Terminal
  <2>2. Promise!GiveUp
    BY <1>1, <2>1 DEF Cancel, Promise!GiveUp, Promise!UnderWay
  <2> QED
    BY <1>u, <2>2 DEF PromiseKept, Promise!Next
<1>2. CASE SetLowEnergy
  <2>1. Stage' = Stage /\ Stage \in {"planning", "working"}
    BY <1>2, StageFacts DEF SetLowEnergy, Stage
  <2>2. Promise!SetLowEnergy
    BY <1>2, <2>1 DEF SetLowEnergy, Promise!SetLowEnergy, Promise!UnderWay
  <2> QED
    BY <1>u, <2>2 DEF PromiseKept, Promise!Next
<1>3. CASE Integrate
  <2>1. Stage = "working" /\ resumeState = "integrating" /\ lowEnergy' = lowEnergy
    BY <1>3, StageFacts DEF Integrate, WorkStates, IInv, Stamped
  <2>2. CASE state' = "done"
    <3>1. Stage' = "done"
      BY <2>2 DEF Stage, Terminal
    <3>2. EvidenceComplete(evidence, {})
      BY <1>3, <2>2 DEF Integrate, MayIntegrate
    <3>3. Promise!EvidenceComplete(evidence, {})
      BY <3>2 DEF Promise!EvidenceComplete, EvidenceComplete,
         Promise!CommandSatisfied, CommandSatisfied, Promise!Ids, Ids
    <3>4. Promise!Whole
      BY <2>1 DEF IInv, IntegrationIsWhole, Promise!Whole
    <3>5. Promise!Finish
      BY <1>s, <2>1, <3>1, <3>3, <3>4 DEF Promise!Finish
    <3> QED
      BY <1>u, <3>5 DEF PromiseKept, Promise!Next
  <2>3. CASE state' = "paused"
    <3>1. Stage' = "working"
      BY <1>s, <2>1, <2>3 DEF Stage, Terminal, PlanStates
    <3>2. UNCHANGED Promise!objective
      BY <1>s, <2>1, <3>1 DEF Promise!objective
    <3> QED
      BY <1>u, <3>2 DEF PromiseKept
  <2> QED
    BY <1>3, <2>2, <2>3 DEF Integrate
<1> QED
  BY <1>1, <1>2, <1>3

(* Work that starts over, on the same task.                                 *)
LEMMA StartsOver ==
    ASSUME Stage = "working", state' = "executing", resumeState' = "executing",
           evidence' = NoItems, UNCHANGED <<lowEnergy, plan>>
    PROVE  PromiseKept
<1>1. Stage' = "working" /\ resumeState' \notin PlanStates
  BY DEF Stage, Terminal, PlanStates
<1>2. Promise!NoItems = NoItems
  BY DEF Promise!NoItems, NoItems, Promise!Ids, Ids, Promise!Missing, Missing
<1>3. Promise!StartOver
  BY <1>1, <1>2 DEF Promise!StartOver, plan
<1> QED
  BY <1>1, <1>3 DEF PromiseKept, Promise!Next, PlanningIsUnproven

LEMMA PromiseStep ==
    ASSUME IInv, IInv', PlanningIsUnproven, Next
    PROVE  PromiseKept
<1> USE DEF Enter, EnterSilently, OpenTurn, plan, proof
(* A step from planning to planning, one from work to work, and one that    *)
(* pauses what it interrupts.                                               *)
<1>p. ASSUME state \in PlanStates \/ (state = "paused" /\ resumeState \in PlanStates),
             state' \in PlanStates, UNCHANGED <<lowEnergy, plan, evidence>>
      PROVE  PromiseKept
  <2>1. Stage = "planning" /\ Stage' = "planning"
    BY <1>p, StageFacts DEF Stage, Terminal, PlanStates, IInv, Stamped
  <2>2. resumeState \in PlanStates /\ resumeState' \in PlanStates
    BY <1>p DEF IInv, Stamped
  <2> QED
    BY <1>p, <2>1, <2>2, StaysInStage
<1>w. ASSUME Stage = "working", state' \in WorkStates, UNCHANGED <<lowEnergy, plan, evidence>>
      PROVE  PromiseKept
  <2>1. Stage' = "working" /\ resumeState' \notin PlanStates
    BY <1>w DEF Stage, Terminal, PlanStates, WorkStates, IInv, Stamped
  <2>2. resumeState \notin PlanStates
    BY <1>w, StageFacts
  <2> QED
    BY <1>w, <2>1, <2>2, StaysInStage
<1>f. ASSUME Active, state' = "paused" \/ state' = state, resumeState' = resumeState,
             UNCHANGED <<lowEnergy, plan, evidence>>
      PROVE  PromiseKept
  <2>1. Stage' = Stage
    BY <1>f DEF Stage, Terminal, Active
  <2> QED
    BY <1>f, <2>1, StaysInStage
<1>a. state \in PlanStates \cup WorkStates => Active
  BY DEF Active, Terminal, PlanStates, WorkStates
<1>1. CASE Start \/ AnswerClarification \/ Decide \/ ExploreFinished
  BY <1>1, <1>p DEF Start, AnswerClarification, Decide, ExploreFinished, EnterExploring,
     EnterPlanning, EnterProposing, PlanStates
<1>2. CASE ProposeFinished
  BY <1>2, <1>p, <1>f, <1>a DEF ProposeFinished, PlanStates
<1>3. CASE PlanEvent
  <2>1. Stage = "planning" /\ Stage' = "planning"
    BY <1>3, StageFacts DEF PlanEvent, Stage, PlanStates
  <2>2. tasks' \in Promise!Plans
    BY <1>3 DEF PlanEvent, Plans, Promise!Plans
  <2>3. Promise!Plan
    BY <1>3, <2>1, <2>2 DEF PlanEvent, Promise!Plan
  <2> QED
    BY <1>3, <2>3 DEF PlanEvent, PromiseKept, Promise!Next, PlanningIsUnproven
<1>b. ASSUME NEW newTasks \in Plans \cup {tasks}, NEW before,
             ApprovePlanWith(newTasks, before), state \in PlanStates, lowEnergy' = lowEnergy
      PROVE  PromiseKept
  <2>1. Stage = "planning" /\ Stage' = "working" /\ resumeState' \notin PlanStates
    BY <1>b, StageFacts DEF ApprovePlanWith, EnterExecuting, Stage, Terminal, PlanStates
  <2> QED
    BY <1>b, <2>1, BeginsWork DEF ApprovePlanWith, EnterExecuting
<1>4. CASE ApprovePlan
  BY <1>4, <1>b DEF ApprovePlan, PlanStates
<1>5. CASE PlanFinished
  BY <1>5, <1>b, <1>p, <1>f, <1>a DEF PlanFinished, PlanStates
<1>6. CASE Revise
  <2>1. CASE state \in {"awaitingDecision", "awaitingPlanApproval"}
    BY <1>6, <2>1, <1>p DEF Revise, EnterProposing, EnterPlanning, PlanStates
  <2>2. CASE state \in {"awaitingReview", "paused"}
    <3>1. state' = "revising" /\ resumeState' = "revising"
          /\ UNCHANGED <<lowEnergy, plan, evidence>>
      BY <1>6, <2>2 DEF Revise, EnterRevising
    <3>2. CASE Stage = "working"
      BY <3>1, <3>2, <1>w DEF WorkStates
    <3>3. CASE Stage = "planning"
      <4>1. Stage' = "working" /\ resumeState' \notin PlanStates
        BY <3>1 DEF Stage, Terminal, PlanStates
      <4>2. taskIndex = 0 /\ evidence = NoItems
        BY <3>3, StageFacts DEF IInv, PlanningIsFresh, PlanningIsUnproven
      <4> QED
        BY <3>1, <3>3, <4>1, <4>2, BeginsWork
    <3> QED
      BY <2>2, <3>2, <3>3, StageFacts DEF WorkStates
  <2> QED
    BY <1>6, <2>1, <2>2 DEF Revise
<1>7. CASE Rollback
  <2>1. /\ state \in {"awaitingReview", "paused"}
        /\ state' = "executing" /\ resumeState' = "executing" /\ evidence' = NoItems
        /\ UNCHANGED <<lowEnergy, plan>>
    BY <1>7 DEF Rollback, RollBack, EnterExecuting
  <2>2. CASE Stage = "working"
    BY <2>1, <2>2, StartsOver
  <2>3. CASE Stage = "planning"
    <3>1. Stage' = "working" /\ resumeState' \notin PlanStates
      BY <2>1 DEF Stage, Terminal, PlanStates
    <3>2. taskIndex = 0
      BY <2>3, StageFacts DEF IInv, PlanningIsFresh
    <3> QED
      BY <2>1, <2>3, <3>1, <3>2, BeginsWork
  <2> QED
    BY <2>1, <2>2, <2>3, StageFacts DEF WorkStates
<1>8. CASE Pause \/ TurnFailed \/ VerificationFailed
  BY <1>8, <1>f, <1>a DEF Pause, TurnFailed, VerificationFailed, WorkStates
<1>9. CASE Cancel \/ SetLowEnergy \/ Integrate
  BY <1>9, EndsOrSets
<1>10. CASE \E e \in AgentEvents : AgentEvent(e)
  <2>1. Active
    BY <1>10 DEF AgentEvent, Accepts, Active, Terminal
  <2> QED
    BY <1>10, <1>f, <2>1 DEF AgentEvent
<1>11. CASE ExecuteFinished \/ ReviseFinished \/ VerifyFinished
  <2>1. Stage = "working"
    BY <1>11, StageFacts DEF ExecuteFinished, ReviseFinished, VerifyFinished, WorkStates
  <2> QED
    BY <1>11, <1>f, <1>a, <1>w, <2>1
       DEF ExecuteFinished, ReviseFinished, VerifyFinished, EnterVerifying, WorkStates
<1>12. CASE \E run \in Runs, risk \in {"low", "high"} : VerificationDone(run, risk)
  BY <1>12, <1>f, <1>a DEF VerificationDone, WorkStates
<1>13. CASE ApproveTask
  <2>1. Stage = "working" /\ EvidenceComplete(evidence, ExpectFailing)
    BY <1>13, StageFacts DEF ApproveTask, WorkStates, IInv, Stamped, ReviewHasProof
  <2>2. Promise!Approve /\ resumeState' \notin PlanStates
    BY <1>13, <2>1, ApprovesOnProof DEF ApproveTask, Promise!Approve, IInv, TypeOK
  <2> QED
    BY <2>2 DEF PromiseKept, Promise!Next, PlanningIsUnproven
<1>14. CASE Resume
  <2>s. state = "paused" /\ lowEnergy' = lowEnergy
    BY <1>14 DEF Resume
  <2>r. resumeState \notin PlanStates => Stage = "working"
    BY <2>s, StageFacts
  <2>1. CASE resumeState = "awaitingReview"
    <3>1. EnterAwaitingReview(evidence, <<>>)
      BY <1>14, <2>1 DEF Resume, Resumable, WorkStates
    <3>2. evidence \in Items /\ EvidenceComplete(evidence, ExpectFailing)
      BY <2>1 DEF IInv, TypeOK, ReviewHasProof
    <3>3. Stage = "working"
      BY <2>1, <2>r DEF PlanStates
    <3> QED
      BY <2>s, <3>1, <3>2, <3>3, ReviewKeepsPromise
  <2>2. CASE resumeState \in {"exploring", "proposing", "planning"}
    BY <1>14, <2>2, <2>s, <1>p
       DEF Resume, EnterExploring, EnterProposing, EnterPlanning, PlanStates, Resumable,
           WorkStates
  <2>3. CASE resumeState = "executing"
    BY <1>14, <2>3, <2>s, <2>r, StartsOver
       DEF Resume, EnterExecuting, PlanStates, Resumable, WorkStates
  <2>4. CASE resumeState \in {"verifying", "revising", "integrating"}
    BY <1>14, <2>4, <2>s, <2>r, <1>w
       DEF Resume, EnterVerifying, EnterRevising, PlanStates, WorkStates, Resumable
  <2>5. CASE resumeState \notin Resumable
    <3>1. resumeState \in PlanStates
      BY <2>5 DEF IInv, TypeOK, Resumable
    <3>2. state' = "idle" /\ UNCHANGED <<plan, evidence>>
      BY <1>14, <2>5 DEF Resume, Resumable, WorkStates
    <3> QED
      BY <2>s, <3>1, <3>2, <1>p DEF PlanStates
  <2> QED
    BY <2>1, <2>2, <2>3, <2>4, <2>5 DEF Resumable, WorkStates
<1>15. CASE \E items \in Items : EvidenceResult(items)
  <2> PICK items \in Items : EvidenceResult(items)
    BY <1>15
  <2>1. Stage = "working" /\ lowEnergy' = lowEnergy
    BY StageFacts DEF EvidenceResult, WorkStates
  <2>2. CASE EvidenceComplete(items, ExpectFailing)
             /\ EnterAwaitingReview(items, <<Do("noteToleratedFailures")>>)
    BY <2>1, <2>2, ReviewKeepsPromise
  <2>3. CASE /\ state' \in {"paused", state} /\ resumeState' = resumeState
             /\ evidence' = items /\ UNCHANGED plan
    <3>1. Stage' = "working"
      BY <2>1, <2>3 DEF Stage, Terminal
    <3>2. resumeState' \notin PlanStates
      BY <2>1, <2>3, StageFacts
    <3>3. items \in Promise!Items
      BY DEF Items, Promise!Items, Promise!Ids, Ids, Promise!Status, Status,
         Promise!Missing, Missing
    <3>4. Promise!Judge
      BY <2>1, <2>3, <3>1, <3>3 DEF Promise!Judge
    <3> QED
      BY <3>2, <3>4 DEF PromiseKept, Promise!Next, PlanningIsUnproven
  <2> QED
    BY <2>2, <2>3 DEF EvidenceResult
<1> QED
  BY <1>1, <1>2, <1>3, <1>4, <1>5, <1>6, <1>7, <1>8, <1>9, <1>10, <1>11, <1>12,
     <1>13, <1>14, <1>15 DEF Next, UserCommand, TurnFinished

LEMMA PromiseInit == Init => PlanningIsUnproven /\ Promise!Init
<1>1. NoItems = Promise!NoItems
  BY DEF Promise!NoItems, NoItems, Promise!Ids, Ids, Promise!Missing, Missing
<1> QED
  BY <1>1 DEF Init, PlanningIsUnproven, Promise!Init, Stage, Terminal, PlanStates

(* The machine implements the objective it promises (workflow-machine.ts):  *)
(* for every spec, plan and mode, and whatever sequence of commands, agent  *)
(* events, pauses and failures it is sent, the objective is planned, then   *)
(* worked through in order on one plan, approved only on complete evidence, *)
(* and done only when all of it is.                                         *)
THEOREM PromiseIsKept == Spec => KeepsItsPromise
<1>1. IInv /\ IInv' /\ PlanningIsUnproven /\ [Next]_vars => PromiseKept
  <2>1. CASE UNCHANGED vars
    <3>1. UNCHANGED Promise!objective /\ UNCHANGED <<evidence, resumeState>>
      BY <2>1 DEF vars, Promise!objective, Stage
    <3> QED
      BY <3>1 DEF PromiseKept, PlanningIsUnproven
  <2> QED
    BY <2>1, PromiseStep
<1>2. PromiseKept => PlanningIsUnproven' /\ [Promise!Next]_(Promise!objective)
  BY DEF PromiseKept
<1> QED
  BY <1>1, <1>2, PromiseInit, Inductive, PTL DEF Spec, KeepsItsPromise, Promise!Spec

-----------------------------------------------------------------------------
(* The view.  What a macrostep may ask to have recorded.                   *)

Records(f) == \E i \in DOMAIN f : f[i] = Do("recordDecision")

LEMMA RecordsOne ==
    ASSUME NEW a
    PROVE  /\ <<a>> \in Seq({a})
           /\ Records(<<a>>) => a = Do("recordDecision")
<1>1. DOMAIN <<a>> = {1} /\ <<a>>[1] = a
  OBVIOUS
<1> QED
  BY <1>1 DEF Records

(* A list records what one of its two parts records.                        *)
LEMMA RecordsParts ==
    ASSUME NEW S, NEW f \in Seq(S), NEW g \in Seq(S)
    PROVE  Records(f \o g) => Records(f) \/ Records(g)
<1> SUFFICES ASSUME NEW i \in DOMAIN (f \o g), (f \o g)[i] = Do("recordDecision")
             PROVE  Records(f) \/ Records(g)
  BY DEF Records
<1>1. /\ i \in 1..(Len(f) + Len(g)) /\ Len(f) \in Nat /\ Len(g) \in Nat
      /\ DOMAIN f = 1..Len(f) /\ DOMAIN g = 1..Len(g)
  OBVIOUS
<1>2. CASE i <= Len(f)
  <2>1. i \in DOMAIN f /\ (f \o g)[i] = f[i]
    BY <1>1, <1>2
  <2> QED
    BY <2>1 DEF Records
<1>3. CASE i > Len(f)
  <2>1. i - Len(f) \in DOMAIN g /\ (f \o g)[i] = g[i - Len(f)]
    BY <1>1, <1>3
  <2> QED
    BY <2>1 DEF Records
<1> QED
  BY <1>1, <1>2, <1>3

Others == {Do(e) : e \in {"checkpoint", "recordPlan", "markTaskVerified",
                          "noteAutoApprovedTask", "noteAutoApprovedPlan",
                          "noteToleratedFailures", "rollbackToCheckpoint",
                          "runVerification", "reconcileEvidence",
                          "recordEvidence", "finishObjective"}}
          \cup {SendPrompt(p) : p \in {"explore", "propose", "plan", "verify",
                          "execute-task", "execute-task-investigation"}}

LEMMA OthersDoNot == \A f \in Seq(Others) : ~ Records(f)
<1>1. Do("recordDecision") \notin Others
  BY DEF Others, Do, SendPrompt
<1> QED
  BY <1>1 DEF Records

(* Only an agent's decision, in proposing, has one recorded.                *)
LEMMA EffectsOfStep ==
    ASSUME Next
    PROVE  fx' \in Seq(Others) \/ state = "proposing"
<1> DEFINE Goal == fx' \in Seq(Others)
<1>a. /\ <<>> \in Seq(Others)
      /\ \A a, b \in Others : <<a>> \in Seq(Others) /\ <<a, b>> \in Seq(Others)
  OBVIOUS
<1>b. \A f, g \in Seq(Others) : f \o g \in Seq(Others)
  OBVIOUS
<1>c. /\ \A e \in {"checkpoint", "recordPlan", "markTaskVerified",
                   "noteAutoApprovedTask", "noteAutoApprovedPlan",
                   "noteToleratedFailures", "rollbackToCheckpoint",
                   "runVerification", "reconcileEvidence", "recordEvidence",
                   "finishObjective"} : Do(e) \in Others
      /\ \A p \in {"explore", "propose", "plan", "verify"} : SendPrompt(p) \in Others
      /\ TaskPrompt \in Others
  BY DEF Others, TaskPrompt
<1> SUFFICES Goal \/ state = "proposing"
  OBVIOUS
<1> HIDE DEF Goal
<1>x. ASSUME NEW before \in Seq(Others), EnterExecuting(before) PROVE Goal
  BY <1>x, <1>a, <1>b, <1>c DEF Goal, EnterExecuting, OpenTurn, Enter
<1>p. ASSUME NEW before \in Seq(Others), NEW ts, ApprovePlanWith(ts, before) PROVE Goal
  BY <1>x, <1>p, <1>a, <1>b, <1>c DEF ApprovePlanWith
<1>t. ASSUME NEW before \in Seq(Others), NEW items, ApproveTaskWith(items, before)
      PROVE  Goal
  <2>1. CASE EnterExecuting(before \o <<Do("markTaskVerified")>>)
    BY <2>1, <1>x, <1>a, <1>b, <1>c
  <2>2. CASE Enter("integrating", before)
    BY <2>2 DEF Goal, Enter
  <2> QED
    BY <1>t, <2>1, <2>2 DEF ApproveTaskWith
<1>r. ASSUME NEW before \in Seq(Others), NEW items, EnterAwaitingReview(items, before)
      PROVE  Goal
  <2>1. CASE ApproveTaskWith(items, before \o <<Do("noteAutoApprovedTask")>>)
    BY <2>1, <1>t, <1>a, <1>b, <1>c
  <2>2. CASE Enter("awaitingReview", before)
    BY <2>2 DEF Goal, Enter
  <2> QED
    BY <1>r, <2>1, <2>2 DEF EnterAwaitingReview
<1>e. ASSUME fx' = <<>> PROVE Goal
  BY <1>e, <1>a DEF Goal
<1>o. ASSUME NEW a \in Others, fx' = <<a>> PROVE Goal
  BY <1>o, <1>a DEF Goal
<1> USE DEF Enter, EnterSilently, OpenTurn, EnterExploring, EnterProposing,
            EnterPlanning, EnterRevising, EnterVerifying
<1>1. CASE Start \/ AnswerClarification \/ Decide \/ Revise
  BY <1>1, <1>c, <1>o DEF Start, AnswerClarification, Decide, Revise
<1>2. CASE ApprovePlan
  BY <1>2, <1>a, <1>p DEF ApprovePlan
<1>3. CASE ApproveTask
  BY <1>3, <1>a, <1>t DEF ApproveTask
<1>4. CASE Rollback
  BY <1>4, <1>a, <1>c, <1>x DEF Rollback, RollBack
<1>5. CASE Pause \/ Cancel \/ SetLowEnergy \/ TurnFailed \/ VerificationFailed
  BY <1>5, <1>e DEF Pause, Cancel, SetLowEnergy, TurnFailed, VerificationFailed
<1>6. CASE Resume
  <2>1. CASE EnterExecuting(<<>>)
    BY <2>1, <1>a, <1>x
  <2>2. CASE EnterAwaitingReview(evidence, <<>>)
    BY <2>2, <1>a, <1>r
  <2>3. CASE \/ EnterExploring \/ EnterProposing \/ EnterPlanning
             \/ EnterVerifying \/ EnterRevising
    BY <2>3, <1>c, <1>o
  <2>4. CASE Enter("integrating", <<>>) \/ Enter("idle", <<>>)
    BY <2>4, <1>e
  <2> QED
    BY <1>6, <2>1, <2>2, <2>3, <2>4 DEF Resume
<1>7. CASE Integrate
  BY <1>7, <1>c, <1>e, <1>o DEF Integrate
<1>8. ASSUME NEW e \in AgentEvents, AgentEvent(e) PROVE Goal \/ state = "proposing"
  BY <1>8, <1>c, <1>e, <1>o DEF AgentEvent, EffectsOf, Accepts, AgentEvents
<1>9. CASE PlanEvent
  BY <1>9, <1>c, <1>o DEF PlanEvent
<1>10. CASE TurnFinished
  <2>1. CASE ExploreFinished
    BY <2>1, <1>c, <1>e, <1>o DEF ExploreFinished
  <2>2. CASE ProposeFinished
    BY <2>2, <1>e DEF ProposeFinished
  <2>3. CASE PlanFinished
    <3>1. <<Do("noteAutoApprovedPlan")>> \in Seq(Others)
      BY <1>a, <1>c
    <3> QED
      BY <2>3, <3>1, <1>p, <1>e DEF PlanFinished
  <2>4. CASE ExecuteFinished \/ ReviseFinished \/ VerifyFinished
    BY <2>4, <1>c, <1>e, <1>o DEF ExecuteFinished, ReviseFinished, VerifyFinished
  <2> QED
    BY <1>10, <2>1, <2>2, <2>3, <2>4 DEF TurnFinished
<1>11. ASSUME NEW run, NEW risk, VerificationDone(run, risk) PROVE Goal
  BY <1>11, <1>c, <1>o DEF VerificationDone, Judged
<1>12. ASSUME NEW items, EvidenceResult(items) PROVE Goal
  <2>1. <<Do("noteToleratedFailures")>> \in Seq(Others)
    BY <1>a, <1>c
  <2> QED
    BY <1>12, <2>1, <1>r, <1>e DEF EvidenceResult
<1> QED
  BY <1>1, <1>2, <1>3, <1>4, <1>5, <1>6, <1>7, <1>8, <1>9, <1>10, <1>11, <1>12
     DEF Next, UserCommand

-----------------------------------------------------------------------------
(* A Fast Fix never proposes.                                              *)

Proposing == {"proposing", "awaitingDecision"}
SkipsPropose ==
    mode = "fastfix" => state \notin Proposing /\ resumeState \notin Proposing

LEMMA SkipsStep == SkipsPropose /\ [Next]_vars => SkipsPropose' /\ mode' = mode
<1> SUFFICES ASSUME SkipsPropose, [Next]_vars PROVE SkipsPropose' /\ mode' = mode
  OBVIOUS
<1> DEFINE Goal == SkipsPropose' /\ mode' = mode
<1> SUFFICES Goal
  OBVIOUS
<1> HIDE DEF Goal
<1>s. ASSUME NEW s \in States \ Proposing, Enter(s, fx') \/ EnterSilently(s, fx'), mode' = mode
      PROVE  Goal
  BY <1>s DEF Goal, Enter, EnterSilently, SkipsPropose
<1>u. ASSUME UNCHANGED <<state, resumeState, mode>> PROVE Goal
  BY <1>u DEF Goal, SkipsPropose
<1>p. ASSUME mode # "fastfix", mode' = mode PROVE Goal
  BY <1>p DEF Goal, SkipsPropose
<1> USE DEF States, PlanStates, WorkStates, Terminal, Proposing, Enter,
            EnterSilently, OpenTurn, EnterExploring, EnterPlanning, EnterRevising,
            EnterVerifying, EnterExecuting
<1>a. ASSUME NEW items, NEW before, EnterAwaitingReview(items, before), mode' = mode
      PROVE  Goal
  BY <1>a, <1>s DEF EnterAwaitingReview, ApproveTaskWith
<1>1. CASE Start \/ AnswerClarification \/ Decide
  BY <1>1, <1>s DEF Start, AnswerClarification, Decide
<1>2. CASE ApprovePlan
  BY <1>2, <1>s DEF ApprovePlan, ApprovePlanWith
<1>3. CASE ApproveTask
  BY <1>3, <1>s DEF ApproveTask, ApproveTaskWith
<1>4. CASE Revise
  <2>1. CASE state = "awaitingDecision"
    BY <1>4, <2>1, <1>p DEF Revise, SkipsPropose
  <2>2. CASE state # "awaitingDecision"
    BY <1>4, <2>2, <1>s DEF Revise
  <2> QED
    BY <2>1, <2>2
<1>5. CASE Rollback
  BY <1>5, <1>s DEF Rollback, RollBack
<1>6. CASE Pause \/ Cancel \/ TurnFailed \/ VerificationFailed
  BY <1>6, <1>s DEF Pause, Cancel, TurnFailed, VerificationFailed
<1>7. CASE Resume
  <2>1. CASE resumeState = "proposing"
    BY <1>7, <2>1, <1>p DEF Resume, SkipsPropose
  <2>2. CASE EnterAwaitingReview(evidence, <<>>)
    BY <1>7, <2>2, <1>a DEF Resume
  <2>3. CASE resumeState # "proposing" /\ ~ EnterAwaitingReview(evidence, <<>>)
    BY <1>7, <2>3, <1>s DEF Resume
  <2> QED
    BY <2>1, <2>2, <2>3
<1>8. CASE SetLowEnergy
  BY <1>8, <1>u DEF SetLowEnergy
<1>9. CASE Integrate
  BY <1>9, <1>s DEF Integrate
<1>10. ASSUME NEW e, AgentEvent(e) PROVE Goal
  BY <1>10, <1>u DEF AgentEvent
<1>11. CASE PlanEvent
  BY <1>11, <1>u DEF PlanEvent
<1>12. CASE ExploreFinished
  BY <1>12, <1>s, <1>p DEF ExploreFinished
<1>13. CASE ProposeFinished
  BY <1>13, <1>p DEF ProposeFinished, SkipsPropose
<1>14. CASE PlanFinished
  BY <1>14, <1>s DEF PlanFinished, ApprovePlanWith
<1>15. CASE ExecuteFinished \/ ReviseFinished
  BY <1>15, <1>s DEF ExecuteFinished, ReviseFinished
<1>16. CASE VerifyFinished
  BY <1>16, <1>u DEF VerifyFinished
<1>17. ASSUME NEW run, NEW risk, VerificationDone(run, risk) PROVE Goal
  BY <1>17, <1>u DEF VerificationDone
<1>18. ASSUME NEW items, EvidenceResult(items) PROVE Goal
  BY <1>18, <1>a, <1>s, <1>u DEF EvidenceResult
<1>19. CASE UNCHANGED vars
  BY <1>19, <1>u DEF vars
<1> QED
  BY <1>1, <1>2, <1>3, <1>4, <1>5, <1>6, <1>7, <1>8, <1>9, <1>10, <1>11, <1>12,
     <1>13, <1>14, <1>15, <1>16, <1>17, <1>18, <1>19
     DEF Next, UserCommand, TurnFinished

-----------------------------------------------------------------------------
(* The stepper.                                                            *)

FocusInv ==
    /\ TypeOK
    /\ SkipsPropose
    /\ decisionRow \in BOOLEAN
    /\ mode = "fastfix" => decisionRow = FALSE

LEMMA FocusInvInit == FocusInit => FocusInv
  BY TypeInit DEF FocusInit, FocusInv, Init, SkipsPropose, Proposing

LEMMA FocusInvStep == FocusInv /\ [FocusNext]_<<vars, focusVars>> => FocusInv'
<1> SUFFICES ASSUME FocusInv, [FocusNext]_<<vars, focusVars>> PROVE FocusInv'
  OBVIOUS
<1>1. [Next]_vars
  BY DEF FocusNext
<1>2. TypeOK' /\ SkipsPropose' /\ mode' = mode
  BY <1>1, TypeStep, SkipsStep DEF FocusInv
<1>3. CASE FocusNext
  <2>1. mode = "fastfix" => ~ Performed({"recordDecision"})
    <3>1. mode = "fastfix" => state # "proposing"
      BY DEF FocusInv, SkipsPropose, Proposing
    <3>2. mode = "fastfix" => ~ Records(fx')
      BY <1>3, <3>1, EffectsOfStep, OthersDoNot DEF FocusNext
    <3> QED
      BY <3>2 DEF Performed, Records
  <2>2. decisionRow' = (decisionRow \/ Performed({"recordDecision"}))
    BY <1>3 DEF FocusNext
  <2> QED
    BY <1>2, <2>1, <2>2 DEF FocusInv
<1>4. CASE UNCHANGED <<vars, focusVars>>
  BY <1>2, <1>4 DEF FocusInv, focusVars
<1> QED
  BY <1>3, <1>4

(* What a pause or the end may infer is a step the view draws.              *)
LEMMA InferredIsDrawn ==
    ASSUME FocusInv, NEW said \in StatusPhases \cup {"none"}, NEW begun \in BOOLEAN
    PROVE  InferPhase(said, begun) \in DrawnSteps
<1>1. said \notin DOMAIN PromptPhase
  BY DEF StatusPhases, PromptPhase
<1>2. InferPhase(said, begun) \in
        IF mode = "fastfix" THEN {"execute", "plan", "explore"}
        ELSE {"execute", "plan", "explore", "propose"}
  <2>1. CASE begun
    BY <1>1, <2>1 DEF InferPhase
  <2>2. CASE ~ begun /\ tasks # <<>>
    BY <1>1, <2>2 DEF InferPhase
  <2>3. CASE ~ begun /\ tasks = <<>>
    BY <1>1, <2>3 DEF InferPhase, FocusInv
  <2> QED
    BY <2>1, <2>2, <2>3
<1> QED
  BY <1>2 DEF DrawnSteps, PhaseKeys

(* The stepper lights one step, and one that it draws: a Fast Fix neither    *)
(* proposes nor leaves a decision row to infer a proposal from              *)
(* (phase.ts:89-122).                                                       *)
THEOREM StepperAlwaysFits == FocusSpec => []StepperShowsOnePhase
<1>1. FocusInv => StepperShowsOnePhase
  <2> SUFFICES ASSUME FocusInv, state # "done"
               PROVE  CurrentPhases \subseteq DrawnSteps
    BY DEF StepperShowsOnePhase
  <2>1. CASE state \in {"paused", "cancelled"}
    <3>1. PhaseOfState(state) = "none"
      BY <2>1 DEF PhaseOfState
    <3>2. ASSUME NEW said \in StatusPhases \cup {"none"},
                 NEW begun \in {FALSE, tasks # <<>>}
          PROVE  InferPhase(said, begun) \in DrawnSteps
      <4>1. begun \in BOOLEAN
        OBVIOUS
      <4> QED
        BY <4>1, InferredIsDrawn
    <3> QED
      BY <3>1, <3>2 DEF CurrentPhases
  <2>2. CASE state \notin {"paused", "cancelled"}
    <3>1. /\ PhaseOfState(state) \in PhaseKeys
          /\ mode = "fastfix" => PhaseOfState(state) # "propose"
      BY <2>2 DEF FocusInv, TypeOK, States, PlanStates, WorkStates, Terminal,
                  PhaseOfState, PhaseKeys, SkipsPropose, Proposing
    <3>2. PhaseOfState(state) # "none"
      BY <3>1 DEF PhaseKeys
    <3> QED
      BY <3>1, <3>2 DEF CurrentPhases, DrawnSteps
  <2> QED
    BY <2>1, <2>2
<1>2. FocusInv /\ [FocusNext]_<<vars, focusVars>> => FocusInv'
  BY FocusInvStep
<1> QED
  BY FocusInvInit, <1>1, <1>2, PTL DEF FocusSpec

-----------------------------------------------------------------------------
(* What the screen offers.  Its buttons depend on the plan and on the       *)
(* decision row, the machine's guards on the position and on what a turn    *)
(* said: two facts tie them together.                                       *)

(* The view counts the plan, the rollback guard looks up the present task.  *)
PositionFits == tasks = <<>> \/ taskIndex < Len(tasks)

(* A decision is awaited only once it was recorded, and it is recorded as   *)
(* soon as the agent has asked for it.                                      *)
DecisionOnFile ==
    \/ state = "proposing" /\ "decision_needed" \in turnEvents
    \/ state = "awaitingDecision"
    => decisionRow

ScreenInv == IInv /\ PlanningIsUnproven /\ PositionFits /\ DecisionOnFile

LEMMA ScreenInvInit == FocusInit => ScreenInv
  BY IInvInit, PromiseInit DEF FocusInit, Init, ScreenInv, PositionFits, DecisionOnFile

(* The promise moves the position only to a task there is.                  *)
LEMMA PositionStep ==
    ASSUME IInv, PositionFits, [Promise!Next]_(Promise!objective)
    PROVE  PositionFits'
<1>1. taskIndex \in Nat /\ Len(tasks) \in Nat
  BY PlanFacts, WorkflowAssumption DEF IInv, TypeOK
<1>p. ASSUME NEW q \in Promise!Plans PROVE Len(q) > 0
  <2>1. q \in Plans
    BY <1>p DEF Plans, Promise!Plans
  <2> QED
    BY <2>1, PlanFacts, WorkflowAssumption
<1>f. Stage = "planning" => taskIndex = 0
  BY StageFacts DEF IInv, PlanningIsFresh
<1>2. CASE Promise!Plan
  BY <1>2, <1>p, <1>f DEF Promise!Plan, PositionFits
<1>3. CASE Promise!Begin
  BY <1>3, <1>p, <1>f DEF Promise!Begin, PositionFits
<1>4. ASSUME NEW items, Promise!ApproveOn(items) PROVE PositionFits'
  BY <1>1, <1>4 DEF Promise!ApproveOn, PositionFits
<1>5. CASE UNCHANGED <<tasks, taskIndex>>
  BY <1>5 DEF PositionFits
<1> QED
  BY <1>2, <1>3, <1>4, <1>5
     DEF Promise!Next, Promise!objective, Promise!Approve, Promise!AutoApprove,
         Promise!StartOver, Promise!Judge, Promise!Finish, Promise!GiveUp,
         Promise!SetLowEnergy

(* How a step comes to stand where decisions are asked for.                 *)
LEMMA DecisionsComeAbout ==
    ASSUME [Next]_vars
    PROVE  \/ UNCHANGED <<state, turnEvents>>
           \/ state' \notin Proposing
           \/ turnEvents' = {} /\ state' # "awaitingDecision"
           \/ state = "proposing" /\ "decision_needed" \in turnEvents
           \/ \E e \in AgentEvents : AgentEvent(e)
<1> DEFINE Goal == \/ UNCHANGED <<state, turnEvents>>
                   \/ state' \notin Proposing
                   \/ turnEvents' = {} /\ state' # "awaitingDecision"
                   \/ state = "proposing" /\ "decision_needed" \in turnEvents
                   \/ \E e \in AgentEvents : AgentEvent(e)
<1> SUFFICES Goal
  OBVIOUS
<1>n. ASSUME state' \notin Proposing PROVE Goal
  BY <1>n
<1>o. ASSUME turnEvents' = {}, state' # "awaitingDecision" PROVE Goal
  BY <1>o
<1>u. ASSUME UNCHANGED <<state, turnEvents>> PROVE Goal
  BY <1>u
<1>d. ASSUME state = "proposing", "decision_needed" \in turnEvents PROVE Goal
  BY <1>d
<1>g. ASSUME NEW e \in AgentEvents, AgentEvent(e) PROVE Goal
  BY <1>g
<1> HIDE DEF Goal
<1> USE DEF Proposing, Enter, EnterSilently, OpenTurn, EnterExploring, EnterProposing,
            EnterPlanning, EnterRevising, EnterVerifying, EnterExecuting
<1>a. ASSUME NEW items, NEW before, EnterAwaitingReview(items, before) PROVE Goal
  BY <1>a, <1>n DEF EnterAwaitingReview, ApproveTaskWith
<1>1. CASE Start \/ AnswerClarification \/ Decide \/ Revise
  BY <1>1, <1>o DEF Start, AnswerClarification, Decide, Revise
<1>2. CASE ApprovePlan \/ ApproveTask \/ Rollback
  BY <1>2, <1>n DEF ApprovePlan, ApprovePlanWith, ApproveTask, ApproveTaskWith, Rollback,
     RollBack
<1>3. CASE Pause \/ Cancel \/ TurnFailed \/ VerificationFailed \/ Integrate
  BY <1>3, <1>n DEF Pause, Cancel, TurnFailed, VerificationFailed, Integrate
<1>4. CASE Resume
  BY <1>4, <1>n, <1>o, <1>a DEF Resume
<1>5. CASE SetLowEnergy \/ VerifyFinished
  BY <1>5, <1>u DEF SetLowEnergy, VerifyFinished
<1>6. CASE PlanEvent
  BY <1>6, <1>n DEF PlanEvent
<1>7. CASE ExploreFinished \/ ExecuteFinished \/ ReviseFinished
  BY <1>7, <1>n, <1>o DEF ExploreFinished, ExecuteFinished, ReviseFinished
<1>8. CASE ProposeFinished
  BY <1>8, <1>n, <1>d DEF ProposeFinished
<1>9. CASE PlanFinished
  BY <1>9, <1>n DEF PlanFinished, ApprovePlanWith
<1>10. ASSUME NEW run, NEW risk, VerificationDone(run, risk) PROVE Goal
  BY <1>10, <1>u DEF VerificationDone
<1>11. ASSUME NEW items, EvidenceResult(items) PROVE Goal
  BY <1>11, <1>a, <1>n, <1>u DEF EvidenceResult
<1>12. CASE UNCHANGED vars
  BY <1>12, <1>u DEF vars
<1> QED
  BY <1>1, <1>2, <1>3, <1>4, <1>5, <1>6, <1>7, <1>8, <1>9, <1>10, <1>11, <1>12, <1>g
     DEF Next, UserCommand, TurnFinished

LEMMA DecisionStep ==
    ASSUME DecisionOnFile, [FocusNext]_<<vars, focusVars>>
    PROVE  DecisionOnFile'
<1>1. [Next]_vars
  BY DEF FocusNext
<1>2. decisionRow => decisionRow'
  BY DEF FocusNext, focusVars
<1>3. ASSUME NEW e \in AgentEvents, AgentEvent(e) PROVE DecisionOnFile'
  <2>1. state' = state /\ turnEvents' = turnEvents \cup {e}
    BY <1>3 DEF AgentEvent
  <2>2. CASE e # "decision_needed"
    BY <1>2, <2>1, <2>2 DEF DecisionOnFile
  <2>3. CASE e = "decision_needed"
    <3>1. fx' = <<Do("recordDecision")>>
      BY <1>3, <2>3 DEF AgentEvent, EffectsOf
    <3>2. Performed({"recordDecision"})
      BY <3>1 DEF Performed
    <3>3. CASE FocusNext
      BY <3>2, <3>3 DEF FocusNext, DecisionOnFile
    <3>4. CASE UNCHANGED <<vars, focusVars>>
      BY <3>4 DEF vars, focusVars, DecisionOnFile
    <3> QED
      BY <3>3, <3>4
  <2> QED
    BY <2>2, <2>3
<1>4. CASE UNCHANGED <<state, turnEvents>>
  BY <1>2, <1>4 DEF DecisionOnFile
<1>5. CASE state' \notin Proposing
  BY <1>5 DEF Proposing, DecisionOnFile
<1>6. CASE turnEvents' = {} /\ state' # "awaitingDecision"
  BY <1>6 DEF DecisionOnFile
<1>7. CASE state = "proposing" /\ "decision_needed" \in turnEvents
  BY <1>2, <1>7 DEF DecisionOnFile
<1> QED
  BY <1>1, <1>3, <1>4, <1>5, <1>6, <1>7, DecisionsComeAbout

LEMMA ScreenInvStep == ScreenInv /\ [FocusNext]_<<vars, focusVars>> => ScreenInv'
<1> SUFFICES ASSUME ScreenInv, [FocusNext]_<<vars, focusVars>> PROVE ScreenInv'
  OBVIOUS
<1>1. [Next]_vars
  BY DEF FocusNext
<1>2. IInv'
  BY <1>1, IInvStep DEF ScreenInv
<1>3. PlanningIsUnproven' /\ [Promise!Next]_(Promise!objective)
  <2>1. CASE UNCHANGED vars
    BY <2>1 DEF vars, Promise!objective, Stage, ScreenInv, PlanningIsUnproven
  <2>2. CASE Next
    BY <1>2, <2>2, PromiseStep DEF ScreenInv, PromiseKept
  <2> QED
    BY <1>1, <2>1, <2>2
<1>4. PositionFits'
  BY <1>3, PositionStep DEF ScreenInv
<1>5. DecisionOnFile'
  BY DecisionStep DEF ScreenInv
<1> QED
  BY <1>2, <1>3, <1>4, <1>5 DEF ScreenInv

LEMMA ScreenInductive == FocusSpec => []ScreenInv
  BY ScreenInvInit, ScreenInvStep, PTL DEF FocusSpec

(* What stands around the primary element, in any state.                    *)
LEMMA FrameIsTaken ==
    ASSUME TypeOK,
           NEW c \in HeaderCommands(state) \cup AutoApprovalBanner \cup GitCommands(state)
    PROVE  ServerTakes(c) \/ (c = "stop for now" /\ state \in Terminal)
<1>1. CASE c \in HeaderCommands(state)
  <2>1. Active
    BY <1>1 DEF HeaderCommands, PrimaryElementFor, Live, Active, Terminal
  <2>2. c \in {"pause", "set_low_energy", "abandon"}
    BY <1>1 DEF HeaderCommands, AbandonDialog
  <2> QED
    BY <2>1, <2>2 DEF ServerTakes
<1>2. CASE c \in AutoApprovalBanner
  <2>1. c = "stop for now"
    BY <1>2 DEF AutoApprovalBanner
  <2> QED
    BY <2>1 DEF ServerTakes, Active
<1>3. CASE c \in GitCommands(state)
  <2>1. c = "git" /\ state \in {"paused", "awaitingReview"}
    BY <1>3 DEF GitCommands, GitStates, StripBusy
  <2> QED
    BY <2>1 DEF ServerTakes, Writers
<1> QED
  BY <1>1, <1>2, <1>3

(* No button the screen shows is refused, but for an integration that the   *)
(* evidence does not carry and the banner after the end: the plan the view  *)
(* counts is the one the rollback guard reads (FocusView.tsx:402-408).      *)
THEOREM OfferedIsTaken == FocusSpec => []NothingOfferedIsRefused
<1>1. ScreenInv => NothingOfferedIsRefused
  <2> SUFFICES ASSUME ScreenInv, NEW c \in Offered(state)
               PROVE  \/ ServerTakes(c)
                      \/ c \in Integrations /\ ~MayIntegrate
                      \/ c = "stop for now" /\ state \in Terminal
    BY DEF NothingOfferedIsRefused
  <2> DEFINE Goal == \/ ServerTakes(c)
                     \/ c \in Integrations /\ ~MayIntegrate
                     \/ c = "stop for now" /\ state \in Terminal
             Frame == HeaderCommands(state) \cup AutoApprovalBanner \cup GitCommands(state)
  <2>s. state \in States /\ TypeOK
    BY DEF ScreenInv, IInv, TypeOK
  <2>1. CASE c \in Frame
    BY <2>1, <2>s, FrameIsTaken
  <2>2. CASE c \notin Frame /\ state \in Live
    <3>1. c = "pause"
      BY <2>2 DEF Offered, PrimaryElementFor, Live, StaleNotice
    <3> QED
      BY <2>2, <3>1 DEF ServerTakes, Active, Terminal, Live
  <2>3. CASE c \notin Frame /\ state = "clarifying"
    <3>1. c = "answer_clarification"
      BY <2>3 DEF Offered, PrimaryElementFor, Live, DecisionCommands, ClarificationPrompt
    <3> QED
      BY <2>3, <3>1 DEF ServerTakes
  <2>4. CASE c \notin Frame /\ state \in {"awaitingDecision", "awaitingPlanApproval"}
    <3>1. \/ c \in {"revise", "pause"}
          \/ c = "decide" /\ state = "awaitingDecision"
          \/ c = "approve_plan" /\ state = "awaitingPlanApproval"
      BY <2>4 DEF Offered, PrimaryElementFor, Live, DecisionCommands, DecisionCard,
                  PlanApproval
    <3> QED
      BY <2>4, <3>1 DEF ServerTakes, Active, Terminal
  <2>5. CASE c \notin Frame /\ state = "awaitingReview"
    <3>1. c \in {"approve_task", "revise", "rollback"}
      BY <2>5 DEF Offered, PrimaryElementFor, Live, ReviewCommands
    <3> QED
      BY <2>5, <3>1 DEF ServerTakes
  <2>6. CASE c \notin Frame /\ state = "integrating"
    <3>1. c \in IntegrationCommands
      BY <2>6 DEF Offered, PrimaryElementFor, Live
    <3>2. c \in Integrations /\ (c = "commit" => mode # "investigation")
      BY <3>1 DEF IntegrationCommands, Integrations
    <3> QED
      BY <2>6, <3>2 DEF ServerTakes, Integrations
  <2>7. CASE c \notin Frame /\ state \in {"idle", "paused"}
    <3>1. c \in ResumeCommands(state)
      BY <2>7 DEF Offered, PrimaryElementFor, Live
    <3>2. \/ c = "start" /\ state = "idle"
          \/ c = "resume" /\ state = "paused"
          \/ c = "rollback" /\ state = "paused" /\ tasks # <<>>
      BY <2>7, <3>1 DEF ResumeCommands
    <3>3. tasks # <<>> => HasTask
      BY DEF ScreenInv, PositionFits, HasTask
    <3> QED
      BY <3>2, <3>3 DEF ServerTakes
  <2>8. CASE c \notin Frame /\ state \in Terminal
    BY <2>8 DEF Offered, PrimaryElementFor, Live, Terminal
  <2> QED
    BY <2>s, <2>1, <2>2, <2>3, <2>4, <2>5, <2>6, <2>7, <2>8
       DEF States, PlanStates, WorkStates, Live
<1> QED
  BY <1>1, ScreenInductive, PTL

(* A paused screen with a plan offers the way back to its checkpoint.       *)
LEMMA PausedMayGoBack == tasks # <<>> => "rollback" \in Offered("paused")
<1>1. ASSUME NEW s \in {"idle", "paused"} PROVE ResumeCommands(s) \subseteq Offered(s)
  <2>1. PrimaryElementFor(s) = "resume"
    BY <1>1 DEF PrimaryElementFor, Live, Terminal
  <2> QED
    BY <2>1 DEF Offered
<1>2. tasks # <<>> => "rollback" \in ResumeCommands("paused")
  BY DEF ResumeCommands
<1> QED
  BY <1>1, <1>2

(* Wherever the objective waits for the user, the board says so and some    *)
(* button moves the work on and is accepted; integration, whose evidence    *)
(* may fall short, can be left by Pause and Roll back                       *)
(* (primary-element.ts, stateColor.ts:46, objectives.ts:737-757).           *)
THEOREM NobodyIsStranded == FocusSpec => []UserIsNeverStranded
<1>1. ScreenInv => UserIsNeverStranded
  <2> SUFFICES ASSUME ScreenInv, state \notin Live \cup Terminal,
                      state # "integrating" \/ tasks # <<>>
               PROVE  \/ /\ Tone(state) \in {"attention", "idle"}
                         /\ \E c \in Offered(state) \cap Forward : ServerTakes(c)
                      \/ /\ state = "integrating"
                         /\ "rollback" \in Offered("paused") /\ HasTask
    BY DEF UserIsNeverStranded
  <2>s. state \in States
    BY DEF ScreenInv, IInv, TypeOK
  <2>1. CASE state = "idle"
    <3>1. "start" \in Offered(state)
      BY <2>1 DEF Offered, PrimaryElementFor, Live, ResumeCommands
    <3>2. ServerTakes("start")
      BY <2>1 DEF ServerTakes
    <3> QED
      BY <2>1, <3>1, <3>2 DEF Forward, Tone
  <2>2. CASE state = "clarifying"
    <3>1. "answer_clarification" \in Offered(state)
      BY <2>2 DEF Offered, PrimaryElementFor, Live, DecisionCommands, ClarificationPrompt
    <3>2. ServerTakes("answer_clarification")
      BY <2>2 DEF ServerTakes
    <3> QED
      BY <2>2, <3>1, <3>2 DEF Forward, Tone, Live
  <2>3. CASE state = "awaitingDecision"
    <3>1. "decide" \in DecisionCommands(state)
      BY <2>3 DEF DecisionCommands, DecisionCard, ScreenInv, DecisionOnFile
    <3>2. "decide" \in Offered(state)
      BY <2>3, <3>1 DEF Offered, PrimaryElementFor, Live
    <3>3. ServerTakes("decide")
      BY <2>3 DEF ServerTakes
    <3> QED
      BY <2>3, <3>2, <3>3 DEF Forward, Tone, Live
  <2>4. CASE state = "awaitingPlanApproval"
    <3>1. "approve_plan" \in Offered(state)
      BY <2>4 DEF Offered, PrimaryElementFor, Live, PlanApproval
    <3>2. ServerTakes("approve_plan")
      BY <2>4 DEF ServerTakes
    <3> QED
      BY <2>4, <3>1, <3>2 DEF Forward, Tone, Live
  <2>5. CASE state = "awaitingReview"
    <3>1. "approve_task" \in Offered(state)
      BY <2>5 DEF Offered, PrimaryElementFor, Live, ReviewCommands
    <3>2. ServerTakes("approve_task")
      BY <2>5 DEF ServerTakes
    <3> QED
      BY <2>5, <3>1, <3>2 DEF Forward, Tone, Live
  <2>6. CASE state = "paused"
    <3>1. "resume" \in Offered(state)
      BY <2>6 DEF Offered, PrimaryElementFor, Live, ResumeCommands
    <3>2. ServerTakes("resume")
      BY <2>6 DEF ServerTakes
    <3> QED
      BY <2>6, <3>1, <3>2 DEF Forward, Tone, Live
  <2>7. CASE state = "integrating"
    <3>1. tasks # <<>> /\ HasTask
      BY <2>7 DEF ScreenInv, PositionFits, HasTask
    <3>2. "rollback" \in Offered("paused")
      BY <3>1, PausedMayGoBack
    <3> QED
      BY <2>7, <3>1, <3>2
  <2> QED
    BY <2>s, <2>1, <2>2, <2>3, <2>4, <2>5, <2>6, <2>7
       DEF States, PlanStates, WorkStates, Live
<1> QED
  BY <1>1, ScreenInductive, PTL
=============================================================================
