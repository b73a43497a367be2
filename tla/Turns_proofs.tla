---------------------------- MODULE Turns_proofs ----------------------------
(* Proofs about the machine at work: for every spec, plan, number of jobs   *)
(* and of cancellations under way together.                                 *)
EXTENDS Turns, Workflow_proofs, SequenceTheorems, WellFoundedInduction

(* Where the machine takes a command is a condition on its state.           *)
USE DEF CanStart, CanAnswer, CanDecide, CanApprovePlan, CanApproveTask,
        CanRevise, CanRollBack, CanResume, CanIntegrate

-----------------------------------------------------------------------------
(* The machine at work is the machine.                                     *)

MailEvents == [type : {"TURN_FINISHED", "TURN_FAILED", "EVIDENCE_RESULT"},
               from : Jobs \cup {NoJob}, items : Items]

(* What the table holds, and what the machine is told it holds, are sets of *)
(* evidence items.                                                          *)
MailInv == mailbox \in Seq(MailEvents) /\ rows \in Items

LEMMA CurrentEvidenceType ==
    ASSUME NEW run, rows \in Items
    PROVE  CurrentEvidence(run) \in Items
  BY DEF CurrentEvidence, Items

LEMMA TurnEventType ==
    ASSUME NEW type \in {"TURN_FINISHED", "TURN_FAILED"}, NEW j \in Jobs \cup {NoJob}
    PROVE  TurnEvent(type, j) \in MailEvents
  BY NoItemsInItems DEF TurnEvent, MailEvents

LEMMA SentType ==
    ASSUME rows' \in Items
    PROVE  Sent \in Seq(MailEvents)
<1>1. <<TurnEvent("TURN_FAILED", NoJob)>> \in Seq(MailEvents)
  BY TurnEventType
<1>2. (CurrentEvidence(runId))' \in Items
  BY DEF CurrentEvidence, Items
<1>3. <<EvidenceEvent((CurrentEvidence(runId))')>> \in Seq(MailEvents)
  BY <1>2 DEF EvidenceEvent, MailEvents
<1> QED
  BY <1>1, <1>3, ConcatProperties, EmptySeq DEF Sent

LEMMA SendType ==
    ASSUME MailInv, NEW e \in MailEvents, Send(e)
    PROVE  mailbox' \in Seq(MailEvents)
  BY DEF MailInv, Send

(* A checkpoint's start expires the checks; the rest of the table stays.    *)
LEMMA NewEpochType ==
    ASSUME rows \in Items, NewEpoch
    PROVE  rows' \in Items
  BY DEF NewEpoch, Items

LEMMA MailInit == TurnsInit => MailInv
  BY NoItemsInItems, EmptySeq DEF TurnsInit, ServerInit, MailInv

(* A macrostep of the server is a step of the machine.                      *)
LEMMA HandleIsNext ==
    ASSUME MailInv, mailbox # <<>>, Handle(Head(mailbox))
    PROVE  Next
<1>1. Head(mailbox) \in MailEvents
  BY DEF MailInv
<1>2. Head(mailbox).items \in Items
  BY <1>1 DEF MailEvents
<1> QED
  BY <1>2 DEF Handle, Next

LEMMA MachineStep == MailInv /\ [TurnsNext]_allVars => [Next]_vars
<1> SUFFICES ASSUME MailInv, [TurnsNext]_allVars PROVE [Next]_vars
  OBVIOUS
<1>1. CASE ProcessEvent
  BY <1>1, HandleIsNext DEF ProcessEvent
<1>2. CASE Command
  BY <1>2 DEF Command, Next, UserCommand
<1>3. CASE AgentSays
  BY <1>3 DEF AgentSays, Next
<1>4. CASE CollectorDone
  BY <1>4 DEF CollectorDone, Next
<1>5. CASE CollectorFails
  BY <1>5 DEF CollectorFails, Next
<1>6. CASE \E j \in Jobs : RunTurn(j) \/ PromptReturns(j) \/ PromptFails(j)
               \/ RepairEnds(j) \/ TurnStep(j) \/ EnsureDone(j)
  BY <1>6 DEF RunTurn, PromptReturns, PromptFails, RepairEnds, TurnStep,
     SettleFallbackDone, Timeout, TimeoutFallbackDone, EnsureDone
<1>7. CASE CancelTurn \/ TickCheck \/ AgentWrites \/ CancelProceeds
           \/ CancelFallbackDone \/ Checkpoint \/ ResetToCheckpoint
  BY <1>7 DEF CancelTurn, TickCheck, AgentWrites, CancelProceeds,
     CancelFallbackDone, Checkpoint, ResetToCheckpoint
<1>8. CASE UNCHANGED allVars
  BY <1>8 DEF allVars
<1> QED
  BY <1>1, <1>2, <1>3, <1>4, <1>5, <1>6, <1>7, <1>8
     DEF TurnsNext, ThreadStep, UserStep, AgentStep, ServerStep

LEMMA MailStep == MailInv /\ [TurnsNext]_allVars => MailInv'
<1> SUFFICES ASSUME MailInv, [TurnsNext]_allVars PROVE MailInv'
  OBVIOUS
<1>p. ASSUME NEW waiting \in Seq(MailEvents), rows' \in Items, Perform(waiting)
      PROVE  MailInv'
  BY <1>p, SentType, ConcatProperties DEF Perform, MailInv
<1>1. CASE ProcessEvent
  <2>1. Tail(mailbox) \in Seq(MailEvents)
    BY <1>1 DEF ProcessEvent, MailInv
  <2>2. CASE NewEpoch /\ Perform(Tail(mailbox))
    BY <2>1, <2>2, <1>p, NewEpochType DEF MailInv
  <2>3. CASE mailbox' = Tail(mailbox) /\ UNCHANGED testVars
    BY <2>1, <2>3 DEF MailInv, testVars
  <2> QED
    BY <1>1, <2>2, <2>3 DEF ProcessEvent
<1>2. CASE Command
  BY <1>2, <1>p, NewEpochType, EmptySeq DEF Command, MailInv
<1>3. CASE AgentSays
  <2>1. rows' \in Items
    BY <1>3, TurnsAssumption DEF AgentSays, MailInv, Items
  <2> QED
    BY <1>3, <1>p, <2>1, EmptySeq DEF AgentSays
<1>4. CASE CollectorDone
  <2>1. PICK found \in [Commands -> Outcomes] :
            rows' = [i \in Ids |-> IF i \in Commands THEN found[i] ELSE rows[i]]
    BY <1>4 DEF CollectorDone
  <2>2. rows' \in Items
    BY <2>1, TurnsAssumption DEF MailInv, Items
  <2> QED
    BY <1>4, <1>p, <2>2, EmptySeq DEF CollectorDone
<1>5. CASE CollectorFails
  BY <1>5, <1>p, EmptySeq DEF CollectorFails, MailInv
<1>6. CASE TickCheck
  BY <1>6 DEF TickCheck, MailInv, Items, Status
<1>7. CASE UNCHANGED <<mailbox, rows>>
  BY <1>7 DEF MailInv
<1>8. CASE /\ UNCHANGED rows
           /\ \E type \in {"TURN_FINISHED", "TURN_FAILED"}, j \in Jobs \cup {NoJob} :
                Send(TurnEvent(type, j))
  BY <1>8, SendType, TurnEventType DEF MailInv
<1> USE DEF testVars
<1>9. CASE \E j \in Jobs : RunTurn(j) \/ Timeout(j) \/ TimeoutFallbackDone(j)
               \/ EnsureDone(j)
  BY <1>9, <1>7, <1>8 DEF RunTurn, Timeout, TimeoutFallbackDone, EnsureDone, TimedOut
<1>10. CASE \E j \in Jobs : PromptReturns(j) \/ PromptFails(j) \/ RepairEnds(j)
               \/ SettleFallbackDone(j)
  BY <1>10, <1>7, <1>8 DEF PromptReturns, PromptFails, RepairEnds,
     SettleFallbackDone, EndSettle, SettleOver
<1>11. CASE CancelTurn \/ AgentWrites \/ CancelProceeds \/ CancelFallbackDone
  BY <1>11, <1>7 DEF CancelTurn, AgentWrites, CancelProceeds, CancelFallbackDone
<1>12. CASE Checkpoint \/ ResetToCheckpoint
  BY <1>12, <1>7, <1>8 DEF Checkpoint, ResetToCheckpoint, GitFailed
<1>13. CASE UNCHANGED allVars
  BY <1>13, <1>7 DEF allVars, serverVars
<1> QED
  BY <1>1, <1>2, <1>3, <1>4, <1>5, <1>6, <1>9, <1>10, <1>11, <1>12, <1>13
     DEF TurnsNext, ThreadStep, UserStep, AgentStep, ServerStep, TurnStep

LEMMA MailInductive == TurnsSpec => []MailInv
  BY MailInit, MailStep, PTL DEF TurnsSpec

(* Whatever the turns, timers, git and the collector do, and in whatever    *)
(* order their reports arrive, the machine only ever takes the steps        *)
(* workflow-machine.ts gives it: the machine at work implements the machine.*)
THEOREM TurnsImplementWorkflow == TurnsSpec => Spec
<1>1. TurnsInit => Init
  BY DEF TurnsInit
<1>2. MailInv /\ [TurnsNext]_allVars => [Next]_vars
  BY MachineStep
<1> QED
  BY <1>1, <1>2, MailInductive, PTL DEF TurnsSpec, Spec

(* So what holds of the machine holds of it at work: nothing is done, or    *)
(* offered for review, that is not proven, and nothing integrated that was  *)
(* not reviewed.                                                            *)
COROLLARY WorkIsProven ==
    TurnsSpec => [](DoneIsProven /\ ReviewIsEvidenced /\ ReviewedInOrder)
  BY TurnsImplementWorkflow, DoneProven, ReviewEvidenced, ReviewInOrder, PTL

(* And no turn, however late, loses the plan, an approval or the position.  *)
COROLLARY WorkPlanKept == TurnsSpec => WorkKeepsItsPlan
  BY TurnsImplementWorkflow, PlanKept

(* Nor does any of it break what the machine promises of the objective.     *)
COROLLARY PromiseKeptAtWork == TurnsSpec => KeepsItsPromise
  BY TurnsImplementWorkflow, PromiseIsKept

-----------------------------------------------------------------------------
(* What a macrostep requests.                                              *)

EffectNames == {"sendPrompt", "runVerification", "checkpoint", "rollbackToCheckpoint",
                "recordPlan", "markTaskVerified", "noteAutoApprovedPlan",
                "noteAutoApprovedTask", "noteToleratedFailures", "recordDecision",
                "recordEvidence", "reconcileEvidence", "finishObjective"}
Phases == {"none", "explore", "propose", "plan", "execute-task",
           "execute-task-investigation", "verify"}
Effects == [do : EffectNames, phase : Phases]

LEMMA EnterExecutingRequests ==
    ASSUME NEW before \in Seq(Effects), EnterExecuting(before)
    PROVE  Requested("checkpoint") /\ PromptRequested
<1>1. <<Do("checkpoint"), TaskPrompt>> \in Seq(Effects)
  BY DEF Do, TaskPrompt, SendPrompt, Effects, EffectNames, Phases
<1>2. fx' = before \o <<Do("checkpoint"), TaskPrompt>>
  BY DEF EnterExecuting, OpenTurn, Enter
<1>3. Len(before) \in Nat
  OBVIOUS
<1>4. Len(before) + 1 \in DOMAIN fx' /\ Len(before) + 2 \in DOMAIN fx'
  BY <1>1, <1>2, <1>3, ConcatProperties, LenProperties
<1>5. fx'[Len(before) + 1] = Do("checkpoint") /\ fx'[Len(before) + 2] = TaskPrompt
  BY <1>1, <1>2, <1>3, ConcatProperties
<1> QED
  BY <1>4, <1>5 DEF Requested, PromptRequested, Do, TaskPrompt, SendPrompt

LEMMA EffectSeqs ==
    ASSUME NEW before \in Seq(Effects), NEW effect \in EffectNames
    PROVE  before \o <<Do(effect)>> \in Seq(Effects) /\ <<Do(effect)>> \in Seq(Effects)
<1>1. Do(effect) \in Effects
  BY DEF Do, Effects, Phases
<1> QED
  BY <1>1, ConcatProperties

(* Executing is only ever entered through its entry actions.                *)
LEMMA ApproveTaskEntersExecuting ==
    ASSUME NEW items, NEW before \in Seq(Effects), ApproveTaskWith(items, before),
           state' = "executing"
    PROVE  \E b \in Seq(Effects) : EnterExecuting(b)
  BY EffectSeqs DEF ApproveTaskWith, Enter, EffectNames

LEMMA ReviewEntersExecuting ==
    ASSUME NEW items, NEW before \in Seq(Effects), EnterAwaitingReview(items, before),
           state' = "executing"
    PROVE  \E b \in Seq(Effects) : EnterExecuting(b)
  BY EffectSeqs, ApproveTaskEntersExecuting DEF EnterAwaitingReview, Enter, EffectNames

LEMMA ExecutingEntered ==
    ASSUME Next, state' = "executing", state # "executing"
    PROVE  \E b \in Seq(Effects) : EnterExecuting(b)
<1>0. <<>> \in Seq(Effects)
  BY EmptySeq
<1> USE DEF OpenTurn, Enter, EnterSilently, EffectNames
<1>1. CASE ApprovePlan
  BY <1>0, <1>1, EffectSeqs DEF ApprovePlan, ApprovePlanWith
<1>2. CASE PlanFinished
  <2>1. ApprovePlanWith(tasks, <<Do("noteAutoApprovedPlan")>>)
    BY <1>2 DEF PlanFinished
  <2>2. EnterExecuting(<<Do("noteAutoApprovedPlan")>> \o <<Do("recordPlan")>>)
    BY <2>1 DEF ApprovePlanWith
  <2>3. <<Do("noteAutoApprovedPlan")>> \o <<Do("recordPlan")>> \in Seq(Effects)
    BY <1>0, EffectSeqs
  <2> QED
    BY <2>2, <2>3
<1>3. CASE ApproveTask
  BY <1>0, <1>3, ApproveTaskEntersExecuting DEF ApproveTask
<1>4. CASE Rollback
  BY <1>0, <1>4, EffectSeqs DEF Rollback, RollBack
<1>5. CASE Resume
  <2>1. CASE EnterExecuting(<<>>)
    BY <1>0, <2>1
  <2>2. CASE EnterAwaitingReview(evidence, <<>>)
    BY <1>0, <2>2, ReviewEntersExecuting
  <2>3. CASE ~EnterExecuting(<<>>) /\ ~EnterAwaitingReview(evidence, <<>>)
    BY <1>5, <2>3 DEF Resume, EnterExploring, EnterProposing, EnterPlanning,
       EnterVerifying, EnterRevising
  <2> QED
    BY <2>1, <2>2, <2>3
<1>6. CASE \E items \in Items : EvidenceResult(items)
  <2>1. PICK items \in Items : EvidenceResult(items)
    BY <1>6
  <2>2. EnterAwaitingReview(items, <<Do("noteToleratedFailures")>>)
    BY <2>1 DEF EvidenceResult
  <2>3. <<Do("noteToleratedFailures")>> \in Seq(Effects)
    BY <1>0, EffectSeqs
  <2> QED
    BY <2>2, <2>3, ReviewEntersExecuting
<1>7. CASE Start \/ AnswerClarification \/ Decide \/ Revise \/ Pause \/ Cancel
           \/ SetLowEnergy \/ Integrate
  BY <1>7 DEF Start, AnswerClarification, Decide, Revise, Pause, Cancel,
     SetLowEnergy, Integrate, EnterExploring, EnterProposing, EnterPlanning, EnterRevising
<1>8. CASE ExploreFinished \/ ProposeFinished \/ ExecuteFinished
           \/ ReviseFinished \/ VerifyFinished
  BY <1>8 DEF ExploreFinished, ProposeFinished, ExecuteFinished, ReviseFinished,
     VerifyFinished, EnterPlanning, EnterProposing, EnterVerifying
<1>9. CASE \/ TurnFailed \/ VerificationFailed \/ PlanEvent
           \/ \E e \in AgentEvents : AgentEvent(e)
           \/ \E run \in Runs, risk \in {"low", "high"} : VerificationDone(run, risk)
  BY <1>9 DEF TurnFailed, VerificationFailed, PlanEvent, AgentEvent, VerificationDone
<1> QED
  BY <1>1, <1>2, <1>3, <1>4, <1>5, <1>6, <1>7, <1>8, <1>9
     DEF Next, UserCommand, TurnFinished

-----------------------------------------------------------------------------
(* Work starts unproven.                                                   *)

StartsUnproven ==
    state' = "executing" /\ state # "executing" =>
        evidence' = NoItems /\ (CurrentEvidence(runId))' = NoItems

LEMMA UnprovenStep == MailInv /\ [TurnsNext]_allVars => StartsUnproven
<1> SUFFICES ASSUME MailInv, [TurnsNext]_allVars,
                    state' = "executing", state # "executing"
             PROVE  evidence' = NoItems /\ (CurrentEvidence(runId))' = NoItems
  BY DEF StartsUnproven
<1>1. Next /\ NewEpoch
  <2>1. [Next]_vars
    BY MachineStep
  <2>2. CASE ProcessEvent
    BY <2>1, <2>2 DEF ProcessEvent, vars
  <2>3. CASE Command
    BY <2>1, <2>3 DEF Command, vars
  <2>4. CASE AgentSays \/ CollectorDone \/ CollectorFails
    BY <2>4 DEF AgentSays, CollectorDone, CollectorFails, AgentEvent, PlanEvent,
       VerificationDone, VerificationFailed, EnterSilently
  <2>5. CASE UNCHANGED vars
    BY <2>5 DEF vars
  <2> QED
    BY <2>2, <2>3, <2>4, <2>5
       DEF TurnsNext, ThreadStep, UserStep, AgentStep, ServerStep, TurnStep, RunTurn,
           CancelTurn, TickCheck, AgentWrites, PromptReturns, PromptFails, RepairEnds,
           SettleFallbackDone, Timeout, TimeoutFallbackDone, EnsureDone, CancelProceeds,
           CancelFallbackDone, Checkpoint, ResetToCheckpoint, allVars
<1>2. PICK b \in Seq(Effects) : EnterExecuting(b)
  BY <1>1, ExecutingEntered
<1>3. evidence' = NoItems /\ runId' = NoRun
  BY <1>2 DEF EnterExecuting
<1>4. \A k \in Checks : rows'[k] = Missing
  BY <1>1, <1>2, EnterExecutingRequests DEF NewEpoch, Ids
<1>5. (CurrentEvidence(runId))' = [i \in Ids |-> Missing]
  BY <1>3, <1>4 DEF CurrentEvidence, Ids
<1> QED
  BY <1>3, <1>5 DEF NoItems

(* No task begins, or begins again, with an answer from before that its     *)
(* verdict could count - by whatever way executing is entered.              *)
THEOREM UnprovenStart == TurnsSpec => WorkStartsUnproven
<1>1. MailInv /\ [TurnsNext]_allVars => [StartsUnproven]_allVars
  BY UnprovenStep
<1>2. TurnsSpec => [][StartsUnproven]_allVars
  BY <1>1, MailInductive, PTL DEF TurnsSpec
<1> QED
  BY <1>2 DEF WorkStartsUnproven, StartsUnproven

-----------------------------------------------------------------------------
(* Which macrosteps request a checkpoint, a prompt or the collector.        *)

(* The lists of effects that hold no checkpoint.                            *)
Quiet == {s \in Seq(Effects) : \A i \in DOMAIN s : s[i].do # "checkpoint"}

LEMMA QuietFacts ==
    /\ <<>> \in Quiet
    /\ \A before \in Quiet, effect \in EffectNames \ {"checkpoint"} :
         before \o <<Do(effect)>> \in Quiet
    /\ \A effect \in EffectNames \ {"checkpoint"} : <<Do(effect)>> \in Quiet
<1>1. <<>> \in Quiet
  BY EmptySeq DEF Quiet
<1>2. ASSUME NEW before \in Quiet, NEW effect \in EffectNames \ {"checkpoint"}
      PROVE  before \o <<Do(effect)>> \in Quiet /\ <<Do(effect)>> \in Quiet
  <2>1. Do(effect) \in Effects /\ Do(effect).do = effect
    BY DEF Do, Effects, Phases
  <2>2. before \in Seq(Effects) /\ <<Do(effect)>> \in Seq(Effects)
    BY <2>1 DEF Quiet
  <2>3. Len(before) \in Nat /\ DOMAIN before = 1..Len(before)
    BY <2>2, LenProperties
  <2>4. before \o <<Do(effect)>> \in Seq(Effects)
    BY <2>2, ConcatProperties
  <2>5. \A i \in DOMAIN (before \o <<Do(effect)>>) :
          (before \o <<Do(effect)>>)[i].do # "checkpoint"
    BY <2>1, <2>2, <2>3, <2>4, ConcatProperties, LenProperties DEF Quiet
  <2>6. \A i \in DOMAIN <<Do(effect)>> : <<Do(effect)>>[i].do # "checkpoint"
    BY <2>1
  <2> QED
    BY <2>2, <2>4, <2>5, <2>6 DEF Quiet
<1> QED
  BY <1>1, <1>2

LEMMA QuietRequests ==
    ASSUME fx' \in Quiet
    PROVE  ~Requested("checkpoint")
  BY DEF Quiet, Requested

(* Either executing was entered, or no checkpoint was requested.            *)
LEMMA ApproveTaskQuiet ==
    ASSUME NEW items, NEW before \in Quiet, ApproveTaskWith(items, before)
    PROVE  \/ \E b \in Seq(Effects) : EnterExecuting(b) /\ HasMoreTasks
              /\ taskIndex' = taskIndex + 1 /\ tasks' = tasks
           \/ fx' \in Quiet /\ state' = "integrating"
  BY EffectSeqs, QuietFacts DEF ApproveTaskWith, Enter, EffectNames, Quiet

LEMMA ReviewQuiet ==
    ASSUME NEW items, NEW before \in Quiet, EnterAwaitingReview(items, before)
    PROVE  \/ \E b \in Seq(Effects) : EnterExecuting(b) /\ HasMoreTasks
              /\ taskIndex' = taskIndex + 1 /\ tasks' = tasks
           \/ /\ fx' \in Quiet
              /\ \/ state' = "integrating"
                 \/ state' = "awaitingReview" /\ UNCHANGED <<tasks, taskIndex>>
<1>1. CASE ApproveTaskWith(items, before \o <<Do("noteAutoApprovedTask")>>)
  BY <1>1, QuietFacts, ApproveTaskQuiet DEF EffectNames
<1>2. CASE Enter("awaitingReview", before) /\ UNCHANGED plan
  BY <1>2 DEF Enter, plan
<1> QED
  BY <1>1, <1>2 DEF EnterAwaitingReview

-----------------------------------------------------------------------------
(* Work always has a task to work on - as long as a revision without one is *)
(* refused, which the server does (NoTaskRefused, below).                   *)

Tasked ==
    /\ resumeState \in {"executing", "verifying", "awaitingReview"} => HasTask
    /\ resumeState = "awaitingPlanApproval" => tasks \in Plans
    /\ resumeState = "planning" /\ "plan" \in turnEvents => tasks \in Plans

(* What a macrostep may have requested: the entry of executing, with a task *)
(* to execute, or no checkpoint.                                            *)
ExecutesTask == HasTask' /\ \E b \in Seq(Effects) : EnterExecuting(b)

LEMMA PlanHasTask ==
    ASSUME NEW p \in Plans
    PROVE  0 < Len(p)
  BY PlanFacts, WorkflowAssumption

LEMMA NextTaskIsTask ==
    ASSUME TypeOK, HasMoreTasks, taskIndex' = taskIndex + 1, tasks' = tasks
    PROVE  HasTask'
<1>1. Len(tasks) \in Nat /\ taskIndex \in Nat
  BY PlanFacts, WorkflowAssumption DEF TypeOK
<1> QED
  BY <1>1 DEF HasMoreTasks, HasTask

LEMMA TaskStep ==
    ASSUME TypeOK, Stamped, Tasked, Next, ReviseFinished => HasTask
    PROVE  Tasked' /\ (ExecutesTask \/ fx' \in Quiet)
<1> DEFINE Goal == Tasked' /\ (ExecutesTask \/ fx' \in Quiet)
<1> SUFFICES Goal
  OBVIOUS
<1>0. <<>> \in Seq(Effects) /\ <<>> \in Quiet
  BY EmptySeq, QuietFacts
<1>n. Do("noteToleratedFailures").do # "checkpoint"
      /\ <<Do("noteToleratedFailures")>> \in Quiet
  BY QuietFacts DEF Do, EffectNames
<1>e. ASSUME NEW b \in Seq(Effects), EnterExecuting(b), HasTask'
      PROVE  Goal
  BY <1>e DEF Tasked, ExecutesTask, EnterExecuting, OpenTurn, Enter
<1>m. ASSUME NEW b \in Seq(Effects), EnterExecuting(b), HasMoreTasks,
             taskIndex' = taskIndex + 1, tasks' = tasks
      PROVE  Goal
  BY <1>m, <1>e, NextTaskIsTask
<1>p. ASSUME NEW newTasks \in Plans, NEW b \in Seq(Effects), ApprovePlanWith(newTasks, b)
      PROVE  Goal
  <2>1. HasTask'
    BY <1>p, PlanHasTask DEF ApprovePlanWith, HasTask
  <2>2. EnterExecuting(b \o <<Do("recordPlan")>>)
    BY <1>p DEF ApprovePlanWith
  <2>3. b \o <<Do("recordPlan")>> \in Seq(Effects)
    BY EffectSeqs DEF EffectNames
  <2> QED
    BY <2>1, <2>2, <2>3, <1>e
<1>1. CASE ApprovePlan
  <2>1. PICK edited \in Plans \cup {tasks} : ApprovePlanWith(edited, <<>>)
    BY <1>1 DEF ApprovePlan
  <2>2. tasks \in Plans
    BY <1>1 DEF ApprovePlan, Stamped, Tasked, PlanStates
  <2> QED
    BY <2>1, <2>2, <1>0, <1>p
<1>2. CASE PlanFinished
  <2>1. CASE ApprovePlanWith(tasks, <<Do("noteAutoApprovedPlan")>>) /\ "plan" \in turnEvents
    <3>1. tasks \in Plans
      BY <1>2, <2>1 DEF PlanFinished, Stamped, Tasked, PlanStates
    <3> QED
      BY <2>1, <3>1, <1>0, <1>p, EffectSeqs DEF EffectNames
  <2>2. CASE Enter("awaitingPlanApproval", <<>>) /\ UNCHANGED <<plan, turnEvents>>
             /\ "plan" \in turnEvents
    BY <1>0, <1>2, <2>2 DEF PlanFinished, Stamped, Tasked, PlanStates, Enter, plan
  <2>3. CASE EnterSilently("paused", <<>>) /\ UNCHANGED <<plan, turnEvents>>
    BY <1>0, <2>3 DEF Tasked, EnterSilently, plan, HasTask
  <2> QED
    BY <1>2, <2>1, <2>2, <2>3 DEF PlanFinished
<1>3. CASE ApproveTask
  <2>1. ApproveTaskWith(evidence, <<>>)
    BY <1>3 DEF ApproveTask
  <2>2. CASE fx' \in Quiet /\ state' = "integrating"
    BY <2>1, <2>2 DEF Tasked, ApproveTaskWith, Enter, EnterExecuting, OpenTurn
  <2> QED
    BY <2>1, <2>2, <1>0, <1>m, ApproveTaskQuiet
<1>r. ASSUME NEW items, NEW b \in Quiet, EnterAwaitingReview(items, b), HasTask
      PROVE  Goal
  <2>1. CASE fx' \in Quiet /\ state' = "integrating"
    BY <1>r, <2>1 DEF Tasked, EnterAwaitingReview, ApproveTaskWith, Enter,
       EnterExecuting, OpenTurn
  <2>2. CASE fx' \in Quiet /\ state' = "awaitingReview" /\ UNCHANGED <<tasks, taskIndex>>
    BY <1>r, <2>2 DEF Tasked, EnterAwaitingReview, ApproveTaskWith, Enter,
       EnterExecuting, OpenTurn, HasTask
  <2> QED
    BY <1>r, <2>1, <2>2, <1>m, ReviewQuiet
<1>4. CASE Rollback
  <2>1. HasTask
    BY <1>4 DEF Rollback, Stamped, Tasked, WorkStates
  <2>2. HasTask' /\ EnterExecuting(<<Do("rollbackToCheckpoint")>>)
    BY <1>4, <2>1 DEF Rollback, RollBack, HasTask, plan
  <2> QED
    BY <2>2, <1>0, <1>e, EffectSeqs DEF EffectNames
<1>5. CASE \E items \in Items : EvidenceResult(items)
  <2>1. PICK items \in Items : EvidenceResult(items)
    BY <1>5
  <2>2. CASE state = "verifying"
             /\ EnterAwaitingReview(items, <<Do("noteToleratedFailures")>>)
    BY <2>2, <1>n, <1>r DEF Stamped, Tasked, WorkStates
  <2>3. CASE fx' = <<>> /\ UNCHANGED <<resumeState, plan, turnEvents>>
    BY <2>3, <1>0 DEF Tasked, plan, HasTask
  <2> QED
    BY <2>1, <2>2, <2>3 DEF EvidenceResult, EnterSilently
<1>t. TaskPrompt.do # "checkpoint" /\ <<TaskPrompt>> \in Quiet
  BY DEF TaskPrompt, SendPrompt, Quiet, Effects, EffectNames, Phases
<1>s. \A phase \in Phases : <<SendPrompt(phase)>> \in Quiet
  BY DEF SendPrompt, Quiet, Effects, EffectNames
<1>d. \A effect \in EffectNames \ {"checkpoint"} : <<Do(effect)>> \in Quiet
  BY QuietFacts
<1> USE DEF Enter, EnterSilently, OpenTurn, plan, EffectNames, Phases
<1>6. CASE Resume
  <2>1. CASE resumeState = "executing" /\ EnterExecuting(<<>>) /\ UNCHANGED plan
    BY <2>1, <1>0, <1>e DEF Tasked, HasTask
  <2>2. CASE resumeState = "awaitingReview" /\ EnterAwaitingReview(evidence, <<>>)
    BY <2>2, <1>0, <1>r DEF Tasked
  <2>3. CASE resumeState \notin {"executing", "awaitingReview"}
    BY <1>6, <2>3, <1>0, <1>s, <1>d, <1>t DEF Resume, EnterExploring, EnterProposing,
       EnterPlanning, EnterVerifying, EnterRevising, Tasked, HasTask, Resumable
  <2> QED
    BY <1>6, <2>1, <2>2, <2>3 DEF Resume, Resumable, WorkStates
<1>7. CASE Start \/ AnswerClarification \/ Decide \/ Revise
  BY <1>7, <1>s, <1>t DEF Start, AnswerClarification, Decide, Revise, EnterExploring,
     EnterProposing, EnterPlanning, EnterRevising, Tasked
<1>8. CASE Pause \/ Cancel \/ SetLowEnergy
  BY <1>8, <1>0 DEF Pause, Cancel, SetLowEnergy, Tasked, HasTask
<1>9. CASE Integrate
  BY <1>9, <1>0, <1>d DEF Integrate, Tasked, HasTask
<1>10. CASE ExploreFinished \/ ProposeFinished
  BY <1>10, <1>0, <1>s DEF ExploreFinished, ProposeFinished, EnterPlanning,
     EnterProposing, Tasked, HasTask
<1>11. CASE ExecuteFinished \/ ReviseFinished \/ VerifyFinished
  BY <1>11, <1>0, <1>d DEF ExecuteFinished, ReviseFinished, VerifyFinished,
     EnterVerifying, Tasked, HasTask, Stamped, WorkStates
<1>12. CASE TurnFailed \/ VerificationFailed
  BY <1>12, <1>0 DEF TurnFailed, VerificationFailed, Tasked, HasTask
<1>13. CASE PlanEvent
  BY <1>13, <1>d DEF PlanEvent, Tasked, Stamped, PlanStates
<1>14. CASE \E e \in AgentEvents : AgentEvent(e)
  BY <1>14, <1>0, <1>d DEF AgentEvent, EffectsOf, Accepts, Tasked, HasTask, Active
<1>15. CASE \E run \in Runs, risk \in {"low", "high"} : VerificationDone(run, risk)
  BY <1>15, <1>s, <1>d DEF VerificationDone, Judged, Tasked, HasTask
<1> QED
  BY <1>1, <1>2, <1>3, <1>4, <1>5, <1>6, <1>7, <1>8, <1>9, <1>10, <1>11, <1>12,
     <1>13, <1>14, <1>15 DEF Next, UserCommand, TurnFinished

-----------------------------------------------------------------------------
(* A state that says something is at work is entered by setting it to work. *)

LEMMA OneEffect ==
    /\ \A phase : fx' = <<SendPrompt(phase)>> => PromptRequested
    /\ fx' = <<TaskPrompt>> => PromptRequested
    /\ \A effect : fx' = <<Do(effect)>> => Requested(effect)
  BY DEF SendPrompt, TaskPrompt, Do, PromptRequested, Requested

SetToWork == PromptRequested \/ (state' = "verifying" /\ Requested("runVerification"))

LEMMA ReviewIsNotBusy ==
    ASSUME NEW items, NEW before, EnterAwaitingReview(items, before),
           state' \in Busy
    PROVE  state' = "executing"
  BY DEF EnterAwaitingReview, ApproveTaskWith, EnterExecuting, OpenTurn, Enter, Busy

LEMMA BusyEntry ==
    ASSUME Next, state' \in Busy, state' # state
    PROVE  SetToWork
<1>1. CASE state' = "executing"
  BY <1>1, ExecutingEntered, EnterExecutingRequests DEF SetToWork
<1> SUFFICES ASSUME state' # "executing" PROVE SetToWork
  BY <1>1
<1> USE OneEffect DEF SetToWork, Enter, EnterSilently, OpenTurn, Busy
<1>2. CASE Start \/ AnswerClarification \/ Decide \/ Revise
  BY <1>2 DEF Start, AnswerClarification, Decide, Revise, EnterExploring,
     EnterPlanning, EnterProposing, EnterRevising
<1>3. CASE ApprovePlan \/ Rollback \/ PlanFinished
  BY <1>3 DEF ApprovePlan, Rollback, PlanFinished, ApprovePlanWith, RollBack,
     EnterExecuting
<1>4. CASE ApproveTask
  BY <1>4 DEF ApproveTask, ApproveTaskWith, EnterExecuting
<1>5. CASE Resume
  <2>1. CASE EnterAwaitingReview(evidence, <<>>)
    BY <2>1, ReviewIsNotBusy
  <2>2. CASE ~EnterAwaitingReview(evidence, <<>>)
    BY <1>5, <2>2 DEF Resume, EnterExploring, EnterPlanning, EnterProposing,
       EnterExecuting, EnterVerifying, EnterRevising
  <2> QED
    BY <2>1, <2>2
<1>6. CASE Pause \/ Cancel \/ SetLowEnergy \/ Integrate
  BY <1>6 DEF Pause, Cancel, SetLowEnergy, Integrate
<1>7. CASE ExploreFinished \/ ProposeFinished
  BY <1>7 DEF ExploreFinished, ProposeFinished, EnterPlanning, EnterProposing
<1>8. CASE ExecuteFinished \/ ReviseFinished \/ VerifyFinished
  BY <1>8 DEF ExecuteFinished, ReviseFinished, VerifyFinished, EnterVerifying
<1>9. CASE TurnFailed \/ VerificationFailed \/ PlanEvent
  BY <1>9 DEF TurnFailed, VerificationFailed, PlanEvent
<1>10. CASE \/ \E e \in AgentEvents : AgentEvent(e)
            \/ \E run \in Runs, risk \in {"low", "high"} : VerificationDone(run, risk)
  BY <1>10 DEF AgentEvent, VerificationDone
<1>11. CASE \E items \in Items : EvidenceResult(items)
  BY <1>11, ReviewIsNotBusy DEF EvidenceResult
<1> QED
  BY <1>2, <1>3, <1>4, <1>5, <1>6, <1>7, <1>8, <1>9, <1>10, <1>11
     DEF Next, UserCommand, TurnFinished

(* What ends a wait starts the next one, or asks for the verdict.           *)
LEMMA FinishedMoves ==
    ASSUME TurnFinished
    PROVE  state' # state \/ (state' = "verifying" /\ Requested("reconcileEvidence"))
<1> USE OneEffect DEF Enter, EnterSilently, OpenTurn
<1>1. CASE ExploreFinished \/ ProposeFinished \/ PlanFinished
  BY <1>1 DEF ExploreFinished, ProposeFinished, PlanFinished, EnterPlanning,
     EnterProposing, ApprovePlanWith, EnterExecuting
<1>2. CASE ExecuteFinished \/ ReviseFinished \/ VerifyFinished
  BY <1>2 DEF ExecuteFinished, ReviseFinished, VerifyFinished, EnterVerifying
<1> QED
  BY <1>1, <1>2 DEF TurnFinished

LEMMA VerdictMoves ==
    ASSUME NEW items, EvidenceResult(items), state = "verifying"
    PROVE  state' # "verifying"
  BY DEF EvidenceResult, EnterAwaitingReview, ApproveTaskWith, EnterExecuting,
     OpenTurn, Enter, EnterSilently

LEMMA VerificationAsks ==
    ASSUME NEW run, NEW risk, VerificationDone(run, risk)
    PROVE  state' = "verifying" /\ (PromptRequested \/ Requested("reconcileEvidence"))
  BY OneEffect DEF VerificationDone, Judged

-----------------------------------------------------------------------------
(* The git queue and the jobs that wait in it.                              *)

GitOps == [op : {"checkpoint", "rollback"}, task : 0..(MaxTasks - 1),
           job : Jobs \cup {NoJob}]

(* Every queued checkpoint is the one its job waits for, no two are the     *)
(* same job's, and every job that waits has one.                            *)
Waiting(q, jobs) ==
    /\ \A i \in DOMAIN q : q[i].op = "checkpoint" =>
         q[i].job \in Jobs /\ jobs[q[i].job] = "checkpoint"
    /\ \A i, k \in DOMAIN q :
         q[i].op = "checkpoint" /\ q[k].op = "checkpoint" /\ q[i].job = q[k].job => i = k
    /\ \A j \in Jobs : jobs[j] = "checkpoint" =>
         \E i \in DOMAIN q : q[i].op = "checkpoint" /\ q[i].job = j

LEMMA AppendRollback ==
    ASSUME NEW q \in Seq(GitOps), NEW jobs, Waiting(q, jobs),
           NEW r \in GitOps, r.op = "rollback"
    PROVE  Waiting(q \o <<r>>, jobs)
<1>1. /\ Len(q) \in Nat /\ DOMAIN q = 1..Len(q)
      /\ DOMAIN (q \o <<r>>) = 1..(Len(q) + 1)
      /\ \A i \in 1..Len(q) : (q \o <<r>>)[i] = q[i]
      /\ (q \o <<r>>)[Len(q) + 1] = r
  BY ConcatProperties, LenProperties
<1> QED
  BY <1>1 DEF Waiting

LEMMA AppendCheckpoint ==
    ASSUME NEW q \in Seq(GitOps), NEW jobs \in [Jobs -> Stages], Waiting(q, jobs),
           NEW j \in Jobs, jobs[j] # "checkpoint",
           NEW c \in GitOps, c.op = "checkpoint", c.job = j
    PROVE  Waiting(q \o <<c>>, [jobs EXCEPT ![j] = "checkpoint"])
<1>1. /\ Len(q) \in Nat /\ DOMAIN q = 1..Len(q)
      /\ DOMAIN (q \o <<c>>) = 1..(Len(q) + 1)
      /\ \A i \in 1..Len(q) : (q \o <<c>>)[i] = q[i]
      /\ (q \o <<c>>)[Len(q) + 1] = c
  BY ConcatProperties, LenProperties
<1> DEFINE after == [jobs EXCEPT ![j] = "checkpoint"]
<1>2. \A k \in Jobs : after[k] = IF k = j THEN "checkpoint" ELSE jobs[k]
  OBVIOUS
<1>3. \A i \in 1..Len(q) : q[i].op = "checkpoint" => q[i].job # j
  BY <1>1 DEF Waiting
<1> HIDE DEF after
<1>4. \A k \in Jobs : after[k] = "checkpoint" =>
        \E i \in DOMAIN (q \o <<c>>) :
          (q \o <<c>>)[i].op = "checkpoint" /\ (q \o <<c>>)[i].job = k
  <2> TAKE k \in Jobs
  <2>1. CASE k = j
    BY <1>1, <2>1
  <2>2. CASE k # j /\ after[k] = "checkpoint"
    <3>1. PICK i \in DOMAIN q : q[i].op = "checkpoint" /\ q[i].job = k
      BY <1>2, <2>2 DEF Waiting
    <3> QED
      BY <1>1, <3>1
  <2> QED
    BY <2>1, <2>2
<1>5. \A i \in DOMAIN (q \o <<c>>) : (q \o <<c>>)[i].op = "checkpoint" =>
        (q \o <<c>>)[i].job \in Jobs /\ after[(q \o <<c>>)[i].job] = "checkpoint"
  BY <1>1, <1>2 DEF Waiting
<1>6. \A i, k \in DOMAIN (q \o <<c>>) :
        /\ (q \o <<c>>)[i].op = "checkpoint"
        /\ (q \o <<c>>)[k].op = "checkpoint"
        /\ (q \o <<c>>)[i].job = (q \o <<c>>)[k].job
        => i = k
  BY <1>1, <1>3 DEF Waiting
<1>7. Waiting(q \o <<c>>, after)
  BY <1>4, <1>5, <1>6 DEF Waiting
<1> QED
  BY <1>7 DEF after

LEMMA OtherJobMoves ==
    ASSUME NEW q, NEW jobs \in [Jobs -> Stages], Waiting(q, jobs),
           NEW j \in Jobs, jobs[j] # "checkpoint", NEW stage, stage # "checkpoint"
    PROVE  Waiting(q, [jobs EXCEPT ![j] = stage])
  BY DEF Waiting

LEMMA CheckpointOver ==
    ASSUME NEW q \in Seq(GitOps), q # <<>>, NEW jobs \in [Jobs -> Stages],
           Waiting(q, jobs), Head(q).op = "checkpoint",
           NEW stage, stage # "checkpoint"
    PROVE  Waiting(Tail(q), [jobs EXCEPT ![Head(q).job] = stage])
<1>1. /\ Len(q) \in Nat \ {0} /\ DOMAIN q = 1..Len(q) /\ Head(q) = q[1]
      /\ DOMAIN Tail(q) = 1..(Len(q) - 1)
      /\ \A i \in 1..(Len(q) - 1) : Tail(q)[i] = q[i + 1]
  BY HeadTailProperties, LenProperties, EmptySeq
<1>2. Head(q).job \in Jobs
  BY <1>1 DEF Waiting
<1>3. \A i \in 1..(Len(q) - 1) : Tail(q)[i].op = "checkpoint" =>
        Tail(q)[i].job # Head(q).job
  BY <1>1 DEF Waiting
<1>4. \A k \in Jobs \ {Head(q).job} : jobs[k] = "checkpoint" =>
        \E i \in DOMAIN Tail(q) : Tail(q)[i].op = "checkpoint" /\ Tail(q)[i].job = k
  <2> TAKE k \in Jobs \ {Head(q).job}
  <2> HAVE jobs[k] = "checkpoint"
  <2>1. PICK i \in DOMAIN q : q[i].op = "checkpoint" /\ q[i].job = k
    BY DEF Waiting
  <2>2. i \in 1..Len(q) /\ i # 1
    BY <1>1, <2>1
  <2>3. i - 1 \in 1..(Len(q) - 1) /\ (i - 1) + 1 = i
    BY <1>1, <2>2
  <2>4. i - 1 \in DOMAIN Tail(q) /\ Tail(q)[i - 1] = q[i]
    BY <1>1, <2>3
  <2> QED
    BY <2>1, <2>4
<1>5. \A i, k \in DOMAIN Tail(q) :
        /\ Tail(q)[i].op = "checkpoint" /\ Tail(q)[k].op = "checkpoint"
        /\ Tail(q)[i].job = Tail(q)[k].job
        => i = k
  BY <1>1 DEF Waiting
<1>6. \A i \in DOMAIN Tail(q) : Tail(q)[i].op = "checkpoint" =>
        Tail(q)[i].job \in Jobs \ {Head(q).job} /\ jobs[Tail(q)[i].job] = "checkpoint"
  BY <1>1, <1>3 DEF Waiting
<1> QED
  BY <1>2, <1>4, <1>5, <1>6 DEF Waiting

LEMMA RollbackOver ==
    ASSUME NEW q \in Seq(GitOps), q # <<>>, NEW jobs, Waiting(q, jobs),
           Head(q).op = "rollback"
    PROVE  Waiting(Tail(q), jobs)
<1>1. /\ Len(q) \in Nat \ {0} /\ DOMAIN q = 1..Len(q) /\ Head(q) = q[1]
      /\ DOMAIN Tail(q) = 1..(Len(q) - 1)
      /\ \A i \in 1..(Len(q) - 1) : Tail(q)[i] = q[i + 1]
  BY HeadTailProperties, LenProperties, EmptySeq
<1>2. \A i \in DOMAIN q : q[i].op = "checkpoint" =>
        i - 1 \in DOMAIN Tail(q) /\ Tail(q)[i - 1] = q[i]
  <2> TAKE i \in DOMAIN q
  <2> HAVE q[i].op = "checkpoint"
  <2>1. i \in 1..Len(q) /\ i # 1
    BY <1>1
  <2>2. i - 1 \in 1..(Len(q) - 1) /\ (i - 1) + 1 = i
    BY <1>1, <2>1
  <2> QED
    BY <1>1, <2>2
<1>3. \A j \in Jobs : jobs[j] = "checkpoint" =>
        \E i \in DOMAIN Tail(q) : Tail(q)[i].op = "checkpoint" /\ Tail(q)[i].job = j
  BY <1>2 DEF Waiting
<1> QED
  BY <1>1, <1>3 DEF Waiting

-----------------------------------------------------------------------------
(* The inductive invariant of the machine at work.                         *)

(* A turn's race exists from runTurn to the end of its settleTurn, or to    *)
(* the end of its timeout where that comes later.                           *)
TimersFollow ==
    \A j \in Jobs :
      /\ job[j] \in {"gone", "checkpoint", "ready", "ensure"} => timer[j] = "off"
      /\ InTurn(j) => timer[j] \in {"armed", "ending", "fired"}
      /\ job[j] = "settled" => timer[j] = "ending"

(* An event of one of these types is on its way to the machine.             *)
Pending(q, types) == \E i \in DOMAIN q : q[i].type \in types

Reports == {"TURN_FINISHED", "TURN_FAILED"}

(* Who a busy state waits for.  A verdict only ends verifying.              *)
Awaited ==
    state \in Busy =>
      \/ Pending(mailbox, Reports)
      \/ \E j \in Jobs : Owes(j)
      \/ state = "verifying" /\ (collecting \/ Pending(mailbox, {"EVIDENCE_RESULT"}))

(* A revision without a task is refused before anything else happens.       *)
NoTaskRefused ==
    state = "revising" /\ ~HasTask =>
      mailbox # <<>> /\ Head(mailbox).type = "TURN_FAILED"

TInv ==
    /\ TurnsTypeOK
    /\ IInv
    /\ Tasked
    /\ NoTaskRefused
    /\ Waiting(gitQueue, job)
    /\ TimersFollow
    /\ OpenTurnHasOwner
    /\ Awaited

LEMMA PendingConcat ==
    ASSUME NEW a \in Seq(MailEvents), NEW b \in Seq(MailEvents), NEW types,
           Pending(a, types) \/ Pending(b, types)
    PROVE  Pending(a \o b, types)
<1>1. /\ Len(a) \in Nat /\ DOMAIN a = 1..Len(a)
      /\ Len(b) \in Nat /\ DOMAIN b = 1..Len(b)
      /\ DOMAIN (a \o b) = 1..(Len(a) + Len(b))
      /\ \A i \in 1..Len(a) : (a \o b)[i] = a[i]
  BY ConcatProperties, LenProperties
<1>2. \A i \in 1..Len(b) : Len(a) + i \in DOMAIN (a \o b) /\ (a \o b)[Len(a) + i] = b[i]
  BY <1>1, ConcatProperties
<1>3. CASE Pending(a, types)
  <2>1. PICK i \in 1..Len(a) : a[i].type \in types
    BY <1>1, <1>3 DEF Pending
  <2>2. i \in DOMAIN (a \o b)
    BY <1>1
  <2> QED
    BY <1>1, <2>1, <2>2 DEF Pending
<1>4. CASE Pending(b, types)
  <2>1. PICK i \in 1..Len(b) : b[i].type \in types
    BY <1>1, <1>4 DEF Pending
  <2> QED
    BY <1>2, <2>1 DEF Pending
<1> QED
  BY <1>3, <1>4

LEMMA PendingAppend ==
    ASSUME NEW q \in Seq(MailEvents), NEW e \in MailEvents, NEW types,
           Pending(q, types) \/ e.type \in types
    PROVE  Pending(Append(q, e), types)
<1>1. /\ Len(q) \in Nat /\ DOMAIN q = 1..Len(q)
      /\ DOMAIN Append(q, e) = 1..(Len(q) + 1)
      /\ \A i \in 1..Len(q) : Append(q, e)[i] = q[i]
      /\ Append(q, e)[Len(q) + 1] = e
  BY LenProperties
<1>2. CASE Pending(q, types)
  <2>1. PICK i \in 1..Len(q) : q[i].type \in types
    BY <1>1, <1>2 DEF Pending
  <2>2. i \in DOMAIN Append(q, e)
    BY <1>1
  <2> QED
    BY <1>1, <2>1, <2>2 DEF Pending
<1>3. CASE e.type \in types
  <2>1. Len(q) + 1 \in DOMAIN Append(q, e)
    BY <1>1
  <2> QED
    BY <1>1, <1>3, <2>1 DEF Pending
<1> QED
  BY <1>2, <1>3

LEMMA PendingTail ==
    ASSUME NEW q \in Seq(MailEvents), q # <<>>, NEW types,
           Pending(q, types), Head(q).type \notin types
    PROVE  Pending(Tail(q), types)
<1>1. PICK i \in DOMAIN q : q[i].type \in types
  BY DEF Pending
<1>2. /\ Len(q) \in Nat \ {0} /\ DOMAIN q = 1..Len(q) /\ Head(q) = q[1]
      /\ DOMAIN Tail(q) = 1..(Len(q) - 1)
      /\ \A k \in 1..(Len(q) - 1) : Tail(q)[k] = q[k + 1]
  BY HeadTailProperties, LenProperties, EmptySeq
<1>3. i \in 1..Len(q) /\ i # 1
  BY <1>1, <1>2
<1>4. i - 1 \in 1..(Len(q) - 1) /\ (i - 1) + 1 = i
  BY <1>2, <1>3
<1> QED
  BY <1>1, <1>2, <1>4 DEF Pending

(* The next job is one that is free: sets of ids have a least member.       *)
LEMMA NextJobIsFree ==
    ASSUME Free # {}
    PROVE  NextJob \in Free
<1>1. Free \subseteq Nat
  BY TurnsAssumption DEF Free
<1>2. PICK x \in Free : \A y \in Free : ~(<<y, x>> \in OpToRel(<, Nat))
  BY <1>1, NatLessThanWellFounded, WFMin, Zenon
<1>3. \A y \in Free : <<y, x>> \in OpToRel(<, Nat) <=> y < x
  BY <1>1 DEF OpToRel
<1>4. \A y \in Free : ~(y < x)
  BY <1>2, <1>3, Zenon
<1>5. \A y \in Free : x <= y
  BY <1>1, <1>4
<1> QED
  BY <1>5 DEF NextJob

LEMMA TInit == TurnsInit => TInv
<1> SUFFICES ASSUME TurnsInit PROVE TInv
  OBVIOUS
<1> USE DEF TurnsInit, ServerInit
<1>1. IInv /\ TypeOK
  BY IInvInit DEF IInv
<1>2. TurnsTypeOK
  <2>1. 0 \in 0..MaxCancels
    BY TurnsAssumption
  <2> QED
    BY <1>1, <2>1, NoItemsInItems, EmptySeq DEF TurnsTypeOK, Stages, Timers
<1>3. Tasked /\ NoTaskRefused /\ Awaited
  BY DEF Init, Tasked, NoTaskRefused, Awaited, Busy
<1>4. Waiting(gitQueue, job)
  BY DEF Waiting
<1>5. TimersFollow
  BY DEF TimersFollow, InTurn, AtAgent, InFallback
<1>6. OpenTurnHasOwner
  BY DEF OpenTurnHasOwner
<1> QED
  BY <1>1, <1>2, <1>3, <1>4, <1>5, <1>6 DEF TInv

-----------------------------------------------------------------------------
(* What a macrostep sets off.                                              *)

RollbackOp == [op |-> "rollback", task |-> taskIndex', job |-> NoJob]
CheckpointOp == [op |-> "checkpoint", task |-> taskIndex', job |-> NextJob]

(* With a checkpoint requested, the job that was started waits for it.      *)
LEMMA ExecutesTaskFacts ==
    ASSUME ExecutesTask
    PROVE  /\ Requested("checkpoint") /\ PromptRequested
           /\ state' = "executing" /\ HasTask'
  BY EnterExecutingRequests DEF ExecutesTask, EnterExecuting, OpenTurn, Enter

LEMMA StartedJob ==
    ASSUME TInv, NEW waiting, Perform(waiting), ExecutesTask \/ fx' \in Quiet
    PROVE  \/ /\ Requested("checkpoint") /\ NextJob \in Free /\ asked' = NextJob
              /\ job' = [job EXCEPT ![NextJob] = "checkpoint"]
           \/ /\ ~Requested("checkpoint") /\ NextJob \in Free /\ asked' = NextJob
              /\ job' = [job EXCEPT ![NextJob] = "ready"]
           \/ /\ ~Requested("checkpoint") /\ job' = job /\ asked' \in {asked, NoJob}
              /\ ~(PromptRequested /\ (TaskWork => HasTask'))
<1>1. CASE ExecutesTask
  BY <1>1, ExecutesTaskFacts, NextJobIsFree DEF Perform, StartJob
<1>2. CASE fx' \in Quiet
  BY <1>2, QuietRequests, NextJobIsFree DEF Perform, StartJob
<1> QED
  BY <1>1, <1>2

LEMMA PerformQueue ==
    ASSUME TInv, TypeOK', NEW waiting, Perform(waiting), ExecutesTask \/ fx' \in Quiet
    PROVE  gitQueue' \in Seq(GitOps) /\ Waiting(gitQueue', job')
<1> DEFINE R == IF Requested("rollbackToCheckpoint") THEN <<RollbackOp>> ELSE <<>>
           C == IF Requested("checkpoint") THEN <<CheckpointOp>> ELSE <<>>
           Q == gitQueue \o R
<1>0. gitQueue \in Seq(GitOps) /\ job \in [Jobs -> Stages] /\ Waiting(gitQueue, job)
      /\ taskIndex' \in 0..(MaxTasks - 1)
  BY DEF TInv, TurnsTypeOK, TypeOK, GitOps
<1>1. RollbackOp \in GitOps /\ RollbackOp.op = "rollback"
  BY <1>0 DEF RollbackOp, GitOps
<1>2. ASSUME NextJob \in Free
      PROVE  /\ CheckpointOp \in GitOps /\ CheckpointOp.op = "checkpoint"
             /\ CheckpointOp.job = NextJob /\ NextJob \in Jobs /\ job[NextJob] = "gone"
  BY <1>0, <1>2 DEF CheckpointOp, GitOps, Free
<1>3. R \in Seq(GitOps)
  BY <1>1
<1>4. Q \in Seq(GitOps) /\ Waiting(Q, job)
  BY <1>0, <1>1, <1>3, ConcatProperties, ConcatEmptySeq, AppendRollback
<1> HIDE DEF Q
<1>5. gitQueue' = gitQueue \o (R \o C)
  BY DEF Perform, GitRequests, RollbackOp, CheckpointOp
<1>6. CASE /\ Requested("checkpoint") /\ NextJob \in Free
           /\ job' = [job EXCEPT ![NextJob] = "checkpoint"]
  <2>1. C \in Seq(GitOps) /\ C = <<CheckpointOp>>
    BY <1>2, <1>6
  <2>2. gitQueue' = Q \o <<CheckpointOp>>
    BY <1>0, <1>3, <1>5, <2>1, ConcatAssociative DEF Q
  <2>3. Waiting(Q \o <<CheckpointOp>>, job')
    BY <1>0, <1>2, <1>4, <1>6, AppendCheckpoint
  <2>4. Q \o <<CheckpointOp>> \in Seq(GitOps)
    BY <1>4, <2>1, ConcatProperties
  <2> QED
    BY <2>2, <2>3, <2>4
<1>7. CASE ~Requested("checkpoint")
  <2>1. C = <<>>
    BY <1>7
  <2>2. gitQueue' = Q
    BY <1>3, <1>5, <2>1, ConcatEmptySeq DEF Q
  <2>3. Waiting(Q, job')
    <3>1. CASE NextJob \in Free /\ job' = [job EXCEPT ![NextJob] = "ready"]
      BY <1>0, <1>2, <1>4, <3>1, OtherJobMoves
    <3>2. CASE job' = job
      BY <1>4, <3>2
    <3> QED
      BY <1>7, <3>1, <3>2, StartedJob
  <2> QED
    BY <1>4, <2>2, <2>3
<1> QED
  BY <1>6, <1>7, StartedJob

LEMMA PerformJobs ==
    ASSUME TInv, NEW waiting, Perform(waiting), ExecutesTask \/ fx' \in Quiet
    PROVE  /\ job' \in [Jobs -> Stages]
           /\ asked' \in Jobs \cup {NoJob}
           /\ TimersFollow'
           /\ OpenTurnHasOwner'
           /\ \A j \in Jobs : Owes(j) => Owes(j)'
           /\ PromptRequested /\ (TaskWork => HasTask') => \E j \in Jobs : Owes(j)'
<1>0. job \in [Jobs -> Stages] /\ asked \in Jobs \cup {NoJob} /\ open \in Jobs \cup {NoJob}
      /\ timer \in [Jobs -> Timers] /\ TimersFollow /\ OpenTurnHasOwner
  BY DEF TInv, TurnsTypeOK
<1>1. timer' = timer /\ open' = open
  BY DEF Perform
<1> USE DEF TimersFollow, OpenTurnHasOwner, InTurn, AtAgent, InFallback, Owes
<1>2. ASSUME NEW stage \in {"checkpoint", "ready"}, NextJob \in Free, asked' = NextJob,
             job' = [job EXCEPT ![NextJob] = stage]
      PROVE  /\ job' \in [Jobs -> Stages] /\ asked' \in Jobs
             /\ TimersFollow' /\ OpenTurnHasOwner'
             /\ \A j \in Jobs : Owes(j) => Owes(j)'
             /\ \E j \in Jobs : Owes(j)'
  <2>1. NextJob \in Jobs /\ job[NextJob] = "gone"
    BY <1>2 DEF Free
  <2>2. \A j \in Jobs : job'[j] = IF j = NextJob THEN stage ELSE job[j]
    BY <1>0, <1>2
  <2>3. job' \in [Jobs -> Stages]
    BY <1>0, <1>2, <2>1 DEF Stages
  <2>4. timer[NextJob] = "off"
    BY <1>0, <2>1
  <2>5. TimersFollow'
    BY <1>0, <1>1, <1>2, <2>2, <2>4
  <2>6. open # NextJob \/ open = NoJob
    BY <1>0, <2>1
  <2>7. OpenTurnHasOwner'
    BY <1>0, <1>1, <2>2, <2>6
  <2>8. \A j \in Jobs : j = NextJob => Owes(j)'
    BY <1>1, <1>2, <2>1, <2>2, <2>4
  <2>9. \A j \in Jobs : Owes(j) => Owes(j)'
    BY <1>1, <1>2, <2>1, <2>2
  <2> QED
    BY <1>2, <2>1, <2>3, <2>5, <2>7, <2>8, <2>9
<1>3. CASE job' = job /\ asked' \in {asked, NoJob}
           /\ ~(PromptRequested /\ (TaskWork => HasTask'))
  BY <1>0, <1>1, <1>3
<1> QED
  BY <1>2, <1>3, StartedJob

(* What the effects send: a refusal first of all, then the set to judge.    *)
LEMMA SentFacts ==
    ASSUME rows' \in Items
    PROVE  /\ PromptRequested /\ TaskWork /\ ~HasTask' =>
                /\ Sent # <<>> /\ Head(Sent).type = "TURN_FAILED"
                /\ Pending(Sent, Reports)
           /\ Requested("reconcileEvidence") => Pending(Sent, {"EVIDENCE_RESULT"})
<1> DEFINE refusal == TurnEvent("TURN_FAILED", NoJob)
           judgement == EvidenceEvent((CurrentEvidence(runId))')
           A == IF PromptRequested /\ TaskWork /\ ~HasTask' THEN <<refusal>> ELSE <<>>
           B == IF Requested("reconcileEvidence") THEN <<judgement>> ELSE <<>>
<1>1. refusal \in MailEvents /\ refusal.type = "TURN_FAILED"
  BY TurnEventType DEF TurnEvent
<1>2. judgement \in MailEvents /\ judgement.type = "EVIDENCE_RESULT"
  <2>1. (CurrentEvidence(runId))' \in Items
    BY DEF CurrentEvidence, Items
  <2> QED
    BY <2>1 DEF EvidenceEvent, MailEvents
<1>3. Sent = A \o B
  BY DEF Sent
<1> HIDE DEF refusal, judgement
<1>4. A \in Seq(MailEvents) /\ B \in Seq(MailEvents)
  BY <1>1, <1>2
<1>5. PromptRequested /\ TaskWork /\ ~HasTask' =>
        Sent # <<>> /\ Head(Sent).type = "TURN_FAILED" /\ Pending(Sent, Reports)
  <2> SUFFICES ASSUME PromptRequested /\ TaskWork /\ ~HasTask'
               PROVE  Sent # <<>> /\ Head(Sent).type = "TURN_FAILED" /\ Pending(Sent, Reports)
    OBVIOUS
  <2>1. A = <<refusal>>
    OBVIOUS
  <2>2. Pending(A, Reports)
    BY <1>1, <2>1 DEF Pending, Reports
  <2>3. Sent \in Seq(MailEvents) /\ Len(Sent) = 1 + Len(B) /\ Sent[1] = refusal
    BY <1>1, <1>3, <1>4, <2>1, ConcatProperties
  <2>4. Sent # <<>> /\ Head(Sent) = refusal
    BY <1>4, <2>3, EmptySeq, LenProperties
  <2>5. Pending(Sent, Reports)
    BY <1>3, <1>4, <2>2, PendingConcat
  <2> QED
    BY <1>1, <2>4, <2>5
<1>6. Requested("reconcileEvidence") => Pending(Sent, {"EVIDENCE_RESULT"})
  <2> SUFFICES ASSUME Requested("reconcileEvidence")
               PROVE  Pending(Sent, {"EVIDENCE_RESULT"})
    OBVIOUS
  <2>1. Pending(B, {"EVIDENCE_RESULT"})
    BY <1>2 DEF Pending
  <2> QED
    BY <1>3, <1>4, <2>1, PendingConcat
<1> QED
  BY <1>5, <1>6

(* A macrostep that moves to a busy state, asks for a prompt or for a       *)
(* verdict, or keeps what was awaited, leaves nobody waiting for nothing.   *)
LEMMA PerformAwaited ==
    ASSUME TInv, NEW waiting \in Seq(MailEvents), Perform(waiting), Next, rows' \in Items,
           ExecutesTask \/ fx' \in Quiet,
           Requested("runVerification") => collecting',
           state' \in Busy =>
             \/ state' # state
             \/ PromptRequested
             \/ Pending(waiting, Reports)
             \/ \E j \in Jobs : Owes(j)
             \/ /\ state' = "verifying"
                /\ \/ Requested("reconcileEvidence")
                   \/ collecting'
                   \/ Pending(waiting, {"EVIDENCE_RESULT"})
    PROVE  Awaited'
<1>1. Sent \in Seq(MailEvents)
  BY SentType
<1>2. mailbox' = waiting \o Sent
  BY DEF Perform
<1>3. CASE PromptRequested /\ (TaskWork => HasTask')
  BY <1>3, PerformJobs DEF Awaited
<1>4. CASE PromptRequested /\ TaskWork /\ ~HasTask'
  BY <1>1, <1>2, <1>4, SentFacts, PendingConcat DEF Awaited
<1>5. CASE state' = "verifying" /\ Requested("runVerification")
  BY <1>5 DEF Awaited
<1>6. CASE state' \in Busy /\ state' # state
  BY <1>3, <1>4, <1>5, <1>6, BusyEntry DEF SetToWork
<1>7. CASE Pending(waiting, Reports)
  BY <1>1, <1>2, <1>7, PendingConcat DEF Awaited
<1>8. CASE \E j \in Jobs : Owes(j)
  BY <1>8, PerformJobs DEF Awaited
<1>9. CASE state' = "verifying" /\ collecting'
  BY <1>9 DEF Awaited
<1>10. CASE state' = "verifying" /\ (Requested("reconcileEvidence")
                \/ Pending(waiting, {"EVIDENCE_RESULT"}))
  BY <1>1, <1>2, <1>10, SentFacts, PendingConcat DEF Awaited
<1>11. CASE state' \notin Busy
  BY <1>11 DEF Awaited
<1> QED
  BY <1>3, <1>4, <1>6, <1>7, <1>8, <1>9, <1>10, <1>11

(* Every macrostep keeps the invariant, given what is particular to it.     *)
LEMMA PerformKeeps ==
    ASSUME TInv, NEW waiting \in Seq(MailEvents), Perform(waiting), Next, rows' \in Items,
           collecting' \in BOOLEAN, ReviseFinished => HasTask,
           (ExecutesTask \/ fx' \in Quiet) => Awaited' /\ NoTaskRefused'
    PROVE  TInv'
<1>1. IInv' /\ TypeOK'
  BY IInvStep DEF TInv, IInv
<1>2. Tasked' /\ (ExecutesTask \/ fx' \in Quiet)
  BY TaskStep DEF TInv, IInv
<1>3. gitQueue' \in Seq(GitOps) /\ Waiting(gitQueue', job')
  BY <1>1, <1>2, PerformQueue
<1>4. /\ job' \in [Jobs -> Stages] /\ asked' \in Jobs \cup {NoJob}
      /\ TimersFollow' /\ OpenTurnHasOwner'
  BY <1>2, PerformJobs
<1>5. mailbox' \in Seq(MailEvents)
  BY SentType, ConcatProperties DEF Perform
<1>6. cancels' \in 0..MaxCancels
  BY TurnsAssumption DEF TInv, TurnsTypeOK, Perform, PauseTurn, OneMoreCancel
<1>7. TurnsTypeOK'
  <2>1. /\ timer' = timer /\ session' = session /\ open' = open /\ published' = published
        /\ closing' = closing /\ dirty' = dirty /\ checkpointed' \in {checkpointed, {}}
    BY DEF Perform
  <2> QED
    BY <1>1, <1>3, <1>4, <1>5, <1>6, <2>1 DEF TInv, TurnsTypeOK, GitOps, MailEvents
<1> QED
  BY <1>1, <1>2, <1>3, <1>4, <1>7 DEF TInv

-----------------------------------------------------------------------------
(* The macrosteps, one by one.                                             *)

LEMMA RevisingStays ==
    ASSUME Next, state = "revising", state' = "revising"
    PROVE  UNCHANGED <<tasks, taskIndex>>
<1> USE DEF Enter, EnterSilently, OpenTurn, plan
<1>1. CASE UserCommand
  BY <1>1 DEF UserCommand, Start, AnswerClarification, Decide, ApprovePlan, ApproveTask,
     Revise, Rollback, Pause, Resume, Cancel, SetLowEnergy, Integrate
<1>2. CASE TurnFinished
  BY <1>2 DEF TurnFinished, ExploreFinished, ProposeFinished, PlanFinished,
     ExecuteFinished, ReviseFinished, VerifyFinished, EnterVerifying
<1>3. CASE TurnFailed \/ VerificationFailed \/ PlanEvent
  BY <1>3 DEF TurnFailed, VerificationFailed, PlanEvent
<1>4. CASE \/ \E e \in AgentEvents : AgentEvent(e)
           \/ \E run \in Runs, risk \in {"low", "high"} : VerificationDone(run, risk)
           \/ \E items \in Items : EvidenceResult(items)
  BY <1>4 DEF AgentEvent, VerificationDone, EvidenceResult
<1> QED
  BY <1>1, <1>2, <1>3, <1>4 DEF Next

(* With nothing in the mailbox, a revision without a task has just begun.   *)
LEMMA RefusedAtOnce ==
    ASSUME TInv, mailbox = <<>>, Perform(<<>>), Next, rows' \in Items
    PROVE  NoTaskRefused'
<1> SUFFICES ASSUME state' = "revising", ~HasTask'
             PROVE  mailbox' # <<>> /\ Head(mailbox').type = "TURN_FAILED"
  BY DEF NoTaskRefused
<1>1. mailbox' = Sent
  BY SentType, ConcatEmptySeq DEF Perform
<1>2. CASE state = "revising"
  <2>1. HasTask
    BY <1>2 DEF TInv, NoTaskRefused
  <2> QED
    BY <1>2, <2>1, RevisingStays DEF HasTask
<1>3. CASE state # "revising"
  <2>1. PromptRequested /\ TaskWork
    BY <1>3, BusyEntry DEF SetToWork, Busy, TaskWork
  <2> QED
    BY <1>1, <2>1, SentFacts
<1> QED
  BY <1>2, <1>3

LEMMA NoTaskNotRevised ==
    ASSUME TInv, mailbox = <<>>
    PROVE  ReviseFinished => HasTask
  BY DEF TInv, NoTaskRefused, ReviseFinished

(* What is awaited before a step of the idle thread.                        *)
LEMMA IdleAwaits ==
    ASSUME TInv, mailbox = <<>>, state \in Busy
    PROVE  (\E j \in Jobs : Owes(j)) \/ (state = "verifying" /\ collecting)
  BY DEF TInv, Awaited, Pending

LEMMA CommandKeeps == TInv /\ Command => TInv'
<1> SUFFICES ASSUME TInv, Command PROVE TInv'
  OBVIOUS
<1>1. Next /\ Perform(<<>>) /\ Invoke /\ mailbox = <<>>
  BY DEF Command, Next, UserCommand, Idle
<1>2. rows' \in Items
  BY NewEpochType DEF Command, TInv, TurnsTypeOK
<1>3. collecting' \in BOOLEAN /\ (Requested("runVerification") => collecting')
  BY <1>1 DEF Invoke, TInv, TurnsTypeOK, Requested
<1>4. state' \in Busy =>
        \/ state' # state
        \/ \E j \in Jobs : Owes(j)
        \/ state' = "verifying" /\ collecting'
  <2>1. state' = "verifying" /\ collecting => collecting'
    BY <1>1, Zenon DEF Invoke
  <2>2. ASSUME state' = state, state \in Busy
        PROVE  (\E j \in Jobs : Owes(j)) \/ (state' = "verifying" /\ collecting')
    <3>1. (\E j \in Jobs : Owes(j)) \/ (state = "verifying" /\ collecting)
      BY <1>1, <2>2, IdleAwaits, Zenon
    <3> QED
      BY <2>1, <2>2, <3>1, Zenon
  <2> QED
    BY <2>2, Zenon
<1>5. <<>> \in Seq(MailEvents)
  BY EmptySeq
<1>6. (ExecutesTask \/ fx' \in Quiet) => Awaited'
  BY <1>1, <1>2, <1>3, <1>4, <1>5, PerformAwaited
<1> QED
  BY <1>1, <1>2, <1>3, <1>5, <1>6, NoTaskNotRevised, RefusedAtOnce, PerformKeeps

LEMMA AgentSaysKeeps == TInv /\ AgentSays => TInv'
<1> SUFFICES ASSUME TInv, AgentSays PROVE TInv'
  OBVIOUS
<1>1. Next /\ Perform(<<>>) /\ Invoke /\ mailbox = <<>>
  BY DEF AgentSays, Next, Idle
<1>2. rows' \in Items
  BY TurnsAssumption DEF AgentSays, TInv, TurnsTypeOK, Items
<1>3. collecting' \in BOOLEAN /\ (Requested("runVerification") => collecting')
  BY <1>1 DEF Invoke, TInv, TurnsTypeOK, Requested
<1>4. state' \in Busy =>
        \/ state' # state
        \/ \E j \in Jobs : Owes(j)
        \/ state' = "verifying" /\ collecting'
  <2>1. state' = "verifying" /\ collecting => collecting'
    BY <1>1, Zenon DEF Invoke
  <2>2. ASSUME state' = state, state \in Busy
        PROVE  (\E j \in Jobs : Owes(j)) \/ (state' = "verifying" /\ collecting')
    <3>1. (\E j \in Jobs : Owes(j)) \/ (state = "verifying" /\ collecting)
      BY <1>1, <2>2, IdleAwaits, Zenon
    <3> QED
      BY <2>1, <2>2, <3>1, Zenon
  <2> QED
    BY <2>2, Zenon
<1>5. <<>> \in Seq(MailEvents)
  BY EmptySeq
<1>6. (ExecutesTask \/ fx' \in Quiet) => Awaited'
  BY <1>1, <1>2, <1>3, <1>4, <1>5, PerformAwaited
<1> QED
  BY <1>1, <1>2, <1>3, <1>5, <1>6, NoTaskNotRevised, RefusedAtOnce, PerformKeeps

LEMMA CollectorKeeps == TInv /\ (CollectorDone \/ CollectorFails) => TInv'
<1> SUFFICES ASSUME TInv, CollectorDone \/ CollectorFails PROVE TInv'
  OBVIOUS
<1>1. Next /\ Perform(<<>>) /\ mailbox = <<>>
  BY DEF CollectorDone, CollectorFails, Next, Idle
<1>2. rows' \in Items
  <2>1. CASE CollectorDone
    <3>1. PICK found \in [Commands -> Outcomes] :
              rows' = [i \in Ids |-> IF i \in Commands THEN found[i] ELSE rows[i]]
      BY <2>1 DEF CollectorDone
    <3> QED
      BY <3>1, TurnsAssumption DEF TInv, TurnsTypeOK, Items
  <2>2. CASE CollectorFails
    BY <2>2 DEF CollectorFails, TInv, TurnsTypeOK
  <2> QED
    BY <2>1, <2>2
<1>3. /\ collecting' \in BOOLEAN
      /\ Requested("runVerification") => collecting'
      /\ state' \in Busy => PromptRequested
                            \/ (state' = "verifying" /\ Requested("reconcileEvidence"))
  <2>1. CASE CollectorDone
    <3>1. PICK run \in Runs, risk \in {"low", "high"} : VerificationDone(run, risk)
      BY <2>1 DEF CollectorDone
    <3>2. ~Requested("runVerification")
      BY <3>1 DEF VerificationDone, Judged, Requested, SendPrompt, Do
    <3> QED
      BY <2>1, <3>1, <3>2, VerificationAsks DEF CollectorDone
  <2>2. CASE CollectorFails
    BY <2>2 DEF CollectorFails, VerificationFailed, EnterSilently, Invoke, Busy,
       TInv, TurnsTypeOK, Requested
  <2> QED
    BY <2>1, <2>2
<1>4. <<>> \in Seq(MailEvents)
  BY EmptySeq
<1>5. (ExecutesTask \/ fx' \in Quiet) => Awaited'
  BY <1>1, <1>2, <1>3, <1>4, PerformAwaited
<1> QED
  BY <1>1, <1>2, <1>3, <1>4, <1>5, NoTaskNotRevised, RefusedAtOnce, PerformKeeps

LEMMA TInvMail == TInv => MailInv
  BY DEF TInv, TurnsTypeOK, MailInv, MailEvents

LEMMA ReportsNeverRevise ==
    /\ TurnFinished => state' # "revising"
    /\ TurnFailed => state' = "paused"
    /\ \A items : EvidenceResult(items) =>
         state \in {"verifying", "integrating"} /\ state' # "revising"
<1> USE DEF Enter, EnterSilently, OpenTurn
<1>1. TurnFinished => state' # "revising"
  BY DEF TurnFinished, ExploreFinished, ProposeFinished, PlanFinished, ExecuteFinished,
     ReviseFinished, VerifyFinished, EnterPlanning, EnterProposing, EnterVerifying,
     ApprovePlanWith, EnterExecuting
<1>2. TurnFailed => state' = "paused"
  BY DEF TurnFailed
<1>3. ASSUME NEW items, EvidenceResult(items)
      PROVE  state \in {"verifying", "integrating"} /\ state' # "revising"
  BY <1>3 DEF EvidenceResult, EnterAwaitingReview, ApproveTaskWith, EnterExecuting
<1> QED
  BY <1>1, <1>2, <1>3

LEMMA ProcessTakenKeeps ==
    ASSUME TInv, mailbox # <<>>, Takes(Head(mailbox)), Handle(Head(mailbox)),
           NewEpoch, Perform(Tail(mailbox)), Invoke
    PROVE  TInv'
<1> DEFINE e == Head(mailbox)
<1>1. e \in MailEvents /\ Tail(mailbox) \in Seq(MailEvents)
  BY TInvMail DEF MailInv
<1>2. e.type \in Reports \cup {"EVIDENCE_RESULT"}
  BY <1>1 DEF MailEvents, Reports
<1>3. Next
  BY TInvMail, HandleIsNext
<1>4. rows' \in Items
  BY TInvMail, NewEpochType DEF MailInv
<1>5. collecting' \in BOOLEAN /\ (Requested("runVerification") => collecting')
  BY DEF Invoke, TInv, TurnsTypeOK, Requested
<1>6. state' # "revising"
  BY ReportsNeverRevise DEF Handle
<1>7. NoTaskRefused'
  BY <1>6 DEF NoTaskRefused
<1>8. ReviseFinished => HasTask
  <2> SUFFICES ASSUME ReviseFinished, ~HasTask PROVE FALSE
    OBVIOUS
  <2>1. e.type = "TURN_FAILED"
    BY DEF TInv, NoTaskRefused, ReviseFinished
  <2>2. TurnFailed
    BY <2>1 DEF Handle
  <2> QED
    BY <2>2, ReportsNeverRevise DEF ReviseFinished, EnterVerifying, OpenTurn, Enter
<1>9. \/ state' \notin Busy
      \/ state' # state
      \/ state' = "verifying" /\ Requested("reconcileEvidence")
  <2>1. CASE TurnFinished
    BY <2>1, FinishedMoves
  <2>2. CASE TurnFailed
    BY <2>2, ReportsNeverRevise DEF Busy
  <2>3. CASE EvidenceResult(e.items)
    BY <2>3, ReportsNeverRevise, VerdictMoves DEF Busy
  <2> QED
    BY <2>1, <2>2, <2>3 DEF Handle
<1>10. (ExecutesTask \/ fx' \in Quiet) => Awaited'
  BY <1>1, <1>3, <1>4, <1>5, <1>9, PerformAwaited
<1> QED
  BY <1>1, <1>3, <1>4, <1>5, <1>7, <1>8, <1>10, PerformKeeps

(* An event that is dropped was not awaited.                                *)
LEMMA ProcessDroppedKeeps ==
    ASSUME TInv, mailbox # <<>>, ~Takes(Head(mailbox)), mailbox' = Tail(mailbox),
           UNCHANGED <<vars, asked, turnVars, cancelVars, gitVars, testVars>>
    PROVE  TInv'
<1> DEFINE e == Head(mailbox)
<1> USE DEF vars, turnVars, cancelVars, gitVars, testVars
<1>1. e \in MailEvents /\ mailbox \in Seq(MailEvents) /\ Tail(mailbox) \in Seq(MailEvents)
  BY TInvMail DEF MailInv
<1>2. e.type \in Reports \cup {"EVIDENCE_RESULT"}
  BY <1>1 DEF MailEvents, Reports
<1>3. /\ e.type = "TURN_FINISHED" => state \notin Busy
      /\ e.type = "TURN_FAILED" => state \notin Busy \cup {"revising"}
      /\ e.type = "EVIDENCE_RESULT" => state # "verifying"
  BY DEF Takes, Active, Terminal, Busy
<1>4. TurnsTypeOK' /\ IInv' /\ Tasked'
  <2>1. TypeOK' /\ IInv'
    BY IInvStep DEF TInv, IInv
  <2> QED
    BY <1>1, <2>1 DEF TInv, TurnsTypeOK, MailEvents, Tasked, HasTask
<1>5. Waiting(gitQueue', job') /\ TimersFollow' /\ OpenTurnHasOwner'
  BY DEF TInv, TimersFollow, OpenTurnHasOwner, InTurn, AtAgent, InFallback
<1>6. NoTaskRefused'
  BY <1>3 DEF TInv, NoTaskRefused, HasTask, Busy
<1>7. Awaited'
  <2> SUFFICES ASSUME state \in Busy PROVE Awaited'
    BY DEF Awaited
  <2>1. e.type = "EVIDENCE_RESULT" /\ state # "verifying"
    BY <1>2, <1>3 DEF Reports
  <2>2. Pending(mailbox, Reports) \/ \E j \in Jobs : Owes(j)
    BY <2>1 DEF TInv, Awaited
  <2>3. CASE Pending(mailbox, Reports)
    BY <1>1, <2>1, <2>3, PendingTail DEF Awaited, Reports
  <2>4. CASE \E j \in Jobs : Owes(j)
    BY <2>4 DEF Awaited, Owes
  <2> QED
    BY <2>2, <2>3, <2>4
<1> QED
  BY <1>4, <1>5, <1>6, <1>7 DEF TInv

LEMMA ProcessEventKeeps == TInv /\ ProcessEvent => TInv'
  BY ProcessTakenKeeps, ProcessDroppedKeeps DEF ProcessEvent

-----------------------------------------------------------------------------
(* The steps between the macrosteps: the machine does not move, and who     *)
(* stops owing it a report has sent one.                                    *)

Reported == \E type \in Reports, j \in Jobs \cup {NoJob} : Send(TurnEvent(type, j))

LEMMA BetweenKeeps ==
    ASSUME TInv, UNCHANGED <<vars, collecting>>,
           \/ mailbox' = mailbox /\ \A j \in Jobs : Owes(j) => Owes(j)'
           \/ Reported,
           mailbox' \in Seq(MailEvents) => TurnsTypeOK',
           Waiting(gitQueue', job'), TimersFollow', OpenTurnHasOwner'
    PROVE  TInv'
<1> USE DEF vars
<1>1. mailbox \in Seq(MailEvents)
  BY TInvMail DEF MailInv
<1>2. IInv' /\ Tasked'
  <2>1. IInv'
    BY IInvStep DEF TInv
  <2> QED
    BY <2>1 DEF TInv, Tasked, HasTask
<1>3. CASE mailbox' = mailbox /\ \A j \in Jobs : Owes(j) => Owes(j)'
  <2>1. NoTaskRefused'
    BY <1>3 DEF TInv, NoTaskRefused, HasTask
  <2>2. Awaited'
    BY <1>3 DEF TInv, Awaited
  <2> QED
    BY <1>1, <1>2, <1>3, <2>1, <2>2 DEF TInv
<1>4. CASE Reported
  <2>1. PICK type \in Reports, j \in Jobs \cup {NoJob} : Send(TurnEvent(type, j))
    BY <1>4 DEF Reported
  <2> DEFINE e == TurnEvent(type, j)
  <2>2. e \in MailEvents /\ e.type \in Reports
    BY TurnEventType DEF TurnEvent, Reports
  <2>3. mailbox' = Append(mailbox, e)
    BY <2>1 DEF Send
  <2> HIDE DEF e
  <2>4. mailbox' \in Seq(MailEvents)
    BY <1>1, <2>2, <2>3
  <2>5. Pending(mailbox', Reports)
    BY <1>1, <2>2, <2>3, PendingAppend
  <2>6. mailbox # <<>> => mailbox' # <<>> /\ Head(mailbox') = Head(mailbox)
    BY <1>1, <2>2, <2>3
  <2>7. NoTaskRefused'
    BY <2>6 DEF TInv, NoTaskRefused, HasTask
  <2> QED
    BY <1>2, <2>4, <2>5, <2>7 DEF TInv, Awaited
<1> QED
  BY <1>3, <1>4

LEMMA IdleStepsKeep ==
    TInv /\ (CancelTurn \/ TickCheck \/ AgentWrites \/ CancelFallbackDone) => TInv'
<1> SUFFICES ASSUME TInv, CancelTurn \/ TickCheck \/ AgentWrites \/ CancelFallbackDone
             PROVE  TInv'
  OBVIOUS
<1>0. CancelTurn \/ TickCheck \/ AgentWrites => closing' = closing
  BY Zenon DEF CancelTurn, TickCheck, AgentWrites, cancelVars
<1>b. CancelFallbackDone => closing > 0 /\ closing' = closing - 1
  BY DEF CancelFallbackDone
<1> USE DEF CancelTurn, TickCheck, AgentWrites, CancelFallbackDone, vars, turnVars,
            gitVars, testVars, FallbackDone, OneMoreCancel
<1>1. UNCHANGED <<vars, collecting, mailbox, job, timer, gitQueue, asked, session,
                  published, checkpointed>>
      /\ open' \in {open, NoJob}
  OBVIOUS
<1>2. rows' \in Items /\ dirty' \in BOOLEAN
  BY DEF TInv, TurnsTypeOK, Items, Status
<1>3. cancels' \in 0..MaxCancels /\ closing' \in 0..MaxCancels
  <2>1. cancels \in 0..MaxCancels /\ closing \in 0..MaxCancels /\ MaxCancels \in Nat
    BY TurnsAssumption DEF TInv, TurnsTypeOK
  <2>2. \/ cancels' = cancels
        \/ cancels < MaxCancels /\ cancels' = cancels + 1
    BY Zenon DEF cancelVars
  <2> HIDE DEF CancelTurn, TickCheck, AgentWrites, CancelFallbackDone
  <2> QED
    BY <1>0, <1>b, <2>1, <2>2
<1>4. TurnsTypeOK'
  BY <1>1, <1>2, <1>3 DEF TInv, TurnsTypeOK, TypeOK
<1>5. Waiting(gitQueue', job') /\ TimersFollow' /\ OpenTurnHasOwner'
  BY <1>1 DEF TInv, TimersFollow, OpenTurnHasOwner, InTurn, AtAgent, InFallback
<1>6. \A j \in Jobs : Owes(j) => Owes(j)'
  BY <1>1 DEF Owes
<1> QED
  BY <1>1, <1>4, <1>5, <1>6, BetweenKeeps

LEMMA CancelProceedsKeeps == TInv /\ CancelProceeds => TInv'
<1> SUFFICES ASSUME TInv, CancelProceeds PROVE TInv'
  OBVIOUS
<1> USE DEF CancelProceeds, vars, gitVars, testVars, EndsNow, FallsBack
<1>1. UNCHANGED <<vars, collecting, mailbox, job, timer, gitQueue, asked, session,
                  checkpointed, dirty, rows>>
      /\ open' \in {open, NoJob} /\ published' = NoJob
  OBVIOUS
<1>2. cancels' \in 0..MaxCancels /\ closing' \in 0..MaxCancels
  BY TurnsAssumption DEF TInv, TurnsTypeOK
<1>3. TurnsTypeOK'
  BY <1>1, <1>2 DEF TInv, TurnsTypeOK, TypeOK
<1>4. Waiting(gitQueue', job') /\ TimersFollow' /\ OpenTurnHasOwner'
  BY <1>1 DEF TInv, TimersFollow, OpenTurnHasOwner, InTurn, AtAgent, InFallback
<1>5. \A j \in Jobs : Owes(j) => Owes(j)'
  BY <1>1 DEF Owes
<1> QED
  BY <1>1, <1>3, <1>4, <1>5, BetweenKeeps

(* A job moves, with its timer and the open turn: what the steps of a turn  *)
(* have in common.                                                          *)
Moves(j, stage, t) ==
    /\ UNCHANGED <<vars, asked, cancelVars, gitVars, testVars>>
    /\ job[j] # "checkpoint" /\ stage \in Stages \ {"checkpoint"}
    /\ job' = [job EXCEPT ![j] = stage]
    /\ t \in Timers
    /\ timer' = [timer EXCEPT ![j] = t]
    /\ session' \in BOOLEAN
    /\ published' \in {published, j, NoJob}
    /\ open' \in {open, j, NoJob}
    /\ \/ mailbox' = mailbox /\ (Owes(j) => stage # "gone" /\ t # "fired")
       \/ Reported
    /\ stage \in {"gone", "ready", "ensure"} => t = "off"
    /\ stage \in {"prompt", "repair", "endingOk", "endingFailed"} =>
         t \in {"armed", "ending", "fired"}
    /\ stage = "settled" => t = "ending"
    /\ open' = j => stage \in {"prompt", "repair", "endingOk", "endingFailed"}
                    /\ t \in {"armed", "ending"}

LEMMA JobMoves ==
    ASSUME TInv, NEW j \in Jobs, NEW stage, NEW t, Moves(j, stage, t)
    PROVE  TInv'
<1> USE DEF Moves, cancelVars, gitVars, testVars
<1>0. job \in [Jobs -> Stages] /\ timer \in [Jobs -> Timers]
  BY DEF TInv, TurnsTypeOK
<1>1. /\ job' \in [Jobs -> Stages] /\ timer' \in [Jobs -> Timers]
      /\ \A k \in Jobs : job'[k] = IF k = j THEN stage ELSE job[k]
      /\ \A k \in Jobs : timer'[k] = IF k = j THEN t ELSE timer[k]
  BY <1>0
<1>2. mailbox' \in Seq(MailEvents) => TurnsTypeOK'
  BY <1>1 DEF TInv, TurnsTypeOK, TypeOK, MailEvents, vars
<1>3. Waiting(gitQueue', job')
  <2>1. Waiting(gitQueue, [job EXCEPT ![j] = stage])
    BY <1>0, OtherJobMoves DEF TInv
  <2> QED
    BY <2>1
<1> USE DEF InTurn, AtAgent, InFallback
<1>4. TimersFollow'
  <2> SUFFICES ASSUME NEW k \in Jobs
               PROVE  /\ job'[k] \in {"gone", "checkpoint", "ready", "ensure"} =>
                           timer'[k] = "off"
                      /\ InTurn(k)' => timer'[k] \in {"armed", "ending", "fired"}
                      /\ job'[k] = "settled" => timer'[k] = "ending"
    BY DEF TimersFollow
  <2>1. CASE k = j
    BY <1>1, <2>1
  <2>2. CASE k # j
    BY <1>1, <2>2 DEF TInv, TimersFollow
  <2> QED
    BY <2>1, <2>2
<1>5. OpenTurnHasOwner'
  <2>1. CASE open' = j
    BY <1>1, <2>1 DEF OpenTurnHasOwner
  <2>2. CASE open' = open /\ open # j
    BY <1>1, <2>2 DEF TInv, OpenTurnHasOwner, TurnsTypeOK
  <2>3. CASE open' = NoJob
    BY <2>3 DEF OpenTurnHasOwner
  <2> QED
    BY <2>1, <2>2, <2>3
<1>6. \/ mailbox' = mailbox /\ \A k \in Jobs : Owes(k) => Owes(k)'
      \/ Reported
  BY <1>1 DEF Owes
<1> QED
  BY <1>2, <1>3, <1>4, <1>5, <1>6, BetweenKeeps

(* What the rest of a turn's steps need of the invariant.                   *)
LEMMA TurnFacts ==
    ASSUME TInv, NEW j \in Jobs
    PROVE  /\ job \in [Jobs -> Stages] /\ timer \in [Jobs -> Timers]
           /\ session \in BOOLEAN
           /\ job = [job EXCEPT ![j] = job[j]]
           /\ timer = [timer EXCEPT ![j] = timer[j]]
           /\ job[j] \in Stages /\ timer[j] \in Timers
           /\ open = j => InTurn(j) /\ timer[j] \in {"armed", "ending"}
           /\ job[j] \in {"gone", "checkpoint", "ready", "ensure"} => timer[j] = "off"
           /\ InTurn(j) => timer[j] \in {"armed", "ending", "fired"}
           /\ job[j] = "settled" => timer[j] = "ending"
<1>1. job \in [Jobs -> Stages] /\ timer \in [Jobs -> Timers] /\ session \in BOOLEAN
  BY DEF TInv, TurnsTypeOK
<1>2. open = j => InTurn(j) /\ timer[j] \in {"armed", "ending"}
  BY TurnsAssumption DEF TInv, OpenTurnHasOwner
<1> QED
  BY <1>1, <1>2 DEF TInv, TimersFollow

LEMMA RunTurnKeeps ==
    ASSUME TInv, NEW j \in Jobs, RunTurn(j)
    PROVE  TInv'
<1> USE DEF RunTurn, InTurn, AtAgent, InFallback
<1>1. UNCHANGED <<vars, asked, cancelVars, gitVars, testVars>> /\ session' = session
      /\ job[j] = "ready" /\ timer[j] = "off" /\ open # j
  BY TurnFacts
<1>2. CASE ~session
  <2>1. Moves(j, "ensure", "off")
    BY <1>1, <1>2, TurnFacts DEF Moves, Stages, Timers
  <2> QED
    BY <2>1, JobMoves
<1>3. CASE session /\ open # NoJob
  <2>1. Reported
    BY <1>3 DEF Reported, Reports
  <2>2. Moves(j, "gone", "off")
    BY <1>1, <1>3, <2>1, TurnFacts DEF Moves, Stages, Timers
  <2> QED
    BY <2>2, JobMoves
<1>4. CASE session /\ open = NoJob
  <2>1. Moves(j, "prompt", "armed")
    BY <1>1, <1>4, TurnFacts DEF Moves, Stages, Timers
  <2> QED
    BY <2>1, JobMoves
<1> QED
  BY <1>2, <1>3, <1>4

LEMMA EnsureDoneKeeps ==
    ASSUME TInv, NEW j \in Jobs, EnsureDone(j)
    PROVE  TInv'
<1> USE DEF EnsureDone, InTurn, AtAgent, InFallback
<1>1. UNCHANGED <<vars, asked, cancelVars, gitVars, testVars, timer, open, published>>
      /\ job[j] = "ensure" /\ timer[j] = "off" /\ open # j
  BY TurnFacts
<1>2. CASE session' = TRUE /\ job' = [job EXCEPT ![j] = "ready"] /\ UNCHANGED mailbox
  <2>1. Moves(j, "ready", "off")
    BY <1>1, <1>2, TurnFacts DEF Moves, Stages, Timers
  <2> QED
    BY <2>1, JobMoves
<1>3. CASE job' = [job EXCEPT ![j] = "gone"] /\ Send(TurnEvent("TURN_FAILED", j))
           /\ UNCHANGED session
  <2>1. Reported
    BY <1>3 DEF Reported, Reports
  <2>2. Moves(j, "gone", "off")
    BY <1>1, <1>3, <2>1, TurnFacts DEF Moves, Stages, Timers
  <2> QED
    BY <2>2, JobMoves
<1> QED
  BY <1>2, <1>3

(* The end of a settleTurn, by the state of its timeout.                    *)
LEMMA SettleOverKeeps ==
    ASSUME TInv, NEW j \in Jobs, InTurn(j), NEW report \in Reports,
           SettleOver(j, report), open' \in {open, NoJob}, open' # j,
           published' \in {published, NoJob},
           UNCHANGED <<vars, asked, session, cancelVars, gitVars, testVars>>
    PROVE  TInv'
<1> USE DEF InTurn, AtAgent, InFallback
<1>1. CASE /\ timer[j] = "armed"
           /\ Send(TurnEvent(report, j))
           /\ job' = [job EXCEPT ![j] = "gone"]
           /\ timer' = [timer EXCEPT ![j] = "off"]
  <2>1. Reported
    BY <1>1 DEF Reported
  <2>2. Moves(j, "gone", "off")
    BY <1>1, <2>1, TurnFacts DEF Moves, Stages, Timers
  <2> QED
    BY <2>2, JobMoves
<1>2. CASE /\ timer[j] = "ending"
           /\ job' = [job EXCEPT ![j] = "settled"]
           /\ UNCHANGED <<mailbox, timer>>
  <2>1. Moves(j, "settled", "ending")
    BY <1>2, TurnFacts DEF Moves, Stages, Timers
  <2> QED
    BY <2>1, JobMoves
<1>3. CASE /\ timer[j] = "fired"
           /\ job' = [job EXCEPT ![j] = "gone"]
           /\ timer' = [timer EXCEPT ![j] = "off"]
           /\ UNCHANGED mailbox
  <2>1. Moves(j, "gone", "off")
    BY <1>3, TurnFacts DEF Moves, Stages, Timers, Owes
  <2> QED
    BY <2>1, JobMoves
<1> QED
  BY <1>1, <1>2, <1>3 DEF SettleOver

LEMMA EndSettleKeeps ==
    ASSUME TInv, NEW j \in Jobs, AtAgent(j), NEW report \in Reports,
           NEW awaiting \in {"endingOk", "endingFailed"},
           EndSettle(j, report, awaiting),
           UNCHANGED <<vars, asked, session, cancelVars, gitVars, testVars>>
    PROVE  TInv'
<1> USE DEF EndSettle, InTurn, AtAgent, InFallback
<1>1. published' \in {published, NoJob}
  BY DEF Unpublish
<1>2. CASE EndsNow(j) /\ SettleOver(j, report)
  <2>1. open' \in {open, NoJob} /\ open' # j
    BY <1>2, TurnsAssumption DEF EndsNow
  <2> QED
    BY <1>1, <1>2, <2>1, SettleOverKeeps
<1>3. CASE FallsBack(j) /\ job' = [job EXCEPT ![j] = awaiting] /\ UNCHANGED <<mailbox, timer>>
  <2>1. open = j /\ open' = open /\ timer[j] \in {"armed", "ending"}
    BY <1>3, TurnFacts DEF FallsBack
  <2>2. Moves(j, awaiting, timer[j])
    BY <1>1, <1>3, <2>1, TurnFacts DEF Moves, Stages, Timers
  <2> QED
    BY <2>2, JobMoves
<1> QED
  BY <1>2, <1>3

LEMMA PromptKeeps ==
    ASSUME TInv, NEW j \in Jobs, PromptReturns(j) \/ PromptFails(j) \/ RepairEnds(j)
    PROVE  TInv'
<1> USE DEF AtAgent, Reports
<1>1. CASE PromptFails(j) \/ RepairEnds(j)
  BY <1>1, EndSettleKeeps DEF PromptFails, RepairEnds
<1>2. CASE PromptReturns(j)
  <2>1. CASE EndSettle(j, "TURN_FINISHED", "endingOk")
    BY <1>2, <2>1, EndSettleKeeps DEF PromptReturns
  <2>2. CASE /\ open # NoJob
             /\ job' = [job EXCEPT ![j] = "repair"]
             /\ UNCHANGED <<mailbox, timer, open, published>>
    <3>1. Moves(j, "repair", timer[j])
      BY <1>2, <2>2, TurnFacts DEF Moves, PromptReturns, Stages, Timers, InTurn, Owes
    <3> QED
      BY <3>1, JobMoves
  <2> QED
    BY <1>2, <2>1, <2>2 DEF PromptReturns
<1> QED
  BY <1>1, <1>2

LEMMA SettleFallbackKeeps ==
    ASSUME TInv, NEW j \in Jobs, SettleFallbackDone(j)
    PROVE  TInv'
<1> USE DEF SettleFallbackDone, FallbackDone, InTurn, InFallback, Reports
<1>1. open' = NoJob /\ NoJob # j
  BY TurnsAssumption
<1>2. CASE SettleOver(j, "TURN_FINISHED")
  BY <1>1, <1>2, SettleOverKeeps
<1>3. CASE SettleOver(j, "TURN_FAILED")
  BY <1>1, <1>3, SettleOverKeeps
<1> QED
  BY <1>2, <1>3

LEMMA TimeoutKeeps ==
    ASSUME TInv, NEW j \in Jobs, Timeout(j) \/ TimeoutFallbackDone(j)
    PROVE  TInv'
<1> USE DEF InTurn, AtAgent, InFallback
<1>0. NoJob # j
  BY TurnsAssumption
<1>1. CASE Timeout(j)
  <2> USE <1>1 DEF Timeout
  <2>1. /\ UNCHANGED <<vars, asked, job, session, cancelVars, gitVars, testVars>>
        /\ published' \in {published, NoJob} /\ timer[j] = "armed" /\ InTurn(j)
    BY TurnFacts DEF Unpublish, Stages
  <2>2. CASE EndsNow(j) /\ timer' = [timer EXCEPT ![j] = "fired"] /\ TimedOut(j)
    <3>1. Reported
      BY <2>2 DEF Reported, Reports, TimedOut
    <3>2. open' \in {open, NoJob} /\ open' # j
      BY <1>0, <2>2 DEF EndsNow
    <3>3. Moves(j, job[j], "fired")
      BY <2>1, <2>2, <3>1, <3>2, TurnFacts DEF Moves, Stages, Timers
    <3> QED
      BY <3>3, JobMoves
  <2>3. CASE FallsBack(j) /\ timer' = [timer EXCEPT ![j] = "ending"] /\ UNCHANGED mailbox
    <3>1. Moves(j, job[j], "ending")
      BY <2>1, <2>3, TurnFacts DEF Moves, Stages, Timers, FallsBack
    <3> QED
      BY <3>1, JobMoves
  <2> QED
    BY <2>2, <2>3
<1>2. CASE TimeoutFallbackDone(j)
  <2> USE <1>2 DEF TimeoutFallbackDone, FallbackDone
  <2>1. /\ UNCHANGED <<vars, asked, session, published, cancelVars, gitVars, testVars>>
        /\ open' = NoJob /\ timer[j] = "ending" /\ (InTurn(j) \/ job[j] = "settled")
    BY TurnFacts DEF Stages
  <2>2. Reported
    BY DEF Reported, Reports, TimedOut
  <2>3. CASE job[j] = "settled"
    <3>1. Moves(j, "gone", "off")
      BY <1>0, <2>1, <2>2, <2>3, TurnFacts DEF Moves, Stages, Timers
    <3> QED
      BY <3>1, JobMoves
  <2>4. CASE InTurn(j)
    <3>1. Moves(j, job[j], "fired")
      BY <1>0, <2>1, <2>2, <2>4, TurnFacts DEF Moves, Stages, Timers
    <3> QED
      BY <3>1, JobMoves
  <2> QED
    BY <2>1, <2>3, <2>4
<1> QED
  BY <1>1, <1>2

(* What a finished git operation leaves behind.                             *)
LEMMA GitTypes ==
    ASSUME TInv, gitQueue # <<>>
    PROVE  /\ gitQueue \in Seq(GitOps) /\ GitHead \in GitOps
           /\ Tail(gitQueue) \in Seq(GitOps)
           /\ job \in [Jobs -> Stages]
           /\ GitHead.op = "checkpoint" =>
                GitHead.job \in Jobs /\ job[GitHead.job] = "checkpoint"
<1>1. gitQueue \in Seq(GitOps) /\ job \in [Jobs -> Stages] /\ Waiting(gitQueue, job)
  BY DEF TInv, TurnsTypeOK, GitOps
<1>2. GitHead = gitQueue[1] /\ 1 \in DOMAIN gitQueue
  BY <1>1, HeadTailProperties, LenProperties, EmptySeq DEF GitHead
<1> QED
  BY <1>1, <1>2, HeadTailProperties DEF Waiting

LEMMA CheckpointKeeps == TInv /\ Checkpoint => TInv'
<1> SUFFICES ASSUME TInv, Checkpoint PROVE TInv'
  OBVIOUS
<1> USE DEF Checkpoint, GitOpDone
<1> DEFINE j == GitHead.job
<1>1. /\ gitQueue # <<>> /\ GitHead.op = "checkpoint" /\ gitQueue' = Tail(gitQueue)
      /\ UNCHANGED <<vars, asked, timer, session, open, published, cancelVars, testVars>>
  OBVIOUS
<1>2. PICK stage \in {"ready", "gone"} : job' = [job EXCEPT ![j] = stage]
  OBVIOUS
<1>3. j \in Jobs /\ job[j] = "checkpoint"
  BY <1>1, GitTypes
<1>4. \/ job' = [job EXCEPT ![j] = "ready"] /\ mailbox' = mailbox
      \/ job' = [job EXCEPT ![j] = "gone"] /\ Reported
  <2>1. GitFailed => Reported
    BY DEF GitFailed, Reported, Reports
  <2> QED
    BY <2>1
<1>5. checkpointed' \subseteq 0..(MaxTasks - 1) /\ dirty' \in BOOLEAN
  BY <1>1, GitTypes DEF GitOps, TInv, TurnsTypeOK
<1> HIDE DEF Checkpoint, GitOpDone
<1>6. Waiting(gitQueue', job')
  BY <1>1, <1>2, GitTypes, CheckpointOver DEF TInv, GitHead
<1> HIDE DEF j
<1>7. /\ job' \in [Jobs -> Stages]
      /\ \A k \in Jobs : job'[k] = IF k = j THEN stage ELSE job[k]
  BY <1>1, <1>2, <1>3, GitTypes DEF Stages
<1>8. gitQueue' \in Seq(GitOps)
  BY <1>1, GitTypes
<1>9. mailbox' \in Seq(MailEvents) => TurnsTypeOK'
  BY <1>1, <1>5, <1>7, <1>8
     DEF TInv, TurnsTypeOK, TypeOK, MailEvents, GitOps, vars, cancelVars, testVars
<1> USE DEF InTurn, AtAgent, InFallback
<1>10. TimersFollow' /\ OpenTurnHasOwner'
  BY <1>1, <1>3, <1>7 DEF TInv, TurnsTypeOK, TimersFollow, OpenTurnHasOwner
<1>11. mailbox' = mailbox => \A k \in Jobs : Owes(k) => Owes(k)' \/ Reported
  BY <1>1, <1>3, <1>4, <1>7 DEF Owes
<1>12. \/ mailbox' = mailbox /\ \A k \in Jobs : Owes(k) => Owes(k)'
       \/ Reported
  BY <1>4, <1>11
<1> QED
  BY <1>1, <1>6, <1>9, <1>10, <1>12, BetweenKeeps DEF testVars

LEMMA RollbackKeeps == TInv /\ ResetToCheckpoint => TInv'
<1> SUFFICES ASSUME TInv, ResetToCheckpoint PROVE TInv'
  OBVIOUS
<1> USE DEF ResetToCheckpoint, GitOpDone
<1>1. /\ gitQueue # <<>> /\ GitHead.op = "rollback" /\ gitQueue' = Tail(gitQueue)
      /\ UNCHANGED <<vars, asked, turnVars, cancelVars, checkpointed, testVars>>
  OBVIOUS
<1>2. mailbox' = mailbox \/ Reported
  BY DEF GitFailed, Reported, Reports
<1>3. dirty' \in BOOLEAN
  BY DEF TInv, TurnsTypeOK
<1> HIDE DEF ResetToCheckpoint, GitOpDone
<1>4. Waiting(gitQueue', job')
  BY <1>1, GitTypes, RollbackOver DEF TInv, GitHead, turnVars
<1>5. mailbox' \in Seq(MailEvents) => TurnsTypeOK'
  BY <1>1, <1>3, GitTypes DEF TInv, TurnsTypeOK, TypeOK, MailEvents, GitOps, vars,
     turnVars, cancelVars, testVars
<1>6. TimersFollow' /\ OpenTurnHasOwner'
  BY <1>1 DEF TInv, TimersFollow, OpenTurnHasOwner, InTurn, AtAgent, InFallback, turnVars
<1>7. \A k \in Jobs : Owes(k) => Owes(k)'
  BY <1>1 DEF Owes, turnVars
<1> QED
  BY <1>1, <1>2, <1>4, <1>5, <1>6, <1>7, BetweenKeeps DEF testVars

LEMMA StutterKeeps == TInv /\ UNCHANGED allVars => TInv'
<1> SUFFICES ASSUME TInv, UNCHANGED allVars PROVE TInv'
  OBVIOUS
<1>1. UNCHANGED <<vars, mailbox, asked, turnVars, cancelVars, gitVars, testVars>>
  BY DEF allVars, serverVars
<1> USE DEF turnVars, cancelVars, gitVars, testVars
<1>2. TurnsTypeOK'
  BY <1>1 DEF TInv, TurnsTypeOK, TypeOK, vars
<1>3. Waiting(gitQueue', job') /\ TimersFollow' /\ OpenTurnHasOwner'
  BY <1>1 DEF TInv, TimersFollow, OpenTurnHasOwner, InTurn, AtAgent, InFallback
<1>4. \A j \in Jobs : Owes(j) => Owes(j)'
  BY <1>1 DEF Owes
<1> QED
  BY <1>1, <1>2, <1>3, <1>4, BetweenKeeps

LEMMA TInvStep == TInv /\ [TurnsNext]_allVars => TInv'
<1> SUFFICES ASSUME TInv, [TurnsNext]_allVars PROVE TInv'
  OBVIOUS
<1>1. CASE ThreadStep
  BY <1>1, ProcessEventKeeps, RunTurnKeeps DEF ThreadStep
<1>2. CASE UserStep
  BY <1>2, CommandKeeps, IdleStepsKeep DEF UserStep
<1>3. CASE AgentStep
  BY <1>3, AgentSaysKeeps, IdleStepsKeep, PromptKeeps DEF AgentStep
<1>4. CASE ServerStep
  BY <1>4, SettleFallbackKeeps, TimeoutKeeps, EnsureDoneKeeps, CancelProceedsKeeps,
     IdleStepsKeep, CheckpointKeeps, RollbackKeeps, CollectorKeeps DEF ServerStep, TurnStep
<1>5. CASE UNCHANGED allVars
  BY <1>5, StutterKeeps
<1> QED
  BY <1>1, <1>2, <1>3, <1>4, <1>5 DEF TurnsNext

LEMMA TInductive == TurnsSpec => []TInv
  BY TInit, TInvStep, PTL DEF TurnsSpec

-----------------------------------------------------------------------------
(* The server's state is well typed: queued git operations name tasks of    *)
(* the plan, and the counters of cancellations stay within their bound.     *)
THEOREM TurnsTypeCorrect == TurnsSpec => []TurnsTypeOK
<1>1. TInv => TurnsTypeOK
  BY DEF TInv
<1> QED
  BY <1>1, TInductive, PTL

(* Every turn the pipeline holds open belongs to a job still with the agent *)
(* or in endTurn's fallback, and its timeout is still to come: whatever is  *)
(* cancelled, timed out, answered late or ended twice, something is left    *)
(* that will close it.                                                      *)
THEOREM TurnsHaveOwners == TurnsSpec => []OpenTurnHasOwner
<1>1. TInv => OpenTurnHasOwner
  BY DEF TInv
<1> QED
  BY <1>1, TInductive, PTL

(* No state that says something is at work waits for nobody, for any plan,  *)
(* spec and number of prompts under way: a turn, an event or the collector  *)
(* still owes the machine a report, and a job that waits for its checkpoint *)
(* has one in the queue.                                                    *)
THEOREM NobodyWaitsForNothing == TurnsSpec => []NoOrphanedWait
<1>1. TInv => NoOrphanedWait
  <2> SUFFICES ASSUME TInv PROVE NoOrphanedWait
    OBVIOUS
  <2>1. \A types : Pending(mailbox, types) => mailbox # <<>>
    BY DEF Pending
  <2>2. state \in Busy => \/ mailbox # <<>>
                          \/ \E j \in Jobs : Owes(j)
                          \/ state = "verifying" /\ collecting
    BY <2>1, Zenon DEF TInv, Awaited
  <2>3. \A j \in Jobs : job[j] = "checkpoint" =>
          \E i \in DOMAIN gitQueue : gitQueue[i].job = j
    BY DEF TInv, Waiting
  <2> QED
    BY <2>2, <2>3 DEF NoOrphanedWait
<1> QED
  BY <1>1, TInductive, PTL
-----------------------------------------------------------------------------
(* Up to the first pause.  The comments quoted with the two properties       *)
(* below speak of an objective nobody stopped: a pause leaves the old turn   *)
(* under way, and what it reports moves the state a resume has entered.     *)

UnpausedSpec == TurnsInit /\ [][TurnsNext /\ state # "paused"]_allVars

(* One turn is under way at a time, and it is the one the machine waits for.*)
AllGone == \A j \in Jobs : job[j] = "gone"

Solo ==
    /\ \A j \in Jobs : job[j] # "gone" => j = asked /\ state \in Busy /\ ~collecting
    /\ collecting => state = "verifying"

(* An answer on its way to the machine finds everything else over.          *)
Answers ==
    /\ Len(mailbox) <= 1
    /\ (\E j \in Jobs : job[j] = "ready") => mailbox = <<>>
    /\ mailbox # <<>> /\ Head(mailbox).type # "TURN_FAILED" =>
         /\ AllGone /\ ~collecting
         /\ Head(mailbox).type = "TURN_FINISHED" => Head(mailbox).from = asked

SoloInv == state # "paused" => Solo /\ Answers

-----------------------------------------------------------------------------
(* A macrostep asks for one thing at a time: a prompt, the collector, or a  *)
(* verdict.                                                                 *)

Hot == {"sendPrompt", "runVerification", "reconcileEvidence"}
Calm == {s \in Seq(Effects) : \A i \in DOMAIN s : s[i].do \notin Hot}

PromptAlone ==
    PromptRequested =>
      /\ state' \in Busy
      /\ ~Requested("reconcileEvidence") /\ ~Requested("runVerification")
CollectorAlone ==
    Requested("runVerification") =>
      state' = "verifying" /\ ~Requested("reconcileEvidence")
OneRequest == PromptAlone /\ CollectorAlone

LEMMA CalmFacts ==
    /\ <<>> \in Calm
    /\ \A before \in Calm, effect \in EffectNames \ Hot : before \o <<Do(effect)>> \in Calm
    /\ \A effect \in EffectNames \ Hot : <<Do(effect)>> \in Calm
<1>1. <<>> \in Calm
  BY EmptySeq DEF Calm
<1>2. ASSUME NEW before \in Calm, NEW effect \in EffectNames \ Hot
      PROVE  before \o <<Do(effect)>> \in Calm /\ <<Do(effect)>> \in Calm
  <2>1. Do(effect) \in Effects /\ Do(effect).do = effect
    BY DEF Do, Effects, Phases
  <2>2. before \in Seq(Effects) /\ <<Do(effect)>> \in Seq(Effects)
    BY <2>1 DEF Calm
  <2>3. Len(before) \in Nat /\ DOMAIN before = 1..Len(before)
    BY <2>2, LenProperties
  <2>4. before \o <<Do(effect)>> \in Seq(Effects)
    BY <2>2, ConcatProperties
  <2>5. \A i \in DOMAIN (before \o <<Do(effect)>>) :
          (before \o <<Do(effect)>>)[i].do \notin Hot
    BY <2>1, <2>2, <2>3, <2>4, ConcatProperties, LenProperties DEF Calm
  <2>6. \A i \in DOMAIN <<Do(effect)>> : <<Do(effect)>>[i].do \notin Hot
    BY <2>1
  <2> QED
    BY <2>2, <2>4, <2>5, <2>6 DEF Calm
<1> QED
  BY <1>1, <1>2

LEMMA CalmAsksNothing ==
    ASSUME fx' \in Calm
    PROVE  /\ OneRequest
           /\ ~PromptRequested
           /\ ~Requested("reconcileEvidence") /\ ~Requested("runVerification")
  BY DEF Calm, Hot, Requested, PromptRequested, OneRequest, PromptAlone, CollectorAlone

LEMMA SingleRequest ==
    ASSUME NEW e, fx' = <<e>>
    PROVE  \A effect : Requested(effect) <=> e.do = effect
<1>1. DOMAIN fx' = {1} /\ fx'[1] = e
  OBVIOUS
<1> QED
  BY <1>1 DEF Requested

LEMMA ExecutingAsksOnce ==
    ASSUME NEW before \in Calm, EnterExecuting(before)
    PROVE  OneRequest
<1>1. fx' = before \o <<Do("checkpoint"), TaskPrompt>> /\ state' = "executing"
  BY DEF EnterExecuting, OpenTurn, Enter
<1>2. before \in Seq(Effects)
  BY DEF Calm
<1>3. <<Do("checkpoint"), TaskPrompt>> \in Seq(Effects)
  BY DEF Do, TaskPrompt, SendPrompt, Effects, EffectNames, Phases
<1>4. /\ Len(before) \in Nat /\ DOMAIN before = 1..Len(before)
      /\ DOMAIN fx' = 1..(Len(before) + 2)
      /\ \A i \in 1..Len(before) : fx'[i] = before[i]
      /\ fx'[Len(before) + 1] = Do("checkpoint") /\ fx'[Len(before) + 2] = TaskPrompt
  BY <1>1, <1>2, <1>3, ConcatProperties, LenProperties
<1>5. Do("checkpoint").do = "checkpoint" /\ TaskPrompt.do = "sendPrompt"
  BY DEF Do, TaskPrompt, SendPrompt
<1>6. ASSUME NEW i \in DOMAIN fx'
      PROVE  fx'[i].do \notin {"reconcileEvidence", "runVerification"}
  <2>1. CASE i \in 1..Len(before)
    BY <1>2, <1>4, <2>1 DEF Calm, Hot
  <2>2. CASE i \notin 1..Len(before)
    <3>1. i = Len(before) + 1 \/ i = Len(before) + 2
      BY <1>4, <2>2
    <3> QED
      BY <1>4, <1>5, <3>1
  <2> QED
    BY <2>1, <2>2
<1>7. ~Requested("reconcileEvidence") /\ ~Requested("runVerification")
  BY <1>6 DEF Requested
<1> QED
  BY <1>1, <1>7 DEF OneRequest, PromptAlone, CollectorAlone, Busy

LEMMA ApproveTaskAsksOnce ==
    ASSUME NEW items, NEW before \in Calm, ApproveTaskWith(items, before)
    PROVE  OneRequest
<1>1. CASE EnterExecuting(before \o <<Do("markTaskVerified")>>)
  BY <1>1, CalmFacts, ExecutingAsksOnce DEF EffectNames, Hot
<1>2. CASE fx' = before
  BY <1>2, CalmAsksNothing
<1> QED
  BY <1>1, <1>2 DEF ApproveTaskWith, Enter

LEMMA ReviewAsksOnce ==
    ASSUME NEW items, NEW before \in Calm, EnterAwaitingReview(items, before)
    PROVE  OneRequest
<1>1. CASE ApproveTaskWith(items, before \o <<Do("noteAutoApprovedTask")>>)
  BY <1>1, CalmFacts, ApproveTaskAsksOnce DEF EffectNames, Hot
<1>2. CASE fx' = before
  BY <1>2, CalmAsksNothing
<1> QED
  BY <1>1, <1>2 DEF EnterAwaitingReview, Enter

LEMMA StepAsksOnce ==
    ASSUME Next, state # "paused"
    PROVE  OneRequest
<1>c. ASSUME fx' \in Calm PROVE OneRequest
  BY <1>c, CalmAsksNothing
<1>e. ASSUME fx' = <<>> PROVE OneRequest
  BY <1>e, CalmFacts, <1>c
<1>d. ASSUME NEW effect \in EffectNames \ Hot, fx' = <<Do(effect)>> PROVE OneRequest
  BY <1>d, CalmFacts, <1>c
<1>p. ASSUME NEW phase, fx' = <<SendPrompt(phase)>>, state' \in Busy PROVE OneRequest
  <2>1. SendPrompt(phase).do = "sendPrompt"
    BY DEF SendPrompt
  <2> QED
    BY <1>p, <2>1, SingleRequest DEF OneRequest, PromptAlone, CollectorAlone
<1>v. ASSUME fx' = <<Do("runVerification")>>, state' = "verifying" PROVE OneRequest
  <2>1. Do("runVerification").do = "runVerification"
    BY DEF Do
  <2> QED
    BY <1>v, <2>1, SingleRequest
       DEF OneRequest, PromptAlone, CollectorAlone, PromptRequested
<1>r. ASSUME fx' = <<Do("reconcileEvidence")>> PROVE OneRequest
  <2>1. Do("reconcileEvidence").do = "reconcileEvidence"
    BY DEF Do
  <2> QED
    BY <1>r, <2>1, SingleRequest
       DEF OneRequest, PromptAlone, CollectorAlone, PromptRequested
<1>x. ASSUME NEW before \in Calm, NEW effect \in EffectNames \ Hot,
             EnterExecuting(before \o <<Do(effect)>>) \/ EnterExecuting(<<Do(effect)>>)
      PROVE  OneRequest
  BY <1>x, CalmFacts, ExecutingAsksOnce
<1>k. {"checkpoint", "rollbackToCheckpoint", "recordPlan", "noteAutoApprovedPlan",
       "noteToleratedFailures", "recordDecision", "recordEvidence", "finishObjective"}
      \subseteq EffectNames \ Hot
  BY DEF EffectNames, Hot
<1>1. CASE Start \/ AnswerClarification \/ Decide \/ Revise
  BY <1>1, <1>p DEF Start, AnswerClarification, Decide, Revise, EnterExploring,
     EnterPlanning, EnterProposing, EnterRevising, OpenTurn, Enter, TaskPrompt, Busy
<1>2. CASE ApprovePlan
  BY <1>2, <1>x, <1>k, CalmFacts DEF ApprovePlan, ApprovePlanWith
<1>3. CASE ApproveTask
  BY <1>3, CalmFacts, ApproveTaskAsksOnce DEF ApproveTask
<1>4. CASE Rollback
  BY <1>4, <1>x, <1>k, CalmFacts DEF Rollback, RollBack
<1>5. CASE Pause \/ Cancel \/ SetLowEnergy
  BY <1>5, <1>e DEF Pause, Cancel, SetLowEnergy, EnterSilently
<1>6. CASE Integrate
  BY <1>6, <1>e, <1>d, <1>k DEF Integrate, EnterSilently
<1>7. ASSUME NEW e \in AgentEvents, AgentEvent(e) PROVE OneRequest
  BY <1>7, <1>e, <1>d, <1>k DEF AgentEvent, EffectsOf
<1>8. CASE PlanEvent
  BY <1>8, <1>d, <1>k DEF PlanEvent
<1>9. CASE ExploreFinished \/ ProposeFinished
  BY <1>9, <1>e, <1>p DEF ExploreFinished, ProposeFinished, EnterPlanning, EnterProposing,
     OpenTurn, Enter, EnterSilently, Busy
<1>10. CASE PlanFinished
  <2>1. <<Do("noteAutoApprovedPlan")>> \in Calm
    BY <1>k, CalmFacts
  <2> QED
    BY <1>10, <2>1, <1>x, <1>k, <1>e DEF PlanFinished, ApprovePlanWith, Enter, EnterSilently
<1>11. CASE ExecuteFinished \/ ReviseFinished
  BY <1>11, <1>e, <1>v DEF ExecuteFinished, ReviseFinished, EnterVerifying, OpenTurn, Enter,
     EnterSilently
<1>12. CASE VerifyFinished
  BY <1>12, <1>r DEF VerifyFinished
<1>13. CASE TurnFailed \/ VerificationFailed
  BY <1>13, <1>e DEF TurnFailed, VerificationFailed, EnterSilently
<1>14. ASSUME NEW run, NEW risk, VerificationDone(run, risk) PROVE OneRequest
  BY <1>14, <1>p, <1>r DEF VerificationDone, Judged, Busy
<1>15. ASSUME NEW items, EvidenceResult(items) PROVE OneRequest
  <2>1. <<Do("noteToleratedFailures")>> \in Calm
    BY <1>k, CalmFacts
  <2> QED
    BY <1>15, <2>1, <1>e, ReviewAsksOnce DEF EvidenceResult, EnterSilently
<1>16. ~Resume
  BY DEF Resume
<1> QED
  BY <1>1, <1>2, <1>3, <1>4, <1>5, <1>6, <1>7, <1>8, <1>9, <1>10, <1>11, <1>12,
     <1>13, <1>14, <1>15, <1>16 DEF Next, UserCommand, TurnFinished

(* The table after what the agent, or the collector, adds to it.            *)
LEMMA AgentRows ==
    ASSUME TInv, AgentSays
    PROVE  rows' \in Items
  BY TurnsAssumption DEF AgentSays, TInv, TurnsTypeOK, Items

LEMMA CollectorRows ==
    ASSUME TInv, CollectorDone
    PROVE  rows' \in Items
<1>1. PICK found \in [Commands -> Outcomes] :
        rows' = [i \in Ids |-> IF i \in Commands THEN found[i] ELSE rows[i]]
  BY DEF CollectorDone
<1> QED
  BY <1>1, TurnsAssumption DEF TInv, TurnsTypeOK, Items

-----------------------------------------------------------------------------
(* Macrosteps of an objective nobody paused.                                *)

(* What the effects send: a refusal, a verdict, or nothing.                 *)
LEMMA SentAlone ==
    ASSUME OneRequest
    PROVE  /\ PromptRequested /\ (TaskWork => HasTask') => Sent = <<>>
           /\ PromptRequested /\ ~(TaskWork => HasTask') =>
                Sent = <<TurnEvent("TURN_FAILED", NoJob)>>
           /\ ~PromptRequested /\ Requested("reconcileEvidence") =>
                Sent = <<EvidenceEvent((CurrentEvidence(runId))')>>
           /\ ~PromptRequested /\ ~Requested("reconcileEvidence") => Sent = <<>>
<1>1. PromptRequested => ~Requested("reconcileEvidence")
  BY DEF OneRequest, PromptAlone
<1>2. \A e : <<>> \o <<e>> = <<e>> /\ <<e>> \o <<>> = <<e>>
  OBVIOUS
<1>3. <<>> \o <<>> = <<>>
  OBVIOUS
<1>4. CASE PromptRequested /\ (TaskWork => HasTask')
  <2>1. Sent = <<>> \o <<>>
    BY <1>1, <1>4 DEF Sent
  <2> QED
    BY <1>3, <1>4, <2>1
<1>5. CASE PromptRequested /\ ~(TaskWork => HasTask')
  <2>1. Sent = <<TurnEvent("TURN_FAILED", NoJob)>> \o <<>>
    BY <1>1, <1>5 DEF Sent
  <2> QED
    BY <1>2, <1>5, <2>1
<1>6. CASE ~PromptRequested /\ Requested("reconcileEvidence")
  <2>1. Sent = <<>> \o <<EvidenceEvent((CurrentEvidence(runId))')>>
    BY <1>6 DEF Sent
  <2> QED
    BY <1>2, <1>6, <2>1
<1>7. CASE ~PromptRequested /\ ~Requested("reconcileEvidence")
  <2>1. Sent = <<>> \o <<>>
    BY <1>7 DEF Sent
  <2> QED
    BY <1>3, <1>7, <2>1
<1> QED
  BY <1>4, <1>5, <1>6, <1>7

(* A macrostep that finds no turn under way starts at most one.             *)
LEMMA PerformSolo ==
    ASSUME TInv, AllGone, Perform(<<>>), OneRequest, rows' \in Items,
           collecting' => /\ state' = "verifying" /\ ~PromptRequested
                          /\ ~Requested("reconcileEvidence")
    PROVE  SoloInv'
<1>0. job \in [Jobs -> Stages]
  BY DEF TInv, TurnsTypeOK
<1>1. mailbox' = Sent
  BY SentType, ConcatEmptySeq DEF Perform
<1>2. Len(<<>>) = 0 /\ \A e : Len(<<e>>) = 1 /\ Head(<<e>>) = e
  OBVIOUS
<1>3. CASE PromptRequested /\ (TaskWork => HasTask')
  <2>1. Free # {} /\ asked' = NextJob
        /\ \E stage : job' = [job EXCEPT ![NextJob] = stage]
    BY <1>3 DEF Perform, StartJob
  <2>2. \A j \in Jobs : job'[j] # "gone" => j = asked'
    BY <1>0, <2>1 DEF AllGone
  <2>3. mailbox' = <<>>
    BY <1>1, <1>3, SentAlone
  <2>4. state' \in Busy /\ ~collecting'
    BY <1>3 DEF OneRequest, PromptAlone
  <2> QED
    BY <1>2, <2>2, <2>3, <2>4 DEF SoloInv, Solo, Answers
<1>4. CASE PromptRequested /\ ~(TaskWork => HasTask')
  <2>1. job' = job
    BY <1>4 DEF Perform, StartJob
  <2>2. mailbox' = <<TurnEvent("TURN_FAILED", NoJob)>>
    BY <1>1, <1>4, SentAlone
  <2>3. Len(mailbox') = 1 /\ Head(mailbox').type = "TURN_FAILED"
    BY <1>2, <2>2 DEF TurnEvent
  <2> QED
    BY <1>4, <2>1, <2>3 DEF SoloInv, Solo, Answers, AllGone
<1>5. CASE ~PromptRequested
  <2>1. job' = job
    BY <1>5 DEF Perform, StartJob
  <2>2. CASE Requested("reconcileEvidence")
    <3>1. mailbox' = <<EvidenceEvent((CurrentEvidence(runId))')>>
      BY <1>1, <1>5, <2>2, SentAlone
    <3>2. Len(mailbox') = 1 /\ Head(mailbox').type = "EVIDENCE_RESULT"
      BY <1>2, <3>1 DEF EvidenceEvent
    <3> QED
      BY <2>1, <2>2, <3>2 DEF SoloInv, Solo, Answers, AllGone
  <2>3. CASE ~Requested("reconcileEvidence")
    <3>1. mailbox' = <<>>
      BY <1>1, <1>5, <2>3, SentAlone
    <3> QED
      BY <1>2, <2>1, <3>1 DEF SoloInv, Solo, Answers, AllGone
  <2> QED
    BY <2>2, <2>3
<1> QED
  BY <1>3, <1>4, <1>5

(* A report to the machine, from a job that is over; or nothing new.        *)
LEMMA BetweenSolo ==
    ASSUME TInv, SoloInv, UNCHANGED <<state, asked, collecting>>,
           \A j \in Jobs : job'[j] # "gone" => job[j] # "gone",
           \/ mailbox' = mailbox /\ \A j \in Jobs : job'[j] = "ready" => mailbox = <<>>
           \/ mailbox # <<>> /\ mailbox' = Tail(mailbox)
           \/ /\ mailbox = <<>> /\ \A j \in Jobs : job'[j] # "ready"
              /\ \E type \in Reports, j \in Jobs \cup {NoJob} :
                   /\ Send(TurnEvent(type, j))
                   /\ type = "TURN_FINISHED" =>
                        j \in Jobs /\ job[j] # "gone" /\ job'[j] = "gone"
    PROVE  SoloInv'
<1> SUFFICES ASSUME state # "paused" PROVE Solo' /\ Answers'
  BY DEF SoloInv
<1>0. Solo /\ Answers /\ mailbox \in Seq(MailEvents)
  BY TInvMail DEF SoloInv, MailInv
<1>1. Solo'
  BY <1>0 DEF Solo
<1>2. AllGone => AllGone'
  BY DEF AllGone
<1>3. CASE mailbox' = mailbox /\ \A j \in Jobs : job'[j] = "ready" => mailbox = <<>>
  BY <1>0, <1>1, <1>2, <1>3 DEF Answers
<1>4. CASE mailbox # <<>> /\ mailbox' = Tail(mailbox)
  <2>1. mailbox' = <<>>
    BY <1>0, <1>4 DEF Answers
  <2>2. Len(mailbox') = 0
    BY <2>1
  <2> QED
    BY <1>1, <2>1, <2>2 DEF Answers
<1>5. CASE /\ mailbox = <<>> /\ \A j \in Jobs : job'[j] # "ready"
           /\ \E type \in Reports, j \in Jobs \cup {NoJob} :
                /\ Send(TurnEvent(type, j))
                /\ type = "TURN_FINISHED" =>
                     j \in Jobs /\ job[j] # "gone" /\ job'[j] = "gone"
  <2>1. PICK type \in Reports, j \in Jobs \cup {NoJob} :
          /\ Send(TurnEvent(type, j))
          /\ type = "TURN_FINISHED" =>
               j \in Jobs /\ job[j] # "gone" /\ job'[j] = "gone"
    BY <1>5
  <2> DEFINE e == TurnEvent(type, j)
  <2>2. e.type = type /\ e.from = j
    BY DEF TurnEvent
  <2>3. mailbox' = Append(<<>>, e)
    BY <1>5, <2>1 DEF Send
  <2> HIDE DEF e
  <2>4. Len(mailbox') = 1 /\ Head(mailbox') = e
    BY <2>3
  <2>5. ASSUME type = "TURN_FINISHED" PROVE AllGone' /\ ~collecting' /\ j = asked'
    <3>1. j = asked /\ ~collecting
      BY <1>0, <2>1, <2>5 DEF Solo
    <3>2. \A k \in Jobs : k # j => job[k] = "gone"
      BY <1>0, <3>1 DEF Solo
    <3>3. AllGone'
      BY <2>1, <2>5, <3>2 DEF AllGone
    <3> QED
      BY <3>1, <3>3
  <2> QED
    BY <1>1, <1>5, <2>1, <2>2, <2>4, <2>5 DEF Answers, Reports
<1> QED
  BY <1>3, <1>4, <1>5, <1>1

(* A macrostep in place that asks for nothing.                              *)
LEMMA StaysSolo ==
    ASSUME TInv, SoloInv, mailbox = <<>>, Perform(<<>>), Invoke, state' = state,
           fx' \in Calm, \A j \in Jobs : job[j] # "ready", state # "paused",
           rows' \in Items
    PROVE  SoloInv'
<1>1. /\ ~PromptRequested /\ ~Requested("reconcileEvidence")
      /\ ~Requested("runVerification") /\ OneRequest
  BY CalmAsksNothing
<1>2. job' = job /\ asked' = asked
  BY <1>1 DEF Perform, StartJob
<1>3. mailbox' = mailbox
  BY <1>1, SentAlone, SentType, ConcatEmptySeq DEF Perform
<1>4. collecting \in BOOLEAN /\ collecting' \in BOOLEAN
      /\ (collecting => state = "verifying")
  BY <1>1 DEF TInv, TurnsTypeOK, SoloInv, Solo, Invoke
<1>5. collecting' <=> collecting
  <2>1. collecting' <=> (collecting /\ state' = "verifying")
    BY <1>1, Zenon DEF Invoke
  <2> QED
    BY <1>4, <2>1, Zenon
<1>6. collecting' = collecting
  BY <1>4, <1>5
<1> QED
  BY <1>2, <1>3, <1>6, BetweenSolo

(* A command that moves a machine at rest, or only sets Low Energy Mode.    *)
LEMMA CommandSolo ==
    ASSUME TInv, SoloInv, Command, state # "paused"
    PROVE  SoloInv'
<1>1. /\ Next /\ Perform(<<>>) /\ Invoke /\ mailbox = <<>>
      /\ \A j \in Jobs : job[j] # "ready"
  BY DEF Command, Next, UserCommand, Idle
<1>2. rows' \in Items
  BY NewEpochType DEF Command, TInv, TurnsTypeOK
<1>3. CASE SetLowEnergy
  BY <1>1, <1>2, <1>3, CalmFacts, StaysSolo DEF SetLowEnergy
<1>4. CASE Pause
  BY <1>4 DEF Pause, EnterSilently, SoloInv
<1>5. CASE ~SetLowEnergy /\ ~Pause
  <2>1. state \notin Busy
    BY <1>5 DEF Command, Start, AnswerClarification, Decide, ApprovePlan, ApproveTask,
       Revise, Rollback, Resume, Busy
  <2>2. AllGone /\ ~collecting
    BY <2>1 DEF SoloInv, Solo, AllGone, Busy
  <2>3. OneRequest
    BY <1>1, StepAsksOnce
  <2>4. collecting' => Requested("runVerification")
    BY <1>1, <2>2, Zenon DEF Invoke
  <2> QED
    BY <1>1, <1>2, <2>2, <2>3, <2>4, PerformSolo
       DEF OneRequest, CollectorAlone, PromptAlone
<1> QED
  BY <1>3, <1>4, <1>5

LEMMA AgentSaysSolo ==
    ASSUME TInv, SoloInv, AgentSays, state # "paused"
    PROVE  SoloInv'
<1>1. /\ Perform(<<>>) /\ Invoke /\ mailbox = <<>>
      /\ \A j \in Jobs : job[j] # "ready"
  BY DEF AgentSays, Idle
<1>2. rows' \in Items
  BY AgentRows
<1>3. fx' \in Calm /\ state' = state
  <2>1. \A effect \in {"recordDecision", "recordEvidence", "recordPlan"} :
          <<Do(effect)>> \in Calm
    BY CalmFacts DEF EffectNames, Hot
  <2>2. <<>> \in Calm
    BY CalmFacts
  <2> QED
    BY <2>1, <2>2 DEF AgentSays, AgentEvent, PlanEvent, EffectsOf
<1> QED
  BY <1>1, <1>2, <1>3, StaysSolo

LEMMA CollectorSolo ==
    ASSUME TInv, SoloInv, CollectorDone \/ CollectorFails, state # "paused"
    PROVE  SoloInv'
<1>1. CASE CollectorFails
  BY <1>1 DEF CollectorFails, VerificationFailed, EnterSilently, SoloInv
<1>2. CASE CollectorDone
  <2>1. /\ collecting /\ ~collecting' /\ Perform(<<>>)
        /\ \E run \in Runs, risk \in {"low", "high"} : VerificationDone(run, risk)
    BY <1>2 DEF CollectorDone
  <2>2. AllGone
    BY <2>1 DEF SoloInv, Solo, AllGone
  <2>3. OneRequest
    BY <2>1, StepAsksOnce DEF Next
  <2>4. rows' \in Items
    BY <1>2, CollectorRows
  <2> QED
    BY <2>1, <2>2, <2>3, <2>4, PerformSolo
<1> QED
  BY <1>1, <1>2

(* The machine takes the one event there is, with nothing else under way.   *)
LEMMA ProcessSolo ==
    ASSUME TInv, SoloInv, ProcessEvent, state # "paused"
    PROVE  SoloInv'
<1> DEFINE e == Head(mailbox)
<1>1. /\ mailbox # <<>> /\ \A j \in Jobs : job[j] # "ready"
      /\ mailbox \in Seq(MailEvents)
  BY TInvMail DEF ProcessEvent, MailInv
<1>2. CASE /\ mailbox' = Tail(mailbox)
           /\ UNCHANGED <<vars, asked, turnVars, cancelVars, gitVars, testVars>>
  BY <1>1, <1>2, BetweenSolo DEF vars, turnVars, testVars
<1>3. CASE Handle(e) /\ NewEpoch /\ Perform(Tail(mailbox)) /\ Invoke
  <2>1. Tail(mailbox) = <<>>
    BY <1>1 DEF SoloInv, Answers
  <2>2. rows' \in Items
    BY <1>3, NewEpochType DEF TInv, TurnsTypeOK
  <2>3. CASE e.type = "TURN_FAILED"
    <3>1. state' = "paused"
      BY <1>3, <2>3 DEF Handle, TurnFailed, EnterSilently
    <3> QED
      BY <3>1 DEF SoloInv
  <2>4. CASE e.type # "TURN_FAILED"
    <3>1. AllGone /\ ~collecting
      BY <1>1, <2>4 DEF SoloInv, Answers
    <3>2. Next
      BY <1>1, <1>3, TInvMail, HandleIsNext
    <3>3. OneRequest
      BY <3>2, StepAsksOnce
    <3>4. collecting' => Requested("runVerification")
      BY <1>3, <3>1, Zenon DEF Invoke
    <3>5. Perform(<<>>)
      BY <1>3, <2>1
    <3> QED
      BY <2>2, <3>1, <3>3, <3>4, <3>5, PerformSolo
         DEF OneRequest, CollectorAlone, PromptAlone
  <2> QED
    BY <2>3, <2>4
<1> QED
  BY <1>2, <1>3 DEF ProcessEvent

-----------------------------------------------------------------------------
(* Steps between two macrosteps.                                            *)

(* One job moves on, and may report to an empty mailbox.                    *)
LEMMA JobSolo ==
    ASSUME TInv, SoloInv, mailbox = <<>>, UNCHANGED <<state, asked, collecting>>,
           NEW j \in Jobs, job[j] # "gone",
           NEW stage, job' = [job EXCEPT ![j] = stage],
           \A k \in Jobs : k # j => job[k] # "ready",
           \/ mailbox' = mailbox
           \/ /\ stage # "ready"
              /\ \E type \in Reports, k \in Jobs \cup {NoJob} :
                   /\ Send(TurnEvent(type, k))
                   /\ type = "TURN_FINISHED" => k = j /\ stage = "gone"
    PROVE  SoloInv'
<1>1. /\ job \in [Jobs -> Stages]
      /\ \A k \in Jobs : job'[k] = IF k = j THEN stage ELSE job[k]
  BY DEF TInv, TurnsTypeOK
<1>2. \A k \in Jobs : job'[k] # "gone" => job[k] # "gone"
  BY <1>1
<1>3. CASE mailbox' = mailbox
  BY <1>2, <1>3, BetweenSolo
<1>4. CASE /\ stage # "ready"
           /\ \E type \in Reports, k \in Jobs \cup {NoJob} :
                /\ Send(TurnEvent(type, k))
                /\ type = "TURN_FINISHED" => k = j /\ stage = "gone"
  <2>1. \A k \in Jobs : job'[k] # "ready"
    BY <1>1, <1>4
  <2>2. \E type \in Reports, k \in Jobs \cup {NoJob} :
          /\ Send(TurnEvent(type, k))
          /\ type = "TURN_FINISHED" =>
               k \in Jobs /\ job[k] # "gone" /\ job'[k] = "gone"
    BY <1>1, <1>4
  <2> QED
    BY <1>2, <2>1, <2>2, BetweenSolo
<1> QED
  BY <1>3, <1>4

(* What such a step may send, in the form JobSolo asks for.                 *)
LEMMA ReportedFailure ==
    ASSUME NEW j \in Jobs, NEW k \in Jobs \cup {NoJob}, NEW stage,
           Send(TurnEvent("TURN_FAILED", k))
    PROVE  \E type \in Reports, i \in Jobs \cup {NoJob} :
             /\ Send(TurnEvent(type, i))
             /\ type = "TURN_FINISHED" => i = j /\ stage = "gone"
<1>1. "TURN_FAILED" \in Reports
  BY DEF Reports
<1> QED
  BY <1>1

LEMMA RunTurnSolo ==
    ASSUME TInv, SoloInv, NEW j \in Jobs, RunTurn(j), state # "paused"
    PROVE  SoloInv'
<1>1. /\ job[j] = "ready" /\ UNCHANGED <<state, asked, collecting>>
  BY DEF RunTurn, vars, testVars
<1>2. mailbox = <<>> /\ \A k \in Jobs : k # j => job[k] # "ready"
  BY <1>1 DEF SoloInv, Solo, Answers
<1>3. CASE job' = [job EXCEPT ![j] = "gone"] /\ Send(TurnEvent("TURN_FAILED", j))
  BY <1>1, <1>2, <1>3, ReportedFailure, JobSolo
<1>4. ASSUME NEW stage, job' = [job EXCEPT ![j] = stage], UNCHANGED mailbox
      PROVE  SoloInv'
  BY <1>1, <1>2, <1>4, JobSolo
<1> QED
  BY <1>3, <1>4 DEF RunTurn

LEMMA EnsureDoneSolo ==
    ASSUME TInv, SoloInv, NEW j \in Jobs, EnsureDone(j), state # "paused"
    PROVE  SoloInv'
<1>1. /\ job[j] = "ensure" /\ UNCHANGED <<state, asked, collecting>>
      /\ mailbox = <<>> /\ \A k \in Jobs : job[k] # "ready"
  BY DEF EnsureDone, Idle, vars, testVars
<1>2. CASE job' = [job EXCEPT ![j] = "gone"] /\ Send(TurnEvent("TURN_FAILED", j))
  BY <1>1, <1>2, ReportedFailure, JobSolo
<1>3. CASE job' = [job EXCEPT ![j] = "ready"] /\ UNCHANGED mailbox
  BY <1>1, <1>3, JobSolo
<1> QED
  BY <1>2, <1>3 DEF EnsureDone

LEMMA SettleOverSolo ==
    ASSUME TInv, SoloInv, NEW j \in Jobs, job[j] # "gone", Idle,
           UNCHANGED <<state, asked, collecting>>,
           NEW report \in Reports, SettleOver(j, report)
    PROVE  SoloInv'
<1>1. mailbox = <<>> /\ \A k \in Jobs : job[k] # "ready"
  BY DEF Idle
<1>2. CASE Send(TurnEvent(report, j)) /\ job' = [job EXCEPT ![j] = "gone"]
  <2>1. \E type \in Reports, k \in Jobs \cup {NoJob} :
          /\ Send(TurnEvent(type, k))
          /\ type = "TURN_FINISHED" => k = j /\ "gone" = "gone"
    BY <1>2
  <2> QED
    BY <1>1, <1>2, <2>1, JobSolo
<1>3. ASSUME NEW stage, job' = [job EXCEPT ![j] = stage], UNCHANGED mailbox
      PROVE  SoloInv'
  BY <1>1, <1>3, JobSolo
<1> QED
  BY <1>2, <1>3 DEF SettleOver

LEMMA EndSettleSolo ==
    ASSUME TInv, SoloInv, NEW j \in Jobs, AtAgent(j), Idle,
           UNCHANGED <<state, asked, collecting>>,
           NEW report \in Reports, NEW awaiting, EndSettle(j, report, awaiting)
    PROVE  SoloInv'
<1>1. job[j] # "gone" /\ mailbox = <<>> /\ \A k \in Jobs : job[k] # "ready"
  BY DEF Idle, AtAgent
<1>2. CASE SettleOver(j, report)
  BY <1>1, <1>2, SettleOverSolo
<1>3. CASE job' = [job EXCEPT ![j] = awaiting] /\ UNCHANGED mailbox
  BY <1>1, <1>3, JobSolo
<1> QED
  BY <1>2, <1>3 DEF EndSettle

(* The steps of the turn under way.                                         *)
LEMMA TurnSolo ==
    ASSUME TInv, SoloInv, NEW j \in Jobs, state # "paused",
           \/ PromptReturns(j) \/ PromptFails(j) \/ RepairEnds(j) \/ TurnStep(j)
    PROVE  SoloInv'
<1> USE DEF vars, testVars, Reports, AtAgent
<1>1. CASE PromptFails(j) \/ RepairEnds(j)
  BY <1>1, EndSettleSolo DEF PromptFails, RepairEnds
<1>2. CASE PromptReturns(j)
  <2>1. CASE EndSettle(j, "TURN_FINISHED", "endingOk")
    BY <1>2, <2>1, EndSettleSolo DEF PromptReturns
  <2>2. CASE job' = [job EXCEPT ![j] = "repair"] /\ UNCHANGED mailbox
    BY <1>2, <2>2, JobSolo DEF PromptReturns, Idle
  <2> QED
    BY <1>2, <2>1, <2>2 DEF PromptReturns
<1>3. CASE SettleFallbackDone(j)
  BY <1>3, SettleOverSolo DEF SettleFallbackDone
<1>4. CASE Timeout(j) \/ TimeoutFallbackDone(j)
  <2>1. /\ mailbox = <<>> /\ \A k \in Jobs : job[k] # "ready"
        /\ UNCHANGED <<state, asked, collecting>>
    BY <1>4 DEF Timeout, TimeoutFallbackDone, Idle
  <2>2. job[j] # "gone" /\ job = [job EXCEPT ![j] = job[j]]
    BY <1>4, TurnFacts DEF Timeout, TimeoutFallbackDone
  <2>3. PICK stage \in {job[j], "gone"} : job' = [job EXCEPT ![j] = stage]
    BY <1>4, <2>2 DEF Timeout, TimeoutFallbackDone
  <2>4. mailbox' = mailbox \/ Send(TurnEvent("TURN_FAILED", j))
    BY <1>4 DEF Timeout, TimeoutFallbackDone, TimedOut
  <2>5. CASE Send(TurnEvent("TURN_FAILED", j))
    BY <2>1, <2>2, <2>3, <2>5, ReportedFailure, JobSolo
  <2>6. CASE mailbox' = mailbox
    BY <2>1, <2>2, <2>3, <2>6, JobSolo
  <2> QED
    BY <2>4, <2>5, <2>6
<1> QED
  BY <1>1, <1>2, <1>3, <1>4 DEF TurnStep

LEMMA GitSolo ==
    ASSUME TInv, SoloInv, Checkpoint \/ ResetToCheckpoint, state # "paused"
    PROVE  SoloInv'
<1>1. /\ gitQueue # <<>> /\ mailbox = <<>> /\ \A k \in Jobs : job[k] # "ready"
      /\ UNCHANGED <<state, asked, collecting>>
  BY DEF Checkpoint, ResetToCheckpoint, GitOpDone, Idle, vars, testVars
<1>2. CASE Checkpoint
  <2>1. GitHead.job \in Jobs /\ job[GitHead.job] = "checkpoint"
    BY <1>1, <1>2, GitTypes DEF Checkpoint, GitOpDone
  <2>2. CASE job' = [job EXCEPT ![GitHead.job] = "ready"] /\ UNCHANGED mailbox
    BY <1>1, <2>1, <2>2, JobSolo
  <2>3. CASE job' = [job EXCEPT ![GitHead.job] = "gone"] /\ GitFailed
    BY <1>1, <2>1, <2>3, ReportedFailure, JobSolo DEF GitFailed
  <2> QED
    BY <1>2, <2>2, <2>3 DEF Checkpoint
<1>3. CASE ResetToCheckpoint
  <2>1. job' = job
    BY <1>3 DEF ResetToCheckpoint, turnVars
  <2>2. CASE GitFailed
    <3>1. \E type \in Reports, k \in Jobs \cup {NoJob} :
            /\ Send(TurnEvent(type, k))
            /\ type = "TURN_FINISHED" =>
                 k \in Jobs /\ job[k] # "gone" /\ job'[k] = "gone"
      BY <2>2 DEF GitFailed, Reports
    <3> QED
      BY <1>1, <2>1, <3>1, BetweenSolo
  <2>3. CASE UNCHANGED mailbox
    BY <1>1, <2>1, <2>3, BetweenSolo
  <2> QED
    BY <1>3, <2>2, <2>3 DEF ResetToCheckpoint
<1> QED
  BY <1>2, <1>3

(* Steps that leave the jobs, the mailbox and the machine as they are.      *)
LEMMA AsideSolo ==
    ASSUME TInv, SoloInv, state # "paused",
           \/ CancelTurn \/ TickCheck \/ AgentWrites \/ CancelProceeds
           \/ CancelFallbackDone \/ UNCHANGED allVars
    PROVE  SoloInv'
<1>1. UNCHANGED <<state, asked, collecting, job, mailbox>>
  BY DEF CancelTurn, TickCheck, AgentWrites, CancelProceeds, CancelFallbackDone,
     allVars, serverVars, vars, turnVars, testVars
<1>2. \A j \in Jobs : job'[j] = "ready" => mailbox = <<>>
  BY <1>1 DEF SoloInv, Answers
<1> QED
  BY <1>1, <1>2, BetweenSolo

-----------------------------------------------------------------------------
LEMMA SoloInit == TurnsInit => SoloInv
<1>1. Len(<<>>) = 0
  OBVIOUS
<1> QED
  BY <1>1 DEF TurnsInit, ServerInit, SoloInv, Solo, Answers

LEMMA SoloStep ==
    TInv /\ SoloInv /\ [TurnsNext /\ state # "paused"]_allVars => SoloInv'
<1> SUFFICES ASSUME TInv, SoloInv, [TurnsNext /\ state # "paused"]_allVars
             PROVE  SoloInv'
  OBVIOUS
<1>1. CASE UNCHANGED allVars /\ state = "paused"
  BY <1>1 DEF allVars, vars, SoloInv
<1>2. CASE UNCHANGED allVars /\ state # "paused"
  BY <1>2, AsideSolo
<1>3. CASE TurnsNext /\ state # "paused"
  <2> USE <1>3
  <2>1. CASE ThreadStep
    BY <2>1, ProcessSolo, RunTurnSolo DEF ThreadStep
  <2>2. CASE UserStep
    BY <2>2, CommandSolo, AsideSolo DEF UserStep
  <2>3. CASE AgentStep
    BY <2>3, AgentSaysSolo, AsideSolo, TurnSolo DEF AgentStep
  <2>4. CASE ServerStep
    BY <2>4, TurnSolo, EnsureDoneSolo, AsideSolo, GitSolo, CollectorSolo
       DEF ServerStep
  <2> QED
    BY <2>1, <2>2, <2>3, <2>4 DEF TurnsNext
<1> QED
  BY <1>1, <1>2, <1>3

LEMMA SoloInductive == UnpausedSpec => [](TInv /\ SoloInv)
<1>1. [TurnsNext /\ state # "paused"]_allVars => [TurnsNext]_allVars
  OBVIOUS
<1>2. TInv /\ SoloInv /\ [TurnsNext /\ state # "paused"]_allVars => (TInv /\ SoloInv)'
  BY <1>1, TInvStep, SoloStep
<1>3. TurnsInit => TInv /\ SoloInv
  BY TInit, SoloInit
<1> QED
  BY <1>2, <1>3, PTL DEF UnpausedSpec

(* A turn does not advance the machine "on behalf of a turn it never asked  *)
(* for" (runner.ts): until the user or a failure first pauses the objective,*)
(* a TURN_FINISHED that moves the machine is that of the job its present    *)
(* state asked for, for every plan, spec and number of prompts and whatever *)
(* is cancelled, timed out or answered late.                                *)
THEOREM OwnTurnMoves == UnpausedSpec => TurnsAdvanceTheirOwnState
<1> DEFINE Own == mailbox # <<>> /\ Head(mailbox).type = "TURN_FINISHED" /\ state' # state
                  => Head(mailbox).from = asked
<1>1. SoloInv /\ [TurnsNext /\ state # "paused"]_allVars => [Own]_allVars
  BY DEF SoloInv, Answers
<1> QED
  BY <1>1, SoloInductive, PTL DEF UnpausedSpec, TurnsAdvanceTheirOwnState

(* A verdict is taken on the answers of its own run: until the first pause  *)
(* no event moves verifying to review while the collector that this         *)
(* verification started is still running (effects.ts, runVerification).     *)
THEOREM RunIsAwaited == UnpausedSpec => VerdictAwaitsItsRun
<1> DEFINE Fresh == state = "verifying" /\ state' = "awaitingReview" => ~collecting
<1>1. TInv /\ SoloInv /\ [TurnsNext /\ state # "paused"]_allVars => [Fresh]_allVars
  <2> SUFFICES ASSUME TInv, SoloInv, TurnsNext, state = "verifying",
                      state' = "awaitingReview"
               PROVE  ~collecting
    OBVIOUS
  <2>0. state' # state
    OBVIOUS
  <2>1. CASE ProcessEvent
    <3>1. mailbox # <<>> /\ Handle(Head(mailbox))
      BY <2>0, <2>1 DEF ProcessEvent, vars
    <3>2. Head(mailbox).type # "TURN_FAILED"
      BY <3>1, ReportsNeverRevise DEF Handle
    <3> QED
      BY <3>1, <3>2 DEF SoloInv, Answers
  <2>2. ~Command
    BY DEF Command, Start, AnswerClarification, Decide, ApprovePlan, ApproveTask,
       Revise, Rollback, Pause, Resume, SetLowEnergy, EnterSilently
  <2>3. ~AgentSays
    BY <2>0 DEF AgentSays, AgentEvent, PlanEvent
  <2>4. ~CollectorDone /\ ~CollectorFails
    BY VerificationAsks DEF CollectorDone, CollectorFails, VerificationFailed,
       EnterSilently
  <2>5. ~\E j \in Jobs : RunTurn(j) \/ PromptReturns(j) \/ PromptFails(j)
               \/ RepairEnds(j) \/ TurnStep(j) \/ EnsureDone(j)
    BY <2>0 DEF RunTurn, PromptReturns, PromptFails, RepairEnds, TurnStep,
       SettleFallbackDone, Timeout, TimeoutFallbackDone, EnsureDone, vars
  <2>6. ~(CancelTurn \/ TickCheck \/ AgentWrites \/ CancelProceeds
          \/ CancelFallbackDone \/ Checkpoint \/ ResetToCheckpoint)
    BY <2>0 DEF CancelTurn, TickCheck, AgentWrites, CancelProceeds,
       CancelFallbackDone, Checkpoint, ResetToCheckpoint, vars
  <2> QED
    BY <2>1, <2>2, <2>3, <2>4, <2>5, <2>6
       DEF TurnsNext, ThreadStep, UserStep, AgentStep, ServerStep
<1> QED
  BY <1>1, SoloInductive, PTL DEF UnpausedSpec, VerdictAwaitsItsRun
=============================================================================
