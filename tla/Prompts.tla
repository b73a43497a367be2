------------------------------- MODULE Prompts -------------------------------
(***************************************************************************)
(* What the agent has been told.  Workflow's machine beside the prompts it *)
(* asks for (workflow/effects.ts), the decision and the answers they must  *)
(* carry, and agent sessions that are lost and started again at any time,  *)
(* by the machine's next prompt or by one the user types                   *)
(* (http/routes/objectives.ts).                                            *)
(*                                                                         *)
(* A prompt is the set of facts it states - the goal, the answers to       *)
(* clarifications, the option chosen, what the mode asks for, the project's*)
(* memory, what the commands found - and a session knows what its prompts  *)
(* stated, what it noted itself, and what has not changed since.  Task and *)
(* plan are left out, and of the memory what other objectives note         *)
(* meanwhile and the cap of five notes a kind.  A turn closes in one step  *)
(* here: what awaits on the way, Turns has.                                *)
(*                                                                         *)
(* A faulty form stands next to two definitions, as in Workflow.           *)
(***************************************************************************)
EXTENDS Workflow

CONSTANTS
    Jobs,       \* bound on the sendPromptEffect calls under way together
    NoJob,      \* no turn is open
    Hand,       \* the open turn is that of a prompt typed by hand
    Outcomes    \* the statuses a command or a check may come out with

ASSUME PromptsAssumption ==
    /\ Jobs \subseteq Nat /\ IsFiniteSet(Jobs)
    /\ NoJob \notin Jobs /\ Hand \notin Jobs \cup {NoJob}
    /\ Outcomes \subseteq Status

VARIABLES
    row,         \* the decisions row: none, open, or chosen
    pending,     \* pendingDecisionId: none, the row, or one that is gone
    question,    \* pendingClarification is not null
    noted,       \* the project's memory holds a note
    job,         \* the sendPromptEffect calls
    live,        \* agents.get() finds a session
    open,        \* whose turn its pipeline holds open
    knows,       \* what the session has been told that still holds
    byHand,      \* the session's first prompt was typed by hand
    hand,        \* the prompt route awaits the session
    collecting   \* the invoked collector is running

agentVars == <<live, open, knows, byHand>>
factVars == <<row, pending, question, noted>>
allVars == <<vars, factVars, job, agentVars, hand, collecting>>

Busy == {"exploring", "proposing", "planning", "executing", "revising", "verifying"}

NoPrompt == [step |-> "none", phase |-> "none", says |-> {}, decision |-> "none"]
AtAgent == [NoPrompt EXCEPT !.step = "turn"]
At(j, step) == job[j].step = step
Free(now) == {j \in Jobs : now[j].step = "none"}

-----------------------------------------------------------------------------
(* What a prompt says.                                                      *)

(* The line about the decision, if its row is there and was decided.        *)
DecisionLine(id) == IF id = "row" /\ row = "chosen" THEN {"choice"} ELSE {}

(* Every question answered; what `p` was begun with may be outdated.        *)
ClarificationsBlock(p) == p.says \cap {"answers"}

(* Work as usual needs no explaining.                                       *)
ModeNote == IF mode = "standard" THEN {} ELSE {"mode"}

(* The newest notes, if there are any.                                      *)
MemoryBlock == IF noted THEN {"memory"} ELSE {}

(* What the run the context names found.                                    *)
CommandResults == IF runId = NoRun THEN {} ELSE {"results"}

(* goalText, and what the phase folds into it.                              *)
GoalWithContext(parts) == {"goal"} \cup parts

Vars(p) ==
    CASE p.phase = "explore" ->
             GoalWithContext(ClarificationsBlock(p)) \cup MemoryBlock
      [] p.phase = "propose" -> GoalWithContext(ModeNote)
      [] p.phase = "plan" ->
             GoalWithContext(DecisionLine(p.decision) \cup ModeNote)
      [] p.phase = "verify" -> CommandResults
      [] OTHER -> {}

(* The preface of a new session's first prompt.                             *)
ObjectiveBrief(p) ==
    GoalWithContext(ModeNote \cup ClarificationsBlock(p)
                    \cup DecisionLine(p.decision) \cup MemoryBlock)

FreshTask(p) == ~live /\ p.phase = "execute-task"
Fresh(p) == ~live /\ p.phase # "explore"

Says(p) == Vars(p) \cup IF Fresh(p) THEN ObjectiveBrief(p) ELSE {}

-----------------------------------------------------------------------------
(* The machine's steps, and the effects that matter here.                   *)

Requested(effect) == \E i \in DOMAIN fx' : fx'[i].do = effect
PromptIndex == CHOOSE i \in DOMAIN fx' : fx'[i].do = "sendPrompt"
NoTaskVars == state' \in {"executing", "revising"} /\ ~HasTask'

(* sendPromptEffect begins with the context as it is: a task's prompt waits *)
(* for its checkpoint, and one without a task is refused.                   *)
Begun ==
    [step |-> CASE NoTaskVars -> "refused"
                [] ~NoTaskVars /\ Requested("checkpoint") -> "checkpoint"
                [] OTHER -> "ready",
     phase |-> fx'[PromptIndex].phase, says |-> {"answers"},
     decision |-> pending']

StartPrompt(now) ==
    IF Requested("sendPrompt")
    THEN \E j \in Free(now) :
           /\ \A k \in Free(now) : j <= k
           /\ job' = [now EXCEPT ![j] = Begun]
    ELSE job' = now

Invoke == collecting' = (Requested("runVerification")
                         \/ (collecting /\ state' = "verifying"))

Perform(now) == StartPrompt(now) /\ Invoke

(* The thread is idle: no prompt is about to be sent or to be reported, and *)
(* no EVIDENCE_RESULT waits in the mailbox.                                 *)
Idle ==
    /\ \A j \in Jobs : job[j].step \notin {"ready", "refused"}
    /\ \A i \in DOMAIN fx : fx[i] # Do("reconcileEvidence")

(* A fact that changes is no longer known, nor said by what was begun.      *)
Outdated(fact) ==
    /\ knows' = knows \ {fact}
    /\ UNCHANGED <<live, open, byHand>>
Withdrawn(fact) == [j \in Jobs |-> [job[j] EXCEPT !.says = @ \ {fact}]]

-----------------------------------------------------------------------------
(* The user.                                                                *)

Command ==
    /\ Idle
    /\ \/ Start \/ ApprovePlan \/ ApproveTask \/ Revise \/ Rollback \/ Pause
       \/ Resume
    /\ UNCHANGED <<factVars, agentVars, hand>>
    /\ Perform(job)

Answer ==
    /\ Idle
    /\ AnswerClarification
    /\ question' = FALSE
    /\ UNCHANGED <<row, pending, noted, hand>>
    /\ IF question THEN Outdated("answers") /\ Perform(Withdrawn("answers"))
                   ELSE UNCHANGED agentVars /\ Perform(job)

(* The command names a decision and an option; a screen may be behind, and  *)
(* name one that was since replaced.                                        *)
AnyDecision(id) == TRUE
KnownDecision(id) == id = "row" /\ row # "none"

DecideOn(id) ==
    /\ Idle
    /\ KnownDecision(id)
    /\ Decide
    /\ pending' = id
    /\ row' = IF id = "row" THEN "chosen" ELSE row
    /\ Outdated("choice")
    /\ Perform(job)
    /\ UNCHANGED <<question, noted, hand>>

(* A prompt typed by hand: valid, or refused before a session is started.   *)
HandPrompt ==
    /\ Idle
    /\ IF live
       THEN open = NoJob /\ open' = Hand /\ UNCHANGED hand
       ELSE hand' = TRUE /\ UNCHANGED open
    /\ UNCHANGED <<vars, factVars, job, live, knows, byHand, collecting>>

-----------------------------------------------------------------------------
(* The agent.                                                               *)

(* recordDecision replaces whatever row there was, or fails.                *)
DecisionRecorded ==
    /\ row' = "open"
    /\ pending' = IF pending = "row" THEN "gone" ELSE pending
    /\ Outdated("choice")
    /\ job' = [j \in Jobs |->
                 [job[j] EXCEPT !.decision = IF @ = "row" THEN "gone" ELSE @]]

AgentSays ==
    /\ Idle
    /\ open # NoJob
    /\ \/ PlanEvent /\ UNCHANGED question
       \/ \E e \in AgentEvents \ {"plan"} :
            AgentEvent(e) /\ question' = (question \/ e = "clarification")
    /\ \/ Requested("recordDecision") /\ DecisionRecorded
       \/ UNCHANGED <<row, pending, job, agentVars>>
    /\ UNCHANGED <<noted, hand, collecting>>

(* A note is the project's, and no event of the machine's: it refreshes the *)
(* one of its headline, or is added.                                        *)
RecordMemoryNote ==
    /\ Idle
    /\ open # NoJob
    /\ noted' = TRUE
    /\ knows' = knows \cup {"memory"}
    /\ UNCHANGED <<vars, row, pending, question, job, live, open, byHand, hand,
                   collecting>>

(* A prompt that is cancelled, by a pause or by hand, loses its turn first. *)
TurnCloses ==
    /\ Idle
    /\ open # NoJob
    /\ open' = NoJob
    /\ UNCHANGED <<vars, factVars, job, live, knows, byHand, hand, collecting>>

(* The adapter exits, is stopped, or goes with a restarted server's parent. *)
SessionLost ==
    /\ Idle
    /\ live /\ live' = FALSE
    /\ open' = NoJob
    /\ knows' = {}
    /\ byHand' = FALSE
    /\ UNCHANGED <<vars, factVars, job, hand, collecting>>

-----------------------------------------------------------------------------
(* sendPromptEffect, from its checkpoint to its report.                     *)

GoTo(j, step) == job' = [job EXCEPT ![j].step = step]

(* A failed checkpoint reports for itself, and sends no prompt.             *)
CheckpointDone(j) ==
    /\ Idle
    /\ At(j, "checkpoint")
    /\ GoTo(j, "ready") \/ GoTo(j, "refused")
    /\ UNCHANGED <<vars, factVars, agentVars, hand, collecting>>

(* The text is settled before a session is awaited; it is what the job      *)
(* says from here on.                                                       *)
Proceed(j) ==
    /\ At(j, "ready")
    /\ IF live
       THEN IF open # NoJob
            THEN GoTo(j, "refused") /\ UNCHANGED agentVars
            ELSE /\ job' = [job EXCEPT ![j] = AtAgent]
                 /\ open' = j
                 /\ knows' = knows \cup Says(job[j])
                 /\ UNCHANGED <<live, byHand>>
       ELSE /\ job' = [job EXCEPT ![j].step = "ensure", ![j].says = Says(job[j])]
            /\ UNCHANGED agentVars
    /\ UNCHANGED <<vars, factVars, hand, collecting>>

(* Whoever waits for the session shares one start.  The first to go on      *)
(* opens its turn, and the others find it open.                             *)
Waiting == {j \in Jobs : At(j, "ensure")} \cup IF hand THEN {Hand} ELSE {}

Resolved(first) ==
    [j \in Jobs |->
        CASE At(j, "ensure") /\ j = first -> AtAgent
          [] At(j, "ensure") /\ j # first -> [NoPrompt EXCEPT !.step = "refused"]
          [] ~At(j, "ensure") -> job[j]]

(* What the user typed counts for nothing told.                             *)
SessionStarts ==
    /\ Idle
    /\ ~live /\ live' = TRUE
    /\ \E first \in Waiting :
         /\ open' = first
         /\ job' = Resolved(first)
         /\ knows' = IF first = Hand THEN {} ELSE job[first].says
         /\ byHand' = (first = Hand)
    /\ hand' = FALSE
    /\ UNCHANGED <<vars, factVars, collecting>>

StartFails ==
    /\ Idle
    /\ ~live /\ Waiting # {}
    /\ job' = Resolved(NoJob)
    /\ hand' = FALSE
    /\ UNCHANGED <<vars, factVars, agentVars, collecting>>

(* What the machine makes of the report, where it takes it.                 *)
Report(j, finished) ==
    LET rest == [job EXCEPT ![j] = NoPrompt]
    IN \/ /\ IF finished THEN TurnFinished ELSE TurnFailed
          /\ Perform(rest)
       \/ /\ IF finished THEN state \notin Busy ELSE ~Active
          /\ job' = rest
          /\ UNCHANGED <<vars, collecting>>

Refused(j) ==
    /\ At(j, "refused")
    /\ UNCHANGED <<factVars, agentVars, hand>>
    /\ Report(j, FALSE)

PromptReturns(j) ==
    /\ Idle
    /\ At(j, "turn")
    /\ open' = IF open = j THEN NoJob ELSE open
    /\ UNCHANGED <<factVars, live, knows, byHand, hand>>
    /\ \E finished \in BOOLEAN : Report(j, finished)

-----------------------------------------------------------------------------
(* The collector, and the verdict.                                          *)

CollectorDone ==
    /\ Idle
    /\ collecting /\ collecting' = FALSE
    /\ UNCHANGED <<factVars, hand>>
    /\ \/ /\ \E run \in Runs, risk \in {"low", "high"} : VerificationDone(run, risk)
          /\ Outdated("results")
          /\ StartPrompt(Withdrawn("results"))
       \/ /\ VerificationFailed
          /\ UNCHANGED agentVars
          /\ StartPrompt(job)

Reconciled ==
    /\ ~Idle
    /\ \E i \in DOMAIN fx : fx[i] = Do("reconcileEvidence")
    /\ \A j \in Jobs : job[j].step \notin {"ready", "refused"}
    /\ \E items \in [Ids -> Outcomes] : EvidenceResult(items)
    /\ UNCHANGED <<factVars, agentVars, hand>>
    /\ Perform(job)

-----------------------------------------------------------------------------
PromptsInit ==
    /\ Init
    /\ row = "none" /\ pending = "none" /\ question = FALSE
    /\ noted \in BOOLEAN
    /\ job = [j \in Jobs |-> NoPrompt]
    /\ live = FALSE /\ open = NoJob /\ knows = {} /\ byHand = FALSE
    /\ hand = FALSE
    /\ collecting = FALSE

PromptStep(j) ==
    CheckpointDone(j) \/ Proceed(j) \/ Refused(j) \/ PromptReturns(j)

PromptsNext ==
    \/ Command \/ Answer \/ \E id \in {"row", "gone"} : DecideOn(id)
    \/ HandPrompt \/ SessionStarts \/ StartFails
    \/ AgentSays \/ RecordMemoryNote \/ TurnCloses \/ SessionLost
    \/ \E j \in Jobs : PromptStep(j)
    \/ CollectorDone \/ Reconciled

PromptsSpec == PromptsInit /\ [][PromptsNext]_allVars

-----------------------------------------------------------------------------
TurnOpens == open' # open /\ open' \in Jobs

(* Whatever was lost, paused, refused or begun again in between, the agent  *)
(* that gets a prompt of the machine's has been told the goal and every     *)
(* answer the user gave, what the mode of an objective that is no standard  *)
(* one asks of plans and work, what was noted about the project, and of a   *)
(* verification the results of the latest run, in that prompt, in an        *)
(* earlier one of the session or in its brief (effects.ts:346-377).  Three  *)
(* exceptions: the session's first prompt was one typed by hand, which      *)
(* leaves the machine's next one no new session to brief; work begun, out   *)
(* of a pause, on a plan that was never approved; and the results, where a  *)
(* prompt begun before a pause waited for the session with the next.        *)
Owed(phase) ==
    {"goal", "answers"} \cup MemoryBlock
    \cup (IF phase = "explore" THEN {} ELSE ModeNote)
    \cup (IF phase = "verify" /\ Waiting \subseteq {Hand, open'}
        THEN {"results"} ELSE {})
AgentsAreBriefed ==
    [][TurnOpens /\ ~byHand'
         /\ (planApproved \/ job[open'].phase \in {"explore", "propose", "plan"})
         => Owed(job[open'].phase) \subseteq knows']_allVars

(* An agent that plans has been told which option the user chose, of the    *)
(* decision that is in force: a decision asked for again, a screen that     *)
(* still shows the one before, a pause or a lost session never leave it to  *)
(* plan for another or for none (effects.ts:129-161).                       *)
PlansFollowTheChoice ==
    [][TurnOpens /\ job[open'].phase = "plan" /\ mode # "fastfix"
         => "choice" \in knows']_allVars
=============================================================================
