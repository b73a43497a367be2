------------------------------- MODULE Focus -------------------------------
(***************************************************************************)
(* What the web client offers on one objective (packages/web/src/focus,    *)
(* routes/FocusView.tsx, routes/stateColor.ts), beside the machine that    *)
(* accepts or refuses it.  The view performs no transition of its own: it  *)
(* shows a function of the machine's state, so the module adds operators   *)
(* over Workflow's state and two variables for what the database adds to   *)
(* it.  The rows of plan_tasks are `tasks`: recordPlan rewrites them in    *)
(* the step that changes the plan.                                         *)
(*                                                                         *)
(* Buttons that send nothing to the machine (ticks, links, Continue) are   *)
(* left out, a notice that may be on screen is, and an edited plan is one  *)
(* that still has a task: the schema turns an emptied list away.           *)
(***************************************************************************)
EXTENDS Workflow

VARIABLES decisionRow,   \* aggregate.decisions is not empty
          autoApproved   \* aggregate.lastAutoApproval is not null

focusVars == <<decisionRow, autoApproved>>

-----------------------------------------------------------------------------
(* The one primary element, and the commands it and its frame send.        *)

Live == {"exploring", "proposing", "planning", "executing", "verifying",
         "revising"}

LiveWhileClarifying(s) ==
    CASE s \in Live \cup {"clarifying"} -> "live"
      [] s = "awaitingDecision" -> "decision"
      [] s = "awaitingPlanApproval" -> "plan"
      [] s = "awaitingReview" -> "review"
      [] s = "integrating" -> "integration"
      [] s \in {"idle", "paused"} -> "resume"
      [] s \in Terminal -> "outcome"

PrimaryElementFor(s) ==
    CASE s \in Live -> "live"
      [] s \in {"awaitingDecision", "clarifying"} -> "decision"
      [] s = "awaitingPlanApproval" -> "plan"
      [] s = "awaitingReview" -> "review"
      [] s = "integrating" -> "integration"
      [] s \in {"idle", "paused"} -> "resume"
      [] s \in Terminal -> "outcome"

(* Abandoning is confirmed first; the confirmation sends it.                *)
AbandonDialog == {"abandon"}

HeaderCommands(s) ==
    IF PrimaryElementFor(s) = "outcome" THEN {}
    ELSE {"pause", "set_low_energy"} \cup AbandonDialog

(* The banner stands, whatever the state, until it is dismissed, and is     *)
(* there again when the view is opened anew.                                *)
AutoApprovalBanner == IF autoApproved THEN {"stop for now"} ELSE {}

(* Silence of the agent, however long: Pause, by the notice.                *)
StaleNotice == {"pause"}

ClarificationPrompt == {"answer_clarification"}

(* Approve recommended and Choose selected; Ask for alternatives; Pause.    *)
DecisionCard == IF decisionRow THEN {"decide", "revise", "pause"} ELSE {}

(* A clarification writes no decisions row, so the state tells it apart.    *)
DecisionCommands(s) ==
    IF s = "clarifying" THEN ClarificationPrompt ELSE DecisionCard

PlanApproval == {"approve_plan", "revise", "pause"}

ReviewCommands == {"approve_task", "revise", "rollback"}

(* An investigation has no diff to commit.                                  *)
IntegrationCommands ==
    IF mode = "investigation" THEN {"keep", "discard"}
    ELSE {"commit", "keep", "discard"}

ResumeAlwaysRollsBack(s) ==
    IF s = "idle" THEN {"start"} ELSE {"resume", "rollback"}

ResumeCommands(s) ==
    IF s = "idle" THEN {"start"}
    ELSE {"resume"} \cup IF tasks # <<>> THEN {"rollback"} ELSE {}

(* A19's strip: where the worktree is the user's to commit in, by the       *)
(* view's list of states and by the strip's own copy of the server's.       *)
GitStates == {"paused", "awaitingReview"}
StripBusy == {"executing", "revising", "verifying", "integrating"}
GitCommands(s) == IF s \in GitStates \ StripBusy THEN {"git"} ELSE {}

Offered(s) ==
    HeaderCommands(s) \cup AutoApprovalBanner \cup GitCommands(s) \cup
    CASE PrimaryElementFor(s) = "decision" -> DecisionCommands(s)
      [] PrimaryElementFor(s) = "live" -> StaleNotice
      [] PrimaryElementFor(s) = "plan" -> PlanApproval
      [] PrimaryElementFor(s) = "review" -> ReviewCommands
      [] PrimaryElementFor(s) = "integration" -> IntegrationCommands
      [] PrimaryElementFor(s) = "resume" -> ResumeCommands(s)
      [] OTHER -> {}

-----------------------------------------------------------------------------
(* What the server takes, in the state the objective is in.                *)

(* The git routes' gate: the states in which something writes the worktree. *)
Writers == {"executing", "verifying", "revising", "integrating"}

ServerTakes(c) ==
    CASE c = "start" -> CanStart
      [] c = "answer_clarification" -> CanAnswer
      [] c = "decide" -> CanDecide
      [] c = "approve_plan" -> CanApprovePlan
      [] c = "approve_task" -> CanApproveTask
      [] c = "revise" -> CanRevise
      [] c = "rollback" -> CanRollBack
      [] c = "resume" -> CanResume
      [] c \in {"pause", "stop for now", "abandon", "set_low_energy"} -> Active
      [] c = "git" -> state \notin Writers
      [] c \in {"commit", "keep", "discard"} ->
           /\ CanIntegrate /\ MayIntegrate
           /\ c = "commit" => mode # "investigation"

Integrations == {"commit", "keep", "discard"}

(* Commands that move the work on: not stopping it, nor a look at git.      *)
Forward == {"start", "answer_clarification", "decide", "approve_plan",
            "approve_task", "revise", "rollback", "resume"} \cup Integrations

-----------------------------------------------------------------------------
(* The dot on the board and the phase stepper.                             *)

Tone(s) ==
    CASE s = "idle" -> "idle"
      [] s \in Live \cup {"integrating"} -> "active"
      [] s \in {"awaitingDecision", "clarifying", "awaitingPlanApproval",
                "awaitingReview", "paused"} -> "attention"
      [] s = "done" -> "done"
      [] s = "cancelled" -> "failed"

PhaseKeys == {"explore", "propose", "plan", "execute", "verify", "review",
              "integrate"}

PhaseOfState(s) ==
    CASE s \in {"idle", "exploring", "clarifying"} -> "explore"
      [] s \in {"proposing", "awaitingDecision"} -> "propose"
      [] s \in {"planning", "awaitingPlanApproval"} -> "plan"
      [] s \in {"executing", "revising"} -> "execute"
      [] s = "verifying" -> "verify"
      [] s = "awaitingReview" -> "review"
      [] s = "integrating" -> "integrate"
      [] s = "done" -> "all"
      [] s \in {"paused", "cancelled"} -> "none"

(* The phases a status event may name, and the prompts' names: the two      *)
(* vocabularies have no word in common, so nothing is inferred from what    *)
(* the agent last said.                                                     *)
StatusPhases == {"exploring", "clarifying", "proposing", "planning",
                 "executing", "verifying", "reviewing", "integrating"}

PromptPhase == [explore |-> "explore", clarify |-> "explore",
                propose |-> "propose", plan |-> "plan", verify |-> "verify",
                review |-> "review"]

(* `said` is the last status's phase; `begun`, that some task's row left    *)
(* pending.                                                                 *)
InferPhase(said, begun) ==
    CASE said \in DOMAIN PromptPhase -> PromptPhase[said]
      [] said \notin DOMAIN PromptPhase /\ begun -> "execute"
      [] said \notin DOMAIN PromptPhase /\ ~begun /\ tasks # <<>> -> "plan"
      [] said \notin DOMAIN PromptPhase /\ ~begun /\ tasks = <<>> ->
           IF decisionRow THEN "propose" ELSE "explore"

(* What the stepper may draw as current, the states without a phase of      *)
(* their own drawing one they infer.                                        *)
CurrentPhases ==
    IF PhaseOfState(state) = "none"
    THEN {p \in PhaseKeys : \E said \in StatusPhases \cup {"none"},
                               begun \in {FALSE, tasks # <<>>} :
                              p = InferPhase(said, begun)}
    ELSE {PhaseOfState(state)}

(* A Fast Fix draws propose as skipped, never as current.                   *)
DrawnSteps == IF mode = "fastfix" THEN PhaseKeys \ {"propose"} ELSE PhaseKeys

-----------------------------------------------------------------------------
FocusInit == Init /\ decisionRow = FALSE /\ autoApproved = FALSE

Performed(effects) == \E i \in DOMAIN fx' : fx'[i] \in {Do(e) : e \in effects}

(* recordDecision replaces whatever row there was; an auto-approval is an   *)
(* event of the log, which is only ever appended to.                        *)
FocusNext ==
    /\ Next
    /\ decisionRow' = (decisionRow \/ Performed({"recordDecision"}))
    /\ autoApproved' = (autoApproved \/
            Performed({"noteAutoApprovedTask", "noteAutoApprovedPlan"}))

FocusSpec == FocusInit /\ [][FocusNext]_<<vars, focusVars>>

-----------------------------------------------------------------------------
(* A state that waits for the user says so on the board, or is not started, *)
(* and its screen offers a command that moves the work on and is accepted.  *)
(* Integration is the exception both times: the board calls it Working      *)
(* (stateColor.ts:46), and while the last task's tolerated failure is still *)
(* in the set all three of its buttons are refused, so that the way on is   *)
(* Pause and then Roll back (objectives.ts:737-757); only an objective      *)
(* without a plan, revised out of a pause as no screen offers, has neither. *)
UserIsNeverStranded ==
    state \notin Live \cup Terminal =>
      \/ /\ Tone(state) \in {"attention", "idle"}
         /\ \E c \in Offered(state) \cap Forward : ServerTakes(c)
      \/ /\ state = "integrating"
         /\ \/ \A c \in Offered(state) \cap Integrations : ServerTakes(c)
            \/ "rollback" \in Offered("paused") /\ HasTask
            \/ tasks = <<>>

(* No button is refused, but for an integration the evidence does not       *)
(* carry: the plan the view counts is the one the machine's rollback guard  *)
(* reads (FocusView.tsx:402-408), and its three lists of states agree with  *)
(* the server's (GitStrip.tsx:19-32).  The banner's Stop for now is there   *)
(* after the end too, where the server takes it and nothing comes of it.    *)
NothingOfferedIsRefused ==
    \A c \in Offered(state) :
      \/ ServerTakes(c)
      \/ c \in Integrations /\ ~MayIntegrate
      \/ c = "stop for now" /\ state \in Terminal

(* The stepper marks exactly one step until everything is done, whatever    *)
(* the agent last said and whichever tasks have begun: a Fast Fix, which    *)
(* has no propose step, never proposes, and leaves no decision to infer     *)
(* one from (phase.ts:89-122).                                              *)
StepperShowsOnePhase ==
    state # "done" => CurrentPhases \subseteq DrawnSteps
=============================================================================
