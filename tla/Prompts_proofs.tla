--------------------------- MODULE Prompts_proofs ---------------------------
(* What the agent has been told, for any number of prompts under way        *)
(* together, and every plan, mode, check and run.                           *)
(*                                                                          *)
(* A prompt either reaches a session that was told before or waits for a    *)
(* new one with a brief made up earlier: ToldInv says what the live session *)
(* may still lack and in which states, EnsureInv what a waiting prompt will *)
(* say. Between the two stands the machine, which must not move on while a  *)
(* prompt waits (WaitingInv). The machine's many events are of four kinds   *)
(* here (Moves), and each kind has one consequence for what is asked of the *)
(* agent (Outcome).                                                         *)
EXTENDS Prompts, SequenceTheorems, TLAPS

(* Where the machine takes a command is a condition on its state.           *)
USE DEF CanStart, CanAnswer, CanDecide, CanApprovePlan, CanApproveTask,
        CanRevise, CanRollBack, CanResume, CanIntegrate

-----------------------------------------------------------------------------
(* The inductive invariant.                                                 *)

TaskPhases == {"execute-task", "execute-task-investigation"}
WorkPhases == TaskPhases \cup {"verify"}
StateOf == [explore |-> "exploring", propose |-> "proposing", plan |-> "planning"]
PlanPhases == {"explore", "propose", "plan"}
Phases == PlanPhases \cup WorkPhases
Facts == {"goal", "answers", "memory", "mode", "choice", "results"}
Steps == {"none", "checkpoint", "ready", "refused", "ensure", "turn"}
JobType == [step : Steps, phase : Phases \cup {"none"}, says : SUBSET Facts,
            decision : {"none", "row", "gone"}]

PromptsTypeOK ==
    /\ state \in PlanStates \cup WorkStates \cup {"paused"}
    /\ state # "paused" => resumeState = state
    /\ mode \in Modes
    /\ runId \in Runs \cup {NoRun}
    /\ row \in {"none", "open", "chosen"}
    /\ pending \in {"none", "row", "gone"}
    /\ noted \in BOOLEAN /\ planApproved \in BOOLEAN
    /\ job \in [Jobs -> JobType]
    /\ live \in BOOLEAN /\ byHand \in BOOLEAN
    /\ open \in Jobs \cup {NoJob, Hand}
    /\ knows \in SUBSET Facts

(* The objective is at its tasks, or will be when it is resumed.            *)
Work == state \in WorkStates \/ (state = "paused" /\ resumeState \in WorkStates)

(* What keeps the thread from being idle.                                   *)
Pressing(j) == At(j, "ready") \/ At(j, "refused")
SomePressing == \E j \in Jobs : Pressing(j)

OnePressing == \A j, k \in Jobs : At(j, "ready") /\ Pressing(k) => j = k

SessionInv ==
    /\ ~live => open = NoJob /\ knows = {}
    /\ live => \A j \in Jobs : ~At(j, "ensure")

WorkInv ==
    /\ planApproved => Work
    /\ \A j \in Jobs : job[j].phase \in WorkPhases => Work
    /\ \A j \in Jobs : job[j].phase = "verify" => HasChecks

(* A prompt about to be sent fits the state that asked for it.              *)
ReadyInv ==
    \A j \in Jobs :
        /\ At(j, "checkpoint") => job[j].phase \in TaskPhases
        /\ At(j, "checkpoint") \/ At(j, "ready") => job[j].says = {"answers"}
        /\ At(j, "ready") =>
             /\ job[j].phase \in Phases
             /\ job[j].phase \in PlanPhases =>
                  state = StateOf[job[j].phase] /\ turnEvents = {}
             /\ job[j].phase = "plan" => job[j].decision = pending
             /\ job[j].phase = "verify" => runId # NoRun

(* A prompt that waits for the session says what a new one must be told.    *)
EnsureInv ==
    \A j \in Jobs : At(j, "ensure") =>
        /\ job[j].phase \in Phases
        /\ {"goal", "answers"} \cup MemoryBlock \subseteq job[j].says
        /\ job[j].phase # "explore" => ModeNote \subseteq job[j].says
        /\ job[j].phase = "explore" => ~planApproved
        /\ job[j].phase = "plan" /\ mode # "fastfix" => "choice" \in job[j].says
        /\ job[j].phase = "verify" /\ "results" \notin job[j].says =>
             \E k \in Jobs \ {j} : At(k, "ready") \/ At(k, "ensure")

(* Without a session no turn ends, so that the machine does not pass, while *)
(* a prompt waits, from one planning state to the next.                     *)
WaitingInv ==
    (\E j \in Jobs : At(j, "ensure")) =>
        \/ Work
        \/ /\ turnEvents = {}
           /\ state \in {"idle", "exploring", "proposing", "planning", "paused"}
           /\ state \in {"proposing", "planning"} =>
                \E k \in Jobs : \/ At(k, "ready")
                                \/ At(k, "ensure") /\ job[k].phase # "explore"

(* What a session the machine started may still have to be told.            *)
ToldInv ==
    live /\ ~byHand =>
        /\ {"goal"} \cup MemoryBlock \subseteq knows
        /\ "answers" \notin knows =>
             /\ ~planApproved
             /\ \/ Work
                \/ state = "exploring" /\ SomePressing
                \/ state = "paused" /\ resumeState = "exploring"
        /\ ~(ModeNote \subseteq knows) =>
             /\ ~planApproved
             /\ \/ Work
                \/ state \in {"idle", "exploring", "clarifying", "paused"}
                \/ state \in {"proposing", "planning"} /\ SomePressing

(* Nobody plans before a choice was made of the decision in force.          *)
ChosenInv ==
    /\ mode # "fastfix"
    /\ \/ state \in {"planning", "awaitingPlanApproval"}
       \/ state = "paused" /\ resumeState = "planning"
    => pending = "row" /\ row = "chosen"

IInv == /\ PromptsTypeOK /\ OnePressing /\ SessionInv /\ WorkInv /\ ReadyInv
        /\ EnsureInv /\ WaitingInv /\ ToldInv /\ ChosenInv

-----------------------------------------------------------------------------
(* What a macrostep asks for.                                               *)

(* The prompts among its effects are of these phases.                       *)
Asks(phases) ==
    \A i \in DOMAIN fx' : fx'[i].do = "sendPrompt" => fx'[i].phase \in phases

AsksFor(phase) == fx' = <<SendPrompt(phase)>>

Unprompted == {Do(e) : e \in {"checkpoint", "recordPlan", "markTaskVerified",
                              "noteAutoApprovedTask", "noteAutoApprovedPlan",
                              "noteToleratedFailures", "rollbackToCheckpoint",
                              "runVerification", "reconcileEvidence",
                              "recordEvidence", "recordDecision"}}
TaskEffects == Unprompted \cup {SendPrompt(p) : p \in TaskPhases}

LEMMA OneOrTwo ==
    ASSUME NEW S
    PROVE  /\ <<>> \in Seq(S)
           /\ \A a \in S : <<a>> \in Seq(S)
           /\ \A a, b \in S : <<a, b>> \in Seq(S)
           /\ \A f, g \in Seq(S) : f \o g \in Seq(S)
  OBVIOUS

LEMMA AsksTask == fx' \in Seq(TaskEffects) => Asks(TaskPhases)
  <1>1. \A a \in TaskEffects : a.do = "sendPrompt" => a.phase \in TaskPhases
    BY DEF TaskEffects, Unprompted, Do, SendPrompt
  <1> QED
    BY <1>1 DEF Asks

LEMMA AsksNothing == fx' \in Seq(Unprompted) => Asks({})
  <1>1. \A a \in Unprompted : a.do # "sendPrompt"
    BY DEF Unprompted, Do
  <1> QED
    BY <1>1 DEF Asks

LEMMA NamedEffects ==
    /\ \A e \in {"checkpoint", "recordPlan", "markTaskVerified",
                 "noteAutoApprovedTask", "noteAutoApprovedPlan",
                 "noteToleratedFailures", "rollbackToCheckpoint",
                 "runVerification", "reconcileEvidence", "recordEvidence",
                 "recordDecision"} : Do(e) \in Unprompted /\ Do(e) \in TaskEffects
    /\ TaskPrompt \in TaskEffects
  BY DEF TaskEffects, Unprompted, TaskPrompt, TaskPhases

-----------------------------------------------------------------------------
(* The four things the machine may do while prompts are under way.          *)

Typed ==
    /\ state' \in PlanStates \cup WorkStates \cup {"paused"}
    /\ state' # "paused" => resumeState' = state'
    /\ mode' = mode
    /\ runId' \in Runs \cup {NoRun}
    /\ planApproved' \in BOOLEAN

(* It stays at its tasks.                                                   *)
InWork ==
    /\ Work /\ Work'
    /\ UNCHANGED planApproved
    /\ \/ Asks(TaskPhases)
       \/ /\ AsksFor("verify") /\ state' = "verifying"
          /\ runId' \in Runs /\ HasChecks

(* It begins with them, on a plan just approved or out of a pause.          *)
IntoWork ==
    /\ ~Work /\ Work'
    /\ Asks(TaskPhases)
    /\ \/ UNCHANGED planApproved
       \/ state = "awaitingPlanApproval"
       \/ state = "planning" /\ turnEvents # {}

(* It opens a turn of the planning.                                         *)
Opens(p) ==
    /\ ~Work
    /\ AsksFor(p) /\ state' = StateOf[p] /\ turnEvents' = {}
    /\ UNCHANGED planApproved
    /\ p # "explore" => ~(state = "paused" /\ resumeState = "exploring")
    /\ p = "plan" =>
         \/ mode = "fastfix"
         \/ state = "awaitingPlanApproval"
         \/ state = "paused" /\ resumeState = "planning"
         \/ row' = "chosen" /\ pending' = "row"

(* It asks for nothing, before there are tasks.                             *)
Rests ==
    /\ ~Work
    /\ Asks({})
    /\ UNCHANGED planApproved
    /\ \/ state' = "paused" /\ UNCHANGED <<resumeState, turnEvents>>
       \/ /\ turnEvents # {}
          /\ \/ state = "exploring" /\ state' = "clarifying"
             \/ state = "proposing" /\ state' = "awaitingDecision"
             \/ state = "planning" /\ state' = "awaitingPlanApproval"
       \/ /\ state = "paused" /\ resumeState \notin Resumable /\ state' = "idle"
          /\ UNCHANGED turnEvents
       \/ UNCHANGED <<state, resumeState>> /\ (live \/ UNCHANGED turnEvents)

Moves == Typed /\ (InWork \/ IntoWork \/ Rests \/ \E p \in PlanPhases : Opens(p))

(* The entries of the states of a task.                                     *)
AtTask ==
    /\ state' \in WorkStates /\ resumeState' = state'
    /\ fx' \in Seq(TaskEffects)
    /\ runId' \in {runId, NoRun}

LEMMA Executes ==
    ASSUME NEW before \in Seq(TaskEffects), EnterExecuting(before)
    PROVE  AtTask /\ state' = "executing"
  <1>1. fx' = before \o <<Do("checkpoint"), TaskPrompt>>
    BY DEF EnterExecuting, OpenTurn, Enter
  <1>2. fx' \in Seq(TaskEffects)
    BY <1>1, OneOrTwo, NamedEffects
  <1> QED
    BY <1>2 DEF EnterExecuting, OpenTurn, Enter, AtTask, WorkStates

LEMMA PlanApproves ==
    ASSUME NEW ts, NEW before \in Seq(TaskEffects), ApprovePlanWith(ts, before)
    PROVE  AtTask /\ planApproved' = TRUE
  <1>1. before \o <<Do("recordPlan")>> \in Seq(TaskEffects)
    BY OneOrTwo, NamedEffects
  <1> QED
    BY <1>1, Executes DEF ApprovePlanWith

LEMMA TaskApproves ==
    ASSUME NEW items, NEW before \in Seq(TaskEffects), ApproveTaskWith(items, before)
    PROVE  AtTask /\ UNCHANGED planApproved
  <1>1. before \o <<Do("markTaskVerified")>> \in Seq(TaskEffects)
    BY OneOrTwo, NamedEffects
  <1> QED
    BY <1>1, Executes DEF ApproveTaskWith, Enter, AtTask, WorkStates

LEMMA Reviews ==
    ASSUME NEW items, NEW before \in Seq(TaskEffects), EnterAwaitingReview(items, before)
    PROVE  AtTask /\ UNCHANGED planApproved
  <1>1. before \o <<Do("noteAutoApprovedTask")>> \in Seq(TaskEffects)
    BY OneOrTwo, NamedEffects
  <1>2. CASE lowEnergy /\ taskRisk = "low"
    BY <1>1, <1>2, TaskApproves DEF EnterAwaitingReview
  <1>3. CASE ~(lowEnergy /\ taskRisk = "low")
    BY <1>3 DEF EnterAwaitingReview, Enter, AtTask, WorkStates, plan
  <1> QED
    BY <1>2, <1>3

LEMMA ToTask ==
    ASSUME PromptsTypeOK, AtTask, mode' = mode,
           \/ UNCHANGED planApproved
           \/ /\ planApproved' = TRUE
              /\ state = "awaitingPlanApproval" \/ (state = "planning" /\ turnEvents # {})
    PROVE  Moves
  <1>1. Asks(TaskPhases)
    BY AsksTask DEF AtTask
  <1>2. Typed /\ Work'
    BY DEF Typed, AtTask, Work, PromptsTypeOK
  <1>3. CASE Work
    <2>1. UNCHANGED planApproved
      BY <1>3 DEF Work, WorkStates
    <2> QED
      BY <1>1, <1>2, <1>3, <2>1 DEF Moves, InWork
  <1>4. CASE ~Work
    BY <1>1, <1>2, <1>4 DEF Moves, IntoWork
  <1> QED
    BY <1>3, <1>4

(* To pause is to stay where one was.                                       *)
LEMMA ToPause ==
    ASSUME PromptsTypeOK, EnterSilently("paused", <<>>), mode' = mode,
           runId' \in Runs \cup {NoRun}, UNCHANGED <<planApproved, turnEvents>>
    PROVE  Moves /\ Asks({})
  <1>1. Asks({}) /\ Asks(TaskPhases)
    BY DEF Asks, EnterSilently
  <1>2. Typed /\ state' = "paused" /\ UNCHANGED resumeState
    BY DEF Typed, EnterSilently, PromptsTypeOK
  <1>3. Work' = Work
    BY <1>2 DEF Work, PromptsTypeOK, WorkStates
  <1> QED
    BY <1>1, <1>2, <1>3 DEF Moves, InWork, Rests

(* What leaves the state alone and asks for no prompt.                      *)
LEMMA ToStay ==
    ASSUME PromptsTypeOK, UNCHANGED <<state, resumeState, mode, planApproved>>,
           runId' \in Runs \cup {NoRun}, Asks({}),
           live \/ UNCHANGED turnEvents \/ Work
    PROVE  Moves
  <1>1. Typed /\ Work' = Work
    BY DEF Typed, PromptsTypeOK, Work
  <1>2. Asks(TaskPhases)
    BY DEF Asks
  <1> QED
    BY <1>1, <1>2 DEF Moves, InWork, Rests

LEMMA ToTurn ==
    ASSUME PromptsTypeOK, NEW p \in PlanPhases, ~Work,
           OpenTurn(StateOf[p], <<SendPrompt(p)>>),
           UNCHANGED <<mode, planApproved, runId>>,
           p # "explore" => ~(state = "paused" /\ resumeState = "exploring"),
           p = "plan" => \/ mode = "fastfix"
                         \/ state = "awaitingPlanApproval"
                         \/ state = "paused" /\ resumeState = "planning"
                         \/ row' = "chosen" /\ pending' = "row"
    PROVE  Moves
  <1>1. StateOf[p] \in PlanStates
    BY DEF StateOf, PlanPhases, PlanStates
  <1>2. Typed
    BY <1>1 DEF Typed, OpenTurn, Enter, PromptsTypeOK
  <1>3. Opens(p)
    BY DEF Opens, OpenTurn, Enter, AsksFor
  <1> QED
    BY <1>2, <1>3 DEF Moves

-----------------------------------------------------------------------------
(* Each event the machine accepts here.                                     *)

LEMMA StartMoves == PromptsTypeOK /\ Start => Moves
  <1> SUFFICES ASSUME PromptsTypeOK, Start PROVE Moves
    OBVIOUS
  <1>1. ~Work /\ "explore" \in PlanPhases /\ StateOf["explore"] = "exploring"
    BY DEF Work, WorkStates, Start, PlanPhases, StateOf
  <1> QED
    BY <1>1, ToTurn DEF Start, EnterExploring, plan, proof

LEMMA AnswerMoves ==
    PromptsTypeOK /\ AnswerClarification => Moves /\ AsksFor("explore")
  <1> SUFFICES ASSUME PromptsTypeOK, AnswerClarification
               PROVE  Moves /\ AsksFor("explore")
    OBVIOUS
  <1>1. ~Work /\ "explore" \in PlanPhases /\ StateOf["explore"] = "exploring"
    BY DEF Work, WorkStates, AnswerClarification, PlanPhases, StateOf
  <1>2. AsksFor("explore")
    BY DEF AsksFor, AnswerClarification, EnterExploring, OpenTurn, Enter
  <1> QED
    BY <1>1, <1>2, ToTurn DEF AnswerClarification, EnterExploring, plan, proof

LEMMA DecideMoves ==
    PromptsTypeOK /\ Decide /\ row' = "chosen" /\ pending' = "row" => Moves
  <1> SUFFICES ASSUME PromptsTypeOK, Decide, row' = "chosen", pending' = "row"
               PROVE  Moves
    OBVIOUS
  <1>1. /\ ~Work /\ state = "awaitingDecision"
        /\ "plan" \in PlanPhases /\ StateOf["plan"] = "planning"
    BY DEF Work, WorkStates, Decide, PlanPhases, StateOf
  <1> QED
    BY <1>1, ToTurn DEF Decide, EnterPlanning, plan, proof

LEMMA ApprovePlanMoves == PromptsTypeOK /\ ApprovePlan => Moves
  <1> SUFFICES ASSUME PromptsTypeOK, ApprovePlan PROVE Moves
    OBVIOUS
  <1>1. PICK edited \in Plans \cup {tasks} : ApprovePlanWith(edited, <<>>)
    BY DEF ApprovePlan
  <1>2. <<>> \in Seq(TaskEffects)
    BY OneOrTwo
  <1>3. AtTask /\ planApproved' = TRUE
    BY <1>1, <1>2, PlanApproves
  <1> QED
    BY <1>3, ToTask DEF ApprovePlan

LEMMA ApproveTaskMoves == PromptsTypeOK /\ ApproveTask => Moves
  <1>1. <<>> \in Seq(TaskEffects)
    BY OneOrTwo
  <1> QED
    BY <1>1, TaskApproves, ToTask DEF ApproveTask

LEMMA RevisingMoves ==
    ASSUME PromptsTypeOK, EnterRevising, UNCHANGED <<mode, planApproved, runId>>
    PROVE  Moves
  <1>1. fx' = <<TaskPrompt>> /\ state' = "revising" /\ resumeState' = "revising"
    BY DEF EnterRevising, OpenTurn, Enter
  <1>2. fx' \in Seq(TaskEffects)
    BY <1>1, OneOrTwo, NamedEffects
  <1>3. AtTask
    BY <1>1, <1>2 DEF AtTask, WorkStates
  <1> QED
    BY <1>3, ToTask

LEMMA VerifyingMoves ==
    ASSUME PromptsTypeOK, EnterVerifying, UNCHANGED <<mode, planApproved, runId>>
    PROVE  Moves
  <1>1. /\ fx' = <<Do("runVerification")>> /\ state' = "verifying"
        /\ resumeState' = "verifying"
    BY DEF EnterVerifying, OpenTurn, Enter
  <1>2. fx' \in Seq(TaskEffects)
    BY <1>1, OneOrTwo, NamedEffects
  <1>3. AtTask
    BY <1>1, <1>2 DEF AtTask, WorkStates
  <1> QED
    BY <1>3, ToTask

LEMMA ReviseMoves == PromptsTypeOK /\ Revise => Moves
  <1> SUFFICES ASSUME PromptsTypeOK, Revise PROVE Moves
    OBVIOUS
  <1>1. UNCHANGED <<mode, planApproved, runId>>
    BY DEF Revise, plan, proof
  <1>2. CASE state = "awaitingDecision" /\ EnterProposing
    <2>1. /\ ~Work /\ "propose" \in PlanPhases /\ "propose" # "plan"
          /\ StateOf["propose"] = "proposing"
      BY <1>2 DEF Work, WorkStates, PlanPhases, StateOf
    <2> QED
      BY <1>1, <1>2, <2>1, ToTurn DEF EnterProposing
  <1>3. CASE state = "awaitingPlanApproval" /\ EnterPlanning
    <2>1. ~Work /\ "plan" \in PlanPhases /\ StateOf["plan"] = "planning"
      BY <1>3 DEF Work, WorkStates, PlanPhases, StateOf
    <2> QED
      BY <1>1, <1>3, <2>1, ToTurn DEF EnterPlanning
  <1>4. CASE EnterRevising
    BY <1>1, <1>4, RevisingMoves
  <1> QED
    BY <1>2, <1>3, <1>4 DEF Revise

LEMMA RollbackMoves == PromptsTypeOK /\ Rollback => Moves
  <1> SUFFICES ASSUME PromptsTypeOK, Rollback PROVE Moves
    OBVIOUS
  <1>1. <<Do("rollbackToCheckpoint")>> \in Seq(TaskEffects)
    BY OneOrTwo, NamedEffects
  <1>2. AtTask
    BY <1>1, Executes DEF Rollback, RollBack
  <1> QED
    BY <1>2, ToTask DEF Rollback, RollBack, plan

LEMMA PauseMoves == PromptsTypeOK /\ Pause => Moves
  BY ToPause DEF Pause, plan, proof, PromptsTypeOK

LEMMA ResumeMoves == PromptsTypeOK /\ Resume => Moves
  <1> SUFFICES ASSUME PromptsTypeOK, Resume PROVE Moves
    OBVIOUS
  <1>1. state = "paused" /\ mode' = mode
    BY DEF Resume
  <1>2. <<>> \in Seq(TaskEffects)
    BY OneOrTwo
  <1>3. CASE resumeState = "exploring" /\ EnterExploring /\ UNCHANGED <<plan, proof>>
    <2>1. /\ ~Work /\ "explore" \in PlanPhases /\ "explore" # "plan"
          /\ StateOf["explore"] = "exploring"
      BY <1>1, <1>3 DEF Work, WorkStates, PlanPhases, StateOf
    <2> QED
      BY <1>1, <1>3, <2>1, ToTurn DEF EnterExploring, plan, proof
  <1>4. CASE resumeState = "proposing" /\ EnterProposing /\ UNCHANGED <<plan, proof>>
    <2>1. /\ ~Work /\ "propose" \in PlanPhases /\ "propose" # "plan"
          /\ StateOf["propose"] = "proposing"
      BY <1>1, <1>4 DEF Work, WorkStates, PlanPhases, StateOf
    <2> QED
      BY <1>1, <1>4, <2>1, ToTurn DEF EnterProposing, plan, proof
  <1>5. CASE resumeState = "planning" /\ EnterPlanning /\ UNCHANGED <<plan, proof>>
    <2>1. ~Work /\ "plan" \in PlanPhases /\ StateOf["plan"] = "planning"
      BY <1>1, <1>5 DEF Work, WorkStates, PlanPhases, StateOf
    <2> QED
      BY <1>1, <1>5, <2>1, ToTurn DEF EnterPlanning, plan, proof
  <1>6. CASE EnterExecuting(<<>>) /\ UNCHANGED plan
    BY <1>1, <1>2, <1>6, Executes, ToTask DEF plan
  <1>7. CASE EnterVerifying /\ UNCHANGED <<plan, proof>>
    BY <1>1, <1>7, VerifyingMoves DEF plan, proof
  <1>8. CASE EnterRevising /\ UNCHANGED <<plan, proof>>
    BY <1>1, <1>8, RevisingMoves DEF plan, proof
  <1>9. CASE EnterAwaitingReview(evidence, <<>>)
    BY <1>1, <1>2, <1>9, Reviews, ToTask
  <1>10. CASE Enter("integrating", <<>>) /\ UNCHANGED <<plan, proof, turnEvents>>
    <2>1. AtTask
      BY <1>2, <1>10 DEF Enter, AtTask, WorkStates, proof
    <2> QED
      BY <1>1, <1>10, <2>1, ToTask DEF plan
  <1>11. CASE /\ resumeState \notin Resumable /\ Enter("idle", <<>>)
              /\ UNCHANGED <<plan, proof, turnEvents>>
    <2>1. ~Work
      BY <1>1, <1>11 DEF Work, Resumable, WorkStates
    <2>2. Asks({})
      BY <1>11 DEF Asks, Enter
    <2>3. Typed
      BY <1>1, <1>11 DEF Typed, Enter, PlanStates, plan, proof, PromptsTypeOK
    <2> QED
      BY <1>1, <1>11, <2>1, <2>2, <2>3 DEF Moves, Rests, Enter, plan
  <1> QED
    BY <1>3, <1>4, <1>5, <1>6, <1>7, <1>8, <1>9, <1>10, <1>11 DEF Resume

(* What the agent reports during a turn, while there is a session.          *)
LEMMA AgentMoves ==
    ASSUME PromptsTypeOK, live, PlanEvent \/ \E e \in AgentEvents : AgentEvent(e)
    PROVE  Moves /\ Asks({}) /\ UNCHANGED <<state, resumeState>>
  <1>1. UNCHANGED <<state, resumeState, mode, planApproved, runId>>
    BY DEF PlanEvent, AgentEvent, plan, proof
  <1>2. fx' \in Seq(Unprompted)
    <2>1. CASE PlanEvent
      BY <2>1, OneOrTwo, NamedEffects DEF PlanEvent
    <2>2. ASSUME NEW e \in AgentEvents, AgentEvent(e) PROVE fx' \in Seq(Unprompted)
      <3>1. fx' = EffectsOf(e)
        BY <2>2 DEF AgentEvent
      <3>2. fx' \in {<<>>, <<Do("recordDecision")>>, <<Do("recordEvidence")>>}
        BY <3>1 DEF EffectsOf
      <3> QED
        BY <3>2, OneOrTwo, NamedEffects
    <2> QED
      BY <2>1, <2>2
  <1>3. Asks({})
    BY <1>2, AsksNothing
  <1> QED
    BY <1>1, <1>3, ToStay DEF PromptsTypeOK

LEMMA ExploreMoves == PromptsTypeOK /\ ExploreFinished => Moves
  <1> SUFFICES ASSUME PromptsTypeOK, ExploreFinished PROVE Moves
    OBVIOUS
  <1>1. /\ state = "exploring" /\ ~Work
        /\ UNCHANGED <<mode, planApproved, runId>>
    BY DEF ExploreFinished, plan, proof, Work, WorkStates
  <1>2. CASE "clarification" \in turnEvents
    <2>1. Enter("clarifying", <<>>)
      BY <1>2 DEF ExploreFinished
    <2>2. Typed /\ Asks({})
      BY <1>1, <2>1 DEF Typed, Asks, Enter, PlanStates, PromptsTypeOK
    <2> QED
      BY <1>1, <1>2, <2>1, <2>2 DEF Moves, Rests, Enter
  <1>3. CASE "clarification" \notin turnEvents /\ mode = "fastfix"
    <2>1. /\ EnterPlanning
          /\ "plan" \in PlanPhases /\ StateOf["plan"] = "planning"
      BY <1>3 DEF ExploreFinished, PlanPhases, StateOf
    <2> QED
      BY <1>1, <1>3, <2>1, ToTurn DEF EnterPlanning
  <1>4. CASE "clarification" \notin turnEvents /\ mode # "fastfix"
    <2>1. /\ EnterProposing /\ "propose" # "plan"
          /\ "propose" \in PlanPhases /\ StateOf["propose"] = "proposing"
      BY <1>4 DEF ExploreFinished, PlanPhases, StateOf
    <2> QED
      BY <1>1, <2>1, ToTurn DEF EnterProposing
  <1> QED
    BY <1>2, <1>3, <1>4

LEMMA ProposeMoves == PromptsTypeOK /\ ProposeFinished => Moves
  <1> SUFFICES ASSUME PromptsTypeOK, ProposeFinished PROVE Moves
    OBVIOUS
  <1>1. /\ state = "proposing" /\ ~Work
        /\ UNCHANGED <<mode, planApproved, runId, turnEvents>>
    BY DEF ProposeFinished, plan, proof, Work, WorkStates
  <1>2. CASE "decision_needed" \in turnEvents
    <2>1. Enter("awaitingDecision", <<>>)
      BY <1>2 DEF ProposeFinished
    <2>2. Typed /\ Asks({})
      BY <1>1, <2>1 DEF Typed, Asks, Enter, PlanStates, PromptsTypeOK
    <2> QED
      BY <1>1, <1>2, <2>1, <2>2 DEF Moves, Rests, Enter
  <1>3. CASE "decision_needed" \notin turnEvents
    BY <1>1, <1>3, ToPause DEF ProposeFinished, PromptsTypeOK
  <1> QED
    BY <1>2, <1>3

LEMMA PlanMoves == PromptsTypeOK /\ PlanFinished => Moves
  <1> SUFFICES ASSUME PromptsTypeOK, PlanFinished PROVE Moves
    OBVIOUS
  <1>1. state = "planning" /\ ~Work /\ mode' = mode
    BY DEF PlanFinished, Work, WorkStates
  <1>2. CASE "plan" \in turnEvents /\ mode = "fastfix" /\ Len(tasks) <= 1
    <2>1. ApprovePlanWith(tasks, <<Do("noteAutoApprovedPlan")>>)
      BY <1>2 DEF PlanFinished
    <2>2. <<Do("noteAutoApprovedPlan")>> \in Seq(TaskEffects)
      BY OneOrTwo, NamedEffects
    <2>3. AtTask /\ planApproved' = TRUE /\ turnEvents # {}
      BY <1>2, <2>1, <2>2, PlanApproves
    <2> QED
      BY <1>1, <2>3, ToTask
  <1>3. CASE "plan" \in turnEvents /\ ~(mode = "fastfix" /\ Len(tasks) <= 1)
    <2>1. /\ Enter("awaitingPlanApproval", <<>>)
          /\ UNCHANGED <<planApproved, runId>>
      BY <1>3 DEF PlanFinished, plan, proof
    <2>2. Typed /\ Asks({})
      BY <1>1, <2>1 DEF Typed, Asks, Enter, PlanStates, PromptsTypeOK
    <2> QED
      BY <1>1, <1>3, <2>1, <2>2 DEF Moves, Rests, Enter
  <1>4. CASE "plan" \notin turnEvents
    BY <1>1, <1>4, ToPause DEF PlanFinished, plan, proof, PromptsTypeOK
  <1> QED
    BY <1>2, <1>3, <1>4

LEMMA FinishedMoves == PromptsTypeOK /\ TurnFinished => Moves
  <1> SUFFICES ASSUME PromptsTypeOK, TurnFinished PROVE Moves
    OBVIOUS
  <1>1. CASE ExploreFinished \/ ProposeFinished \/ PlanFinished
    BY <1>1, ExploreMoves, ProposeMoves, PlanMoves
  <1>2. CASE ExecuteFinished
    <2>1. CASE "failure" \in turnEvents
      BY <1>2, <2>1, ToPause DEF ExecuteFinished, plan, proof, PromptsTypeOK
    <2>2. CASE "failure" \notin turnEvents
      BY <1>2, <2>2, VerifyingMoves DEF ExecuteFinished, plan, proof
    <2> QED
      BY <2>1, <2>2
  <1>3. CASE ReviseFinished
    BY <1>3, VerifyingMoves DEF ReviseFinished, plan, proof
  <1>4. CASE VerifyFinished
    <2>1. /\ UNCHANGED <<state, resumeState, mode, planApproved, runId, turnEvents>>
          /\ fx' \in Seq(Unprompted)
      BY <1>4, OneOrTwo, NamedEffects DEF VerifyFinished, plan, proof
    <2> QED
      BY <2>1, AsksNothing, ToStay DEF PromptsTypeOK
  <1> QED
    BY <1>1, <1>2, <1>3, <1>4 DEF TurnFinished

LEMMA FailedMoves ==
    PromptsTypeOK /\ TurnFailed => /\ Moves /\ Asks({})
                                   /\ state' = "paused" /\ UNCHANGED mode
                                   /\ UNCHANGED <<resumeState, planApproved, runId, turnEvents>>
  BY ToPause DEF TurnFailed, EnterSilently, plan, proof, PromptsTypeOK

(* The verdict's way: a set of evidence, a run of the collector.            *)
LEMMA VerifiedMoves ==
    ASSUME PromptsTypeOK, NEW run \in Runs, NEW risk, VerificationDone(run, risk)
    PROVE  Moves /\ (HasChecks => AsksFor("verify"))
  <1>1. /\ state = "verifying" /\ Work /\ runId' = run /\ fx' = Judged
        /\ UNCHANGED <<state, resumeState, mode, planApproved, turnEvents>>
    BY DEF VerificationDone, plan, Work, WorkStates
  <1>2. CASE HasChecks
    <2>1. AsksFor("verify")
      BY <1>1, <1>2 DEF Judged, AsksFor
    <2>2. Typed /\ Work'
      BY <1>1 DEF Typed, Work, PromptsTypeOK
    <2> QED
      BY <1>1, <1>2, <2>1, <2>2 DEF Moves, InWork
  <1>3. CASE ~HasChecks
    <2>1. fx' \in Seq(Unprompted)
      BY <1>1, <1>3, OneOrTwo, NamedEffects DEF Judged
    <2> QED
      BY <1>1, <1>3, <2>1, AsksNothing, ToStay
  <1> QED
    BY <1>2, <1>3

LEMMA UnverifiedMoves == PromptsTypeOK /\ VerificationFailed => Moves
  BY ToPause DEF VerificationFailed, plan, proof, PromptsTypeOK

LEMMA ResultMoves ==
    ASSUME PromptsTypeOK, NEW items, EvidenceResult(items)
    PROVE  Moves
  <1>1. <<Do("noteToleratedFailures")>> \in Seq(TaskEffects)
    BY OneOrTwo, NamedEffects
  <1>2. CASE EnterAwaitingReview(items, <<Do("noteToleratedFailures")>>) /\ mode' = mode
    BY <1>1, <1>2, Reviews, ToTask
  <1>3. CASE /\ EnterSilently("paused", <<>>)
             /\ UNCHANGED <<mode, lowEnergy, plan, runId, taskRisk, revise, turnEvents>>
    BY <1>3, ToPause DEF plan, PromptsTypeOK
  <1>4. CASE /\ fx' = <<>>
             /\ UNCHANGED <<state, resumeState, mode, lowEnergy, plan, runId,
                            taskRisk, revise, turnEvents>>
    <2>1. Asks({})
      BY <1>4 DEF Asks
    <2> QED
      BY <1>4, <2>1, ToStay DEF plan, PromptsTypeOK
  <1> QED
    BY <1>2, <1>3, <1>4 DEF EvidenceResult

-----------------------------------------------------------------------------
(* What a macrostep does to the prompts under way.                          *)

(* One prompt more than in `now`, of one of these phases.                   *)
Joined(now, b, phases) ==
    /\ now[b].step = "none"
    /\ job' = [now EXCEPT ![b] = job'[b]]
    /\ job'[b] \in JobType
    /\ job'[b].step \in {"checkpoint", "ready", "refused"}
    /\ job'[b].phase \in phases
    /\ job'[b].says = {"answers"}
    /\ job'[b].decision = pending'

MayJoin(now) == job' = now \/ \E b \in Jobs : Joined(now, b, TaskPhases)

StaysAtTasks(now) ==
    /\ Work /\ Work'
    /\ UNCHANGED planApproved
    /\ \/ MayJoin(now)
       \/ \E b \in Jobs : /\ Joined(now, b, {"verify"})
                          /\ job'[b].step = "ready"
                          /\ runId' \in Runs /\ HasChecks

BeginsTasks(now) ==
    /\ ~Work /\ Work'
    /\ MayJoin(now)
    /\ \/ UNCHANGED planApproved
       \/ state = "awaitingPlanApproval"
       \/ state = "planning" /\ turnEvents # {}

OpensTurn(now) ==
    \E p \in PlanPhases, b \in Jobs :
        /\ Opens(p)
        /\ Joined(now, b, {p}) /\ job'[b].step = "ready"

KeepsStill(now) ==
    /\ ~Work
    /\ job' = now
    /\ UNCHANGED planApproved
    /\ \/ state' = "paused" /\ UNCHANGED <<resumeState, turnEvents>>
       \/ /\ turnEvents # {}
          /\ \/ state = "exploring" /\ state' = "clarifying"
             \/ state = "proposing" /\ state' = "awaitingDecision"
             \/ state = "planning" /\ state' = "awaitingPlanApproval"
       \/ /\ state = "paused" /\ resumeState \notin Resumable /\ state' = "idle"
          /\ UNCHANGED turnEvents
       \/ UNCHANGED <<state, resumeState>> /\ (live \/ UNCHANGED turnEvents)

Outcome(now) ==
    /\ Typed
    /\ \/ StaysAtTasks(now) \/ BeginsTasks(now) \/ OpensTurn(now) \/ KeepsStill(now)

LEMMA Unasked == Asks({}) => ~Requested("sendPrompt")
  BY DEF Asks, Requested

LEMMA Single ==
    ASSUME NEW p, AsksFor(p)
    PROVE  /\ Requested("sendPrompt") /\ ~Requested("checkpoint")
           /\ fx'[PromptIndex].phase = p
  <1>1. DOMAIN fx' = {1} /\ fx'[1] = SendPrompt(p)
    BY DEF AsksFor
  <1>2. fx'[1].do = "sendPrompt" /\ fx'[1].phase = p
    BY <1>1 DEF SendPrompt
  <1>3. Requested("sendPrompt") /\ ~Requested("checkpoint")
    BY <1>1, <1>2 DEF Requested
  <1>4. PromptIndex = 1
    <2>1. \E i \in DOMAIN fx' : fx'[i].do = "sendPrompt"
      BY <1>1, <1>2
    <2>2. PromptIndex \in DOMAIN fx'
      BY <2>1 DEF PromptIndex
    <2> QED
      BY <1>1, <2>2
  <1> QED
    BY <1>2, <1>3, <1>4

LEMMA BegunIs ==
    /\ Begun.step \in {"checkpoint", "ready", "refused"}
    /\ Begun.phase = fx'[PromptIndex].phase
    /\ Begun.says = {"answers"}
    /\ Begun.decision = pending'
    /\ ~NoTaskVars /\ ~Requested("checkpoint") => Begun.step = "ready"
  BY DEF Begun

LEMMA Starts ==
    ASSUME NEW now, NEW phases \in SUBSET Phases,
           now \in [Jobs -> JobType], StartPrompt(now), Requested("sendPrompt"),
           fx'[PromptIndex].phase \in phases,
           pending' \in {"none", "row", "gone"}
    PROVE  \E b \in Jobs : Joined(now, b, phases) /\ job'[b] = Begun
  <1>1. PICK b \in Free(now) : job' = [now EXCEPT ![b] = Begun]
    BY DEF StartPrompt
  <1>2. b \in Jobs /\ now[b].step = "none" /\ job'[b] = Begun
    BY <1>1 DEF Free
  <1>3. Begun \in JobType
    <2>1. Begun = [step |-> Begun.step, phase |-> Begun.phase,
                   says |-> Begun.says, decision |-> Begun.decision]
      BY DEF Begun
    <2>2. /\ Begun.step \in Steps /\ Begun.phase \in Phases \cup {"none"}
          /\ Begun.says \in SUBSET Facts /\ Begun.decision \in {"none", "row", "gone"}
      BY BegunIs DEF Steps, Facts
    <2> QED
      BY <2>1, <2>2 DEF JobType
  <1> QED
    BY <1>1, <1>2, <1>3, BegunIs DEF Joined

LEMMA StepOutcome ==
    ASSUME NEW now, now \in [Jobs -> JobType], Moves, StartPrompt(now),
           pending' \in {"none", "row", "gone"}
    PROVE  Outcome(now)
  <1>1. ASSUME Asks(TaskPhases) PROVE MayJoin(now)
    <2>1. CASE Requested("sendPrompt")
      <3>1. /\ PromptIndex \in DOMAIN fx' /\ fx'[PromptIndex].do = "sendPrompt"
        <4>1. \E i \in DOMAIN fx' : fx'[i].do = "sendPrompt"
          BY <2>1 DEF Requested
        <4> QED
          BY <4>1 DEF PromptIndex
      <3>2. fx'[PromptIndex].phase \in TaskPhases /\ TaskPhases \in SUBSET Phases
        BY <1>1, <3>1 DEF Asks, Phases, WorkPhases
      <3> QED
        BY <2>1, <3>2, Starts DEF MayJoin
    <2>2. CASE ~Requested("sendPrompt")
      BY <2>2 DEF StartPrompt, MayJoin
    <2> QED
      BY <2>1, <2>2
  <1>2. ASSUME NEW p \in Phases \ TaskPhases, AsksFor(p),
               state' \notin {"executing", "revising"}
        PROVE  \E b \in Jobs : Joined(now, b, {p}) /\ job'[b].step = "ready"
    <2>1. /\ Requested("sendPrompt") /\ ~Requested("checkpoint")
          /\ fx'[PromptIndex].phase \in {p} /\ {p} \in SUBSET Phases
      BY <1>2, Single
    <2>2. PICK b \in Jobs : Joined(now, b, {p}) /\ job'[b] = Begun
      BY <2>1, Starts
    <2> QED
      BY <1>2, <2>1, <2>2, BegunIs DEF NoTaskVars
  <1>3. CASE InWork
    <2>1. CASE Asks(TaskPhases)
      BY <1>1, <1>3, <2>1 DEF InWork, Outcome, StaysAtTasks, Moves
    <2>2. CASE /\ AsksFor("verify") /\ state' = "verifying"
               /\ runId' \in Runs /\ HasChecks
      <3>1. "verify" \in Phases \ TaskPhases
        BY DEF Phases, WorkPhases, TaskPhases
      <3>2. \E b \in Jobs : Joined(now, b, {"verify"}) /\ job'[b].step = "ready"
        BY <1>2, <2>2, <3>1
      <3> QED
        BY <1>3, <2>2, <3>2 DEF InWork, Outcome, StaysAtTasks, Moves
    <2> QED
      BY <1>3, <2>1, <2>2 DEF InWork
  <1>4. CASE IntoWork
    BY <1>1, <1>4 DEF IntoWork, Outcome, BeginsTasks, Moves
  <1>5. ASSUME NEW p \in PlanPhases, Opens(p) PROVE Outcome(now)
    <2>1. /\ p \in Phases \ TaskPhases /\ AsksFor(p)
          /\ state' \notin {"executing", "revising"}
      BY <1>5 DEF Opens, StateOf, PlanPhases, Phases, TaskPhases
    <2>2. PICK b \in Jobs : Joined(now, b, {p}) /\ job'[b].step = "ready"
      BY <1>2, <2>1
    <2> QED
      BY <1>5, <2>2 DEF Outcome, OpensTurn, Moves
  <1>6. CASE Rests
    <2>1. job' = now
      BY <1>6, Unasked DEF Rests, StartPrompt
    <2> QED
      BY <1>6, <2>1 DEF Rests, Outcome, KeepsStill, Moves
  <1> QED
    BY <1>3, <1>4, <1>5, <1>6 DEF Moves

(* A report the machine drops: nothing but the prompts has changed.         *)
LEMMA Dropped ==
    ASSUME PromptsTypeOK, NEW now, job' = now,
           UNCHANGED <<state, resumeState, mode, runId, planApproved, turnEvents>>
    PROVE  Outcome(now)
  <1>1. Typed /\ Work' = Work
    BY DEF Typed, PromptsTypeOK, Work
  <1> QED
    BY <1>1 DEF Outcome, StaysAtTasks, KeepsStill, MayJoin

-----------------------------------------------------------------------------
(* Steps in which the thread turns to one of the machine's events.          *)

(* `now` differs from the prompts under way by what ended, and by facts     *)
(* that changed.                                                            *)
Carried(now) ==
    /\ now \in [Jobs -> JobType]
    /\ \A j \in Jobs :
         \/ At(j, "turn") /\ now[j] = NoPrompt
         \/ /\ now[j].step = job[j].step /\ now[j].phase = job[j].phase
            /\ At(j, "checkpoint") => now[j].says = job[j].says
            /\ At(j, "ensure") =>
                 \/ now[j].says = job[j].says
                 \/ /\ now[j].says = job[j].says \ {"results"}
                    /\ HasChecks => \E b \in Jobs : /\ now[b].step = "none"
                                                    /\ job'[b].step = "ready"

(* What the session was told stays so, but for what the user or the         *)
(* collector has just changed.                                              *)
FactsKept ==
    /\ UNCHANGED <<live, byHand, noted>>
    /\ open' \in {open, NoJob}
    /\ \/ knows' \in {knows, knows \ {"choice"}, knows \ {"results"}}
       \/ /\ knows' = knows \ {"answers"}
          /\ ~Work /\ state' = "exploring" /\ \E b \in Jobs : job'[b].step = "ready"
    /\ row' \in {"none", "open", "chosen"} /\ pending' \in {"none", "row", "gone"}
    /\ \/ UNCHANGED <<row, pending>>
       \/ row' = "chosen" /\ pending' = "row"
       \/ state' = "proposing"

EventStep(now) == ~SomePressing /\ Carried(now) /\ FactsKept /\ Outcome(now)

(* A prompt that has just begun.                                            *)
Begins(now, j) ==
    /\ now[j].step = "none"
    /\ job'[j].step \in {"checkpoint", "ready", "refused"}
    /\ job'[j].says = {"answers"} /\ job'[j].decision = pending'
    /\ \A k \in Jobs \ {j} : job'[k] = now[k]

LEMMA OldOrNew ==
    ASSUME IInv, NEW now, EventStep(now)
    PROVE  /\ job' \in [Jobs -> JobType]
           /\ \A j \in Jobs : job'[j] = now[j] \/ Begins(now, j)
           /\ \A j \in Jobs : Begins(now, j) =>
                \/ /\ Work /\ Work' /\ job'[j].phase = "verify"
                   /\ job'[j].step = "ready" /\ runId' \in Runs /\ HasChecks
                \/ Work' /\ job'[j].phase \in TaskPhases
                \/ /\ job'[j].step = "ready" /\ job'[j].phase \in PlanPhases
                   /\ Opens(job'[j].phase)
  <1>1. now \in [Jobs -> JobType]
    BY DEF EventStep, Carried
  <1>2. ASSUME NEW phases, NEW b \in Jobs, Joined(now, b, phases)
        PROVE  /\ job' \in [Jobs -> JobType] /\ job'[b].phase \in phases
               /\ Begins(now, b)
               /\ \A j \in Jobs \ {b} : job'[j] = now[j] /\ ~Begins(now, j)
    <2>1. /\ job' \in [Jobs -> JobType] /\ Begins(now, b)
          /\ job'[b].phase \in phases /\ job'[b].step # "none"
          /\ \A j \in Jobs \ {b} : job'[j] = now[j]
      BY <1>1, <1>2 DEF Joined, Begins
    <2>2. ASSUME NEW j \in Jobs \ {b} PROVE ~Begins(now, j)
      BY <2>1, <2>2 DEF Begins
    <2> QED
      BY <2>1, <2>2
  <1>3. ASSUME job' = now
        PROVE  \A j \in Jobs : ~Begins(now, j)
    BY <1>3 DEF Begins
  <1>4. CASE StaysAtTasks(now)
    BY <1>1, <1>2, <1>3, <1>4 DEF StaysAtTasks, MayJoin
  <1>5. CASE BeginsTasks(now)
    BY <1>1, <1>2, <1>3, <1>5 DEF BeginsTasks, MayJoin
  <1>6. CASE OpensTurn(now)
    BY <1>1, <1>2, <1>6 DEF OpensTurn
  <1>7. CASE KeepsStill(now)
    BY <1>1, <1>3, <1>7 DEF KeepsStill
  <1> QED
    BY <1>4, <1>5, <1>6, <1>7 DEF EventStep, Outcome

LEMMA Before ==
    ASSUME IInv, NEW now, EventStep(now), NEW j \in Jobs
    PROVE  /\ now[j].step \in {"none", "checkpoint", "ensure", "turn"}
           /\ now[j].phase \in WorkPhases => now[j].phase = job[j].phase
           /\ At(j, "ensure") <=> now[j].step = "ensure"
           /\ At(j, "ensure") => now[j].phase = job[j].phase
           /\ now[j].step = "checkpoint" =>
                /\ At(j, "checkpoint") /\ now[j].phase = job[j].phase
                /\ now[j].says = job[j].says
  <1>1. job[j] \in JobType /\ ~Pressing(j)
    BY DEF IInv, PromptsTypeOK, EventStep, SomePressing
  <1>2. job[j].step \in {"none", "checkpoint", "ensure", "turn"}
    BY <1>1 DEF JobType, Steps, Pressing, At
  <1>3. CASE At(j, "turn") /\ now[j] = NoPrompt
    BY <1>3 DEF NoPrompt, At, WorkPhases, TaskPhases
  <1>4. CASE /\ now[j].step = job[j].step /\ now[j].phase = job[j].phase
             /\ At(j, "checkpoint") => now[j].says = job[j].says
    BY <1>2, <1>4 DEF At
  <1> QED
    BY <1>3, <1>4 DEF EventStep, Carried

LEMMA StepTyped ==
    ASSUME IInv, NEW now, EventStep(now)
    PROVE  PromptsTypeOK' /\ OnePressing' /\ SessionInv'
  <1>1. PromptsTypeOK'
    <2>1. Typed /\ FactsKept /\ job' \in [Jobs -> JobType]
      BY OldOrNew DEF EventStep, Outcome
    <2> QED
      BY <2>1 DEF PromptsTypeOK, IInv, Typed, FactsKept
  <1>2. ASSUME NEW j \in Jobs, Pressing(j)'
        PROVE  Begins(now, j)
    <2>1. now[j].step \in {"none", "checkpoint", "ensure", "turn"}
      BY Before
    <2> QED
      BY <1>2, <2>1, OldOrNew DEF Pressing, At
  <1>3. OnePressing'
    <2> SUFFICES ASSUME NEW j \in Jobs, NEW k \in Jobs, Pressing(j)', Pressing(k)'
                 PROVE  j = k
      BY DEF OnePressing, Pressing
    <2>1. Begins(now, j) /\ Begins(now, k)
      BY <1>2
    <2> QED
      BY <2>1 DEF Begins, Pressing, At
  <1>4. ASSUME NEW j \in Jobs, At(j, "ensure")'
        PROVE  At(j, "ensure")
    <2>1. ~Begins(now, j)
      BY <1>4 DEF Begins, At
    <2>2. now[j].step = "ensure"
      BY <1>4, <2>1, OldOrNew DEF At
    <2> QED
      BY <2>2, Before
  <1>5. SessionInv'
    BY <1>4 DEF SessionInv, IInv, EventStep, FactsKept
  <1> QED
    BY <1>1, <1>3, <1>5

LEMMA WorkGoesOn ==
    ASSUME IInv, NEW now, EventStep(now)
    PROVE  /\ Work => Work'
           /\ ~planApproved' \/ Work'
           /\ ~planApproved /\ planApproved' =>
                \/ state = "awaitingPlanApproval"
                \/ state = "planning" /\ turnEvents # {}
  <1>1. planApproved => Work
    BY DEF IInv, WorkInv
  <1>2. CASE StaysAtTasks(now)
    BY <1>2 DEF StaysAtTasks
  <1>3. CASE BeginsTasks(now)
    BY <1>3 DEF BeginsTasks
  <1>4. CASE ~Work /\ UNCHANGED planApproved
    BY <1>1, <1>4
  <1> QED
    BY <1>2, <1>3, <1>4 DEF EventStep, Outcome, OpensTurn, Opens, KeepsStill

LEMMA StepWork ==
    ASSUME IInv, NEW now, EventStep(now)
    PROVE  WorkInv' /\ ReadyInv'
  <1>1. ASSUME NEW j \in Jobs
        PROVE  /\ job'[j].phase \in WorkPhases => Work'
               /\ job'[j].phase = "verify" => HasChecks
    <2>1. CASE job'[j] = now[j]
      BY <2>1, Before, WorkGoesOn DEF IInv, WorkInv, WorkPhases
    <2>2. CASE Begins(now, j)
      BY <2>2, OldOrNew DEF TaskPhases, WorkPhases, PlanPhases
    <2> QED
      BY <2>1, <2>2, OldOrNew
  <1>2. WorkInv'
    BY <1>1, WorkGoesOn DEF WorkInv, HasChecks
  <1>3. ASSUME NEW j \in Jobs
        PROVE  /\ At(j, "checkpoint")' => job'[j].phase \in TaskPhases
               /\ At(j, "checkpoint")' \/ At(j, "ready")' => job'[j].says = {"answers"}
               /\ At(j, "ready")' =>
                    /\ job'[j].phase \in Phases
                    /\ job'[j].phase \in PlanPhases =>
                         state' = StateOf[job'[j].phase] /\ turnEvents' = {}
                    /\ job'[j].phase = "plan" => job'[j].decision = pending'
                    /\ job'[j].phase = "verify" => runId' # NoRun
    <2>1. CASE job'[j] = now[j]
      BY <2>1, Before DEF IInv, ReadyInv, At
    <2>2. CASE Begins(now, j)
      <3>1. job'[j].says = {"answers"} /\ job'[j].decision = pending'
        BY <2>2 DEF Begins
      <3>2. CASE /\ job'[j].phase = "verify" /\ job'[j].step = "ready"
                 /\ runId' \in Runs
        BY <3>1, <3>2, WorkflowAssumption DEF At, Phases, WorkPhases, PlanPhases
      <3>3. CASE job'[j].phase \in TaskPhases
        BY <3>1, <3>3 DEF At, Phases, WorkPhases, PlanPhases, TaskPhases
      <3>4. CASE /\ job'[j].step = "ready" /\ job'[j].phase \in PlanPhases
                 /\ Opens(job'[j].phase)
        BY <3>1, <3>4 DEF At, Phases, PlanPhases, Opens
      <3> QED
        BY <2>2, <3>2, <3>3, <3>4, OldOrNew
    <2> QED
      BY <2>1, <2>2, OldOrNew
  <1>4. ReadyInv'
    BY <1>3 DEF ReadyInv
  <1> QED
    BY <1>2, <1>4

LEMMA StillWaiting ==
    ASSUME IInv, NEW now, EventStep(now), NEW j \in Jobs
    PROVE  /\ At(j, "ensure")' <=> At(j, "ensure")
           /\ At(j, "ensure") => job'[j] = now[j] /\ job'[j].phase = job[j].phase
  <1>1. now[j].step = "ensure" <=> At(j, "ensure")
    BY Before
  <1>2. CASE job'[j] = now[j]
    BY <1>1, <1>2, Before DEF At
  <1>3. CASE Begins(now, j)
    BY <1>1, <1>3 DEF At, Begins
  <1> QED
    BY <1>2, <1>3, OldOrNew

LEMMA StepEnsure ==
    ASSUME IInv, NEW now, EventStep(now)
    PROVE  EnsureInv'
  <1> SUFFICES ASSUME NEW j \in Jobs, At(j, "ensure")'
               PROVE  /\ job'[j].phase \in Phases
                      /\ {"goal", "answers"} \cup MemoryBlock' \subseteq job'[j].says
                      /\ job'[j].phase # "explore" => ModeNote' \subseteq job'[j].says
                      /\ job'[j].phase = "explore" => ~planApproved'
                      /\ job'[j].phase = "plan" /\ mode' # "fastfix" =>
                           "choice" \in job'[j].says
                      /\ job'[j].phase = "verify" /\ "results" \notin job'[j].says =>
                           \E k \in Jobs \ {j} : At(k, "ready")' \/ At(k, "ensure")'
    BY DEF EnsureInv
  <1>1. /\ At(j, "ensure") /\ job'[j] = now[j] /\ job'[j].phase = job[j].phase
    BY StillWaiting
  <1>2. /\ job[j].phase \in Phases
        /\ {"goal", "answers"} \cup MemoryBlock \subseteq job[j].says
        /\ job[j].phase # "explore" => ModeNote \subseteq job[j].says
        /\ job[j].phase = "explore" => ~planApproved
        /\ job[j].phase = "plan" /\ mode # "fastfix" => "choice" \in job[j].says
        /\ job[j].phase = "verify" /\ "results" \notin job[j].says =>
             \E k \in Jobs \ {j} : At(k, "ready") \/ At(k, "ensure")
    BY <1>1 DEF IInv, EnsureInv
  <1>3. \/ now[j].says = job[j].says
        \/ /\ now[j].says = job[j].says \ {"results"}
           /\ HasChecks => \E b \in Jobs : /\ now[b].step = "none"
                                           /\ job'[b].step = "ready"
    BY <1>1 DEF EventStep, Carried, At
  <1>4. MemoryBlock' = MemoryBlock /\ ModeNote' = ModeNote /\ mode' = mode
    BY DEF MemoryBlock, ModeNote, EventStep, FactsKept, Outcome, Typed
  <1>5. "results" \notin MemoryBlock /\ "results" \notin ModeNote
    BY DEF MemoryBlock, ModeNote
  <1>6. job'[j].phase = "explore" => ~planApproved'
    <2>1. SUFFICES ASSUME job[j].phase = "explore", planApproved' PROVE FALSE
      BY <1>1
    <2>2. ~planApproved
      BY <1>2, <2>1
    <2>3. state = "awaitingPlanApproval" \/ (state = "planning" /\ turnEvents # {})
      BY <2>1, <2>2, WorkGoesOn
    <2> QED
      BY <1>1, <2>3 DEF IInv, WaitingInv, Work, WorkStates
  <1>7. ASSUME job'[j].phase = "verify", "results" \notin job'[j].says
        PROVE  \E k \in Jobs \ {j} : At(k, "ready")' \/ At(k, "ensure")'
    <2>1. CASE now[j].says = job[j].says
      <3>1. PICK k \in Jobs \ {j} : At(k, "ready") \/ At(k, "ensure")
        BY <1>1, <1>2, <1>7, <2>1
      <3>2. At(k, "ensure")
        BY <3>1 DEF EventStep, SomePressing, Pressing
      <3> QED
        BY <3>1, <3>2, StillWaiting
    <2>2. CASE HasChecks => \E b \in Jobs : /\ now[b].step = "none"
                                            /\ job'[b].step = "ready"
      <3>1. HasChecks
        BY <1>1, <1>7 DEF IInv, WorkInv
      <3>2. PICK b \in Jobs : now[b].step = "none" /\ job'[b].step = "ready"
        BY <2>2, <3>1
      <3>3. b # j /\ At(b, "ready")'
        BY <1>1, <3>2 DEF At
      <3> QED
        BY <3>3
    <2> QED
      BY <1>3, <2>1, <2>2
  <1> QED
    BY <1>1, <1>2, <1>3, <1>4, <1>5, <1>6, <1>7

LEMMA StepWaiting ==
    ASSUME IInv, NEW now, EventStep(now)
    PROVE  WaitingInv'
  <1> SUFFICES ASSUME NEW j \in Jobs, At(j, "ensure")'
               PROVE  \/ Work'
                      \/ /\ turnEvents' = {}
                         /\ state' \in {"idle", "exploring", "proposing", "planning", "paused"}
                         /\ state' \in {"proposing", "planning"} =>
                              \E k \in Jobs :
                                 \/ At(k, "ready")'
                                 \/ At(k, "ensure")' /\ job'[k].phase # "explore"
    BY DEF WaitingInv
  <1>1. At(j, "ensure") /\ ~live
    BY StillWaiting DEF IInv, SessionInv
  <1>2. CASE Work
    BY <1>2, WorkGoesOn
  <1>3. CASE ~Work
    <2>1. /\ turnEvents = {}
          /\ state \in {"idle", "exploring", "proposing", "planning", "paused"}
          /\ state \in {"proposing", "planning"} =>
               \E k \in Jobs : At(k, "ready") \/ (At(k, "ensure") /\ job[k].phase # "explore")
      BY <1>1, <1>3 DEF IInv, WaitingInv
    <2>2. CASE StaysAtTasks(now) \/ BeginsTasks(now)
      BY <2>2 DEF StaysAtTasks, BeginsTasks
    <2>3. CASE OpensTurn(now)
      <3>1. PICK p \in PlanPhases, b \in Jobs : Opens(p) /\ job'[b].step = "ready"
        BY <2>3 DEF OpensTurn
      <3>2. turnEvents' = {} /\ state' \in {"exploring", "proposing", "planning"}
        BY <3>1 DEF Opens, PlanPhases, StateOf
      <3> QED
        BY <3>1, <3>2 DEF At
    <2>4. CASE KeepsStill(now)
      <3>1. CASE state' \in {"paused", "idle"} /\ UNCHANGED turnEvents
        BY <2>1, <3>1
      <3>2. CASE UNCHANGED <<state, resumeState, turnEvents>>
        <4>1. CASE state \in {"proposing", "planning"}
          <5>1. PICK k \in Jobs : At(k, "ensure") /\ job[k].phase # "explore"
            BY <2>1, <4>1 DEF EventStep, SomePressing, Pressing
          <5>2. At(k, "ensure")' /\ job'[k].phase # "explore"
            BY <5>1, StillWaiting
          <5> QED
            BY <2>1, <3>2, <5>2
        <4> QED
          BY <2>1, <3>2, <4>1
      <3> QED
        BY <1>1, <2>1, <2>4, <3>1, <3>2 DEF KeepsStill
    <2> QED
      BY <2>2, <2>3, <2>4 DEF EventStep, Outcome
  <1> QED
    BY <1>2, <1>3

LEMMA StepTold ==
    ASSUME IInv, NEW now, EventStep(now)
    PROVE  ToldInv'
  <1> SUFFICES ASSUME live', ~byHand'
               PROVE  /\ {"goal"} \cup MemoryBlock' \subseteq knows'
                      /\ "answers" \notin knows' =>
                           /\ ~planApproved'
                           /\ \/ Work'
                              \/ state' = "exploring" /\ SomePressing'
                              \/ state' = "paused" /\ resumeState' = "exploring"
                      /\ ~(ModeNote' \subseteq knows') =>
                           /\ ~planApproved'
                           /\ \/ Work'
                              \/ state' \in {"idle", "exploring", "clarifying", "paused"}
                              \/ state' \in {"proposing", "planning"} /\ SomePressing'
    BY DEF ToldInv
  <1>1. /\ {"goal"} \cup MemoryBlock \subseteq knows
        /\ "answers" \notin knows =>
             /\ ~planApproved
             /\ Work \/ (state = "paused" /\ resumeState = "exploring")
        /\ ~(ModeNote \subseteq knows) =>
             /\ ~planApproved
             /\ Work \/ state \in {"idle", "exploring", "clarifying", "paused"}
    BY DEF IInv, ToldInv, EventStep, FactsKept
  <1>2. MemoryBlock' = MemoryBlock /\ ModeNote' = ModeNote
    BY DEF MemoryBlock, ModeNote, EventStep, FactsKept, Outcome, Typed
  <1>3. /\ MemoryBlock \subseteq {"memory"} /\ ModeNote \subseteq {"mode"}
    BY DEF MemoryBlock, ModeNote
  <1>4. \/ knows' \in {knows, knows \ {"choice"}, knows \ {"results"}}
        \/ /\ knows' = knows \ {"answers"}
           /\ ~Work /\ state' = "exploring" /\ \E b \in Jobs : job'[b].step = "ready"
    BY DEF EventStep, FactsKept
  <1>5. {"goal"} \cup MemoryBlock' \subseteq knows'
    BY <1>1, <1>2, <1>3, <1>4
  <1>6. (\E b \in Jobs : job'[b].step = "ready") => SomePressing'
    BY DEF SomePressing, Pressing, At
  <1>7. ASSUME ~planApproved, Work \/ state \in {"idle", "exploring", "clarifying", "paused"}
        PROVE  ~planApproved'
    BY <1>7, WorkGoesOn DEF Work, WorkStates
  <1>8. ASSUME "answers" \notin knows'
        PROVE  /\ ~planApproved'
               /\ \/ Work'
                  \/ state' = "exploring" /\ SomePressing'
                  \/ state' = "paused" /\ resumeState' = "exploring"
    <2>1. CASE "answers" \in knows
      <3>1. state' = "exploring" /\ \E b \in Jobs : job'[b].step = "ready"
        BY <1>4, <1>8, <2>1
      <3>2. ~Work'
        BY <3>1 DEF Work, WorkStates
      <3> QED
        BY <1>6, <3>1, <3>2, WorkGoesOn
    <2>2. CASE "answers" \notin knows
      <3>1. ~planApproved'
        BY <1>1, <1>7, <2>2
      <3>2. CASE Work
        BY <3>1, <3>2, WorkGoesOn
      <3>3. CASE ~Work /\ state = "paused" /\ resumeState = "exploring"
        <4>1. CASE BeginsTasks(now)
          BY <3>1, <4>1 DEF BeginsTasks
        <4>2. CASE OpensTurn(now)
          <5>1. PICK p \in PlanPhases, b \in Jobs : Opens(p) /\ job'[b].step = "ready"
            BY <4>2 DEF OpensTurn
          <5>2. p = "explore"
            BY <3>3, <5>1 DEF Opens
          <5>3. state' = "exploring"
            BY <5>1, <5>2 DEF Opens, StateOf
          <5> QED
            BY <1>6, <3>1, <5>1, <5>3
        <4>3. CASE KeepsStill(now)
          BY <3>1, <3>3, <4>3 DEF KeepsStill, Resumable
        <4> QED
          BY <3>3, <4>1, <4>2, <4>3 DEF EventStep, Outcome, StaysAtTasks
      <3> QED
        BY <1>1, <2>2, <3>2, <3>3
    <2> QED
      BY <2>1, <2>2
  <1>9. ASSUME ~(ModeNote' \subseteq knows')
        PROVE  /\ ~planApproved'
               /\ \/ Work'
                  \/ state' \in {"idle", "exploring", "clarifying", "paused"}
                  \/ state' \in {"proposing", "planning"} /\ SomePressing'
    <2>1. ~(ModeNote \subseteq knows)
      BY <1>2, <1>3, <1>4, <1>9
    <2>2. ~planApproved'
      BY <1>1, <1>7, <2>1
    <2>3. CASE Work
      BY <2>2, <2>3, WorkGoesOn
    <2>4. CASE ~Work /\ state \in {"idle", "exploring", "clarifying", "paused"}
      <3>1. CASE BeginsTasks(now)
        BY <2>2, <3>1 DEF BeginsTasks
      <3>2. CASE OpensTurn(now)
        <4>1. PICK p \in PlanPhases, b \in Jobs : Opens(p) /\ job'[b].step = "ready"
          BY <3>2 DEF OpensTurn
        <4>2. state' \in {"exploring", "proposing", "planning"}
          BY <4>1 DEF Opens, StateOf, PlanPhases
        <4> QED
          BY <1>6, <2>2, <4>1, <4>2
      <3>3. CASE KeepsStill(now)
        BY <2>2, <2>4, <3>3 DEF KeepsStill
      <3> QED
        BY <2>4, <3>1, <3>2, <3>3 DEF EventStep, Outcome, StaysAtTasks
    <2> QED
      BY <1>1, <2>1, <2>3, <2>4
  <1> QED
    BY <1>5, <1>8, <1>9

LEMMA StepChosen ==
    ASSUME IInv, NEW now, EventStep(now)
    PROVE  ChosenInv'
  <1> DEFINE Planned == \/ state \in {"planning", "awaitingPlanApproval"}
                        \/ state = "paused" /\ resumeState = "planning"
  <1> SUFFICES ASSUME mode' # "fastfix", Planned'
               PROVE  pending' = "row" /\ row' = "chosen"
    BY DEF ChosenInv
  <1>1. mode = mode' /\ mode # "fastfix" /\ state' # "proposing" /\ ~Work'
    BY DEF EventStep, Outcome, Typed, Work, WorkStates
  <1>2. SUFFICES Planned \/ (row' = "chosen" /\ pending' = "row")
    <2>1. \/ UNCHANGED <<row, pending>>
          \/ row' = "chosen" /\ pending' = "row"
      BY <1>1 DEF EventStep, FactsKept
    <2>2. Planned => pending = "row" /\ row = "chosen"
      BY <1>1 DEF IInv, ChosenInv
    <2> QED
      BY <1>2, <2>1, <2>2
  <1>3. CASE OpensTurn(now)
    <2>1. PICK p \in PlanPhases : Opens(p)
      BY <1>3 DEF OpensTurn
    <2>2. p = "plan"
      BY <1>1, <2>1 DEF Opens, StateOf, PlanPhases
    <2> QED
      BY <1>1, <2>1, <2>2 DEF Opens
  <1>4. CASE KeepsStill(now)
    BY <1>1, <1>4 DEF KeepsStill, IInv, PromptsTypeOK
  <1> QED
    BY <1>1, <1>3, <1>4 DEF EventStep, Outcome, StaysAtTasks, BeginsTasks

LEMMA StepEvent ==
    ASSUME IInv, NEW now, EventStep(now)
    PROVE  IInv'
  BY StepTyped, StepWork, StepEnsure, StepWaiting, StepTold, StepChosen DEF IInv

-----------------------------------------------------------------------------
(* The steps of that kind.                                                  *)

LEMMA Undisturbed == Idle => ~SomePressing
  BY DEF Idle, SomePressing, Pressing, At

LEMMA NoPromptTyped == NoPrompt \in JobType /\ NoPrompt.step = "none"
  BY DEF NoPrompt, JobType, Steps, Facts

LEMMA CarriedAsIs == IInv => Carried(job)
  BY DEF IInv, PromptsTypeOK, Carried

LEMMA CarriedRest ==
    ASSUME IInv, NEW j \in Jobs, At(j, "turn")
    PROVE  Carried([job EXCEPT ![j] = NoPrompt])
  <1> DEFINE rest == [job EXCEPT ![j] = NoPrompt]
  <1>1. job \in [Jobs -> JobType]
    BY DEF IInv, PromptsTypeOK
  <1>2. rest \in [Jobs -> JobType]
    BY <1>1, NoPromptTyped
  <1>3. rest[j] = NoPrompt /\ \A k \in Jobs \ {j} : rest[k] = job[k]
    BY <1>1
  <1> HIDE DEF rest
  <1>4. Carried(rest)
    BY <1>2, <1>3 DEF Carried
  <1> QED
    BY <1>4 DEF rest

LEMMA FactsAsTheyAre ==
    IInv /\ UNCHANGED <<row, pending, noted, live, knows, byHand>> /\ open' \in {open, NoJob}
    => FactsKept
  BY DEF IInv, PromptsTypeOK, FactsKept

LEMMA Sent ==
    ASSUME NEW now, now \in [Jobs -> JobType], StartPrompt(now),
           NEW p \in Phases \ TaskPhases, AsksFor(p),
           state' \notin {"executing", "revising"},
           pending' \in {"none", "row", "gone"}
    PROVE  \E b \in Jobs : now[b].step = "none" /\ job'[b].step = "ready"
  <1>1. /\ Requested("sendPrompt") /\ ~Requested("checkpoint")
        /\ fx'[PromptIndex].phase \in {p} /\ {p} \in SUBSET Phases
    BY Single
  <1>2. PICK b \in Jobs : Joined(now, b, {p}) /\ job'[b] = Begun
    BY <1>1, Starts
  <1> QED
    BY <1>1, <1>2, BegunIs DEF NoTaskVars, Joined

LEMMA StepCommand == IInv /\ Command => IInv'
  <1> SUFFICES ASSUME IInv, Command PROVE IInv'
    OBVIOUS
  <1>1. Moves
    BY StartMoves, ApprovePlanMoves, ApproveTaskMoves, ReviseMoves, RollbackMoves,
       PauseMoves, ResumeMoves DEF Command, IInv
  <1>2. /\ Carried(job) /\ StartPrompt(job) /\ ~SomePressing
        /\ UNCHANGED <<row, pending, noted, live, knows, byHand, open>>
    BY CarriedAsIs, Undisturbed DEF Command, Perform, factVars, agentVars
  <1>3. Outcome(job)
    BY <1>1, <1>2, StepOutcome DEF IInv, PromptsTypeOK
  <1> QED
    BY <1>2, <1>3, FactsAsTheyAre, StepEvent DEF EventStep

LEMMA StepAnswer == IInv /\ Answer => IInv'
  <1> SUFFICES ASSUME IInv, Answer PROVE IInv'
    OBVIOUS
  <1>1. Moves /\ AsksFor("explore") /\ state = "clarifying" /\ state' = "exploring"
    BY AnswerMoves DEF Answer, AnswerClarification, EnterExploring, OpenTurn, Enter,
                       IInv
  <1>2. ~SomePressing /\ UNCHANGED <<row, pending, noted>> /\ ~Work
    BY <1>1, Undisturbed DEF Answer, Work, WorkStates
  <1>3. \A j \in Jobs : ~At(j, "ensure") /\ ~At(j, "checkpoint")
    BY <1>1, <1>2 DEF IInv, WaitingInv, ReadyInv, WorkInv, WorkPhases
  <1>4. CASE question
    <2>1. /\ UNCHANGED <<live, open, byHand>> /\ knows' = knows \ {"answers"}
          /\ StartPrompt(Withdrawn("answers"))
      BY <1>4 DEF Answer, Outdated, Perform
    <2> DEFINE now == Withdrawn("answers")
    <2>2. /\ now \in [Jobs -> JobType]
          /\ \A j \in Jobs : now[j].step = job[j].step /\ now[j].phase = job[j].phase
      BY DEF Withdrawn, IInv, PromptsTypeOK, JobType
    <2> HIDE DEF now
    <2>3. Carried(now)
      BY <1>3, <2>2 DEF Carried
    <2>4. pending' \in {"none", "row", "gone"} /\ row' \in {"none", "open", "chosen"}
      BY <1>2 DEF IInv, PromptsTypeOK
    <2>5. StartPrompt(now)
      BY <2>1 DEF now
    <2>6. Outcome(now)
      BY <1>1, <2>2, <2>4, <2>5, StepOutcome
    <2>7. \E b \in Jobs : job'[b].step = "ready"
      <3>1. "explore" \in Phases \ TaskPhases
        BY DEF Phases, PlanPhases, TaskPhases
      <3> QED
        BY <1>1, <2>2, <2>4, <2>5, <3>1, Sent
    <2>8. FactsKept
      BY <1>1, <1>2, <2>1, <2>4, <2>7 DEF FactsKept
    <2> QED
      BY <1>2, <2>3, <2>6, <2>8, StepEvent DEF EventStep
  <1>5. CASE ~question
    <2>1. UNCHANGED <<live, open, knows, byHand>> /\ StartPrompt(job) /\ Carried(job)
      BY <1>5, CarriedAsIs DEF Answer, agentVars, Perform
    <2>2. Outcome(job)
      BY <1>1, <1>2, <2>1, StepOutcome DEF IInv, PromptsTypeOK
    <2> QED
      BY <1>2, <2>1, <2>2, FactsAsTheyAre, StepEvent DEF EventStep
  <1> QED
    BY <1>4, <1>5

LEMMA StepDecide ==
    ASSUME IInv, NEW id \in {"row", "gone"}, DecideOn(id)
    PROVE  IInv'
  <1>1. /\ row' = "chosen" /\ pending' = "row" /\ ~SomePressing
        /\ knows' = knows \ {"choice"} /\ UNCHANGED <<live, open, byHand, noted>>
        /\ StartPrompt(job) /\ Decide
    BY Undisturbed DEF DecideOn, KnownDecision, Outdated, Perform
  <1>2. Moves /\ Carried(job)
    BY <1>1, DecideMoves, CarriedAsIs DEF IInv
  <1>3. Outcome(job)
    BY <1>1, <1>2, StepOutcome DEF IInv, PromptsTypeOK
  <1>4. FactsKept
    BY <1>1 DEF FactsKept
  <1> QED
    BY <1>1, <1>2, <1>3, <1>4, StepEvent DEF EventStep

LEMMA StepAgentSays == IInv /\ AgentSays => IInv'
  <1> SUFFICES ASSUME IInv, AgentSays PROVE IInv'
    OBVIOUS
  <1>1. live /\ ~SomePressing
    BY Undisturbed DEF AgentSays, IInv, SessionInv, PromptsTypeOK
  <1>2. Moves /\ Asks({}) /\ UNCHANGED <<state, resumeState>>
    <2>1. PlanEvent \/ \E e \in AgentEvents : AgentEvent(e)
      BY DEF AgentSays
    <2> QED
      BY <1>1, <2>1, AgentMoves DEF IInv
  <1>3. UNCHANGED noted
    BY DEF AgentSays
  <1>4. job \in [Jobs -> JobType]
    BY DEF IInv, PromptsTypeOK
  <1>5. CASE Requested("recordDecision") /\ DecisionRecorded
    <2>1. state = "proposing"
      <3>1. ASSUME NEW e \in AgentEvents, AgentEvent(e)
            PROVE  state = "proposing"
        <4>1. fx' = EffectsOf(e) /\ Accepts(e)
          BY <3>1 DEF AgentEvent
        <4>2. CASE e = "decision_needed"
          BY <4>1, <4>2 DEF Accepts
        <4>3. CASE e = "evidence"
          <5>1. DOMAIN fx' = {1} /\ fx'[1] = Do("recordEvidence")
            BY <4>1, <4>3 DEF EffectsOf
          <5> QED
            BY <1>5, <5>1 DEF Requested, Do
        <4>4. CASE e \notin {"decision_needed", "evidence"}
          <5>1. DOMAIN fx' = {}
            BY <4>1, <4>4 DEF EffectsOf
          <5> QED
            BY <1>5, <5>1 DEF Requested
        <4> QED
          BY <4>2, <4>3, <4>4
      <3>2. ASSUME PlanEvent PROVE FALSE
        <4>1. DOMAIN fx' = {1} /\ fx'[1] = Do("recordPlan")
          BY <3>2 DEF PlanEvent
        <4> QED
          BY <1>5, <4>1 DEF Requested, Do
      <3> QED
        BY <3>1, <3>2 DEF AgentSays
    <2>2. /\ knows' = knows \ {"choice"} /\ UNCHANGED <<live, open, byHand>>
          /\ row' \in {"none", "open", "chosen"} /\ pending' \in {"none", "row", "gone"}
      BY <1>5 DEF DecisionRecorded, Outdated, IInv, PromptsTypeOK
    <2>3. /\ job' \in [Jobs -> JobType]
          /\ \A j \in Jobs : /\ job'[j].step = job[j].step
                             /\ job'[j].phase = job[j].phase
                             /\ job'[j].says = job[j].says
      BY <1>4, <1>5 DEF DecisionRecorded, JobType
    <2>4. Carried(job')
      BY <2>3 DEF Carried
    <2>5. StartPrompt(job')
      BY <1>2, Unasked DEF StartPrompt
    <2>6. Outcome(job')
      BY <1>2, <2>2, <2>3, <2>5, StepOutcome
    <2>7. FactsKept
      BY <1>2, <1>3, <2>1, <2>2 DEF FactsKept
    <2> QED
      BY <1>1, <2>4, <2>6, <2>7, StepEvent DEF EventStep
  <1>6. CASE UNCHANGED <<row, pending, job, agentVars>>
    <2>1. Carried(job) /\ FactsKept
      BY <1>3, <1>6, CarriedAsIs, FactsAsTheyAre DEF agentVars
    <2>2. StartPrompt(job)
      BY <1>2, <1>6, Unasked DEF StartPrompt
    <2>3. Outcome(job)
      BY <1>2, <1>4, <1>6, <2>2, StepOutcome DEF IInv, PromptsTypeOK
    <2> QED
      BY <1>1, <2>1, <2>3, StepEvent DEF EventStep
  <1> QED
    BY <1>5, <1>6 DEF AgentSays

LEMMA StepReturns ==
    ASSUME IInv, NEW j \in Jobs, PromptReturns(j)
    PROVE  IInv'
  <1> DEFINE rest == [job EXCEPT ![j] = NoPrompt]
  <1>1. Carried(rest) /\ rest \in [Jobs -> JobType]
    BY CarriedRest DEF PromptReturns, Carried
  <1>2. FactsKept /\ ~SomePressing /\ pending' = pending
    BY FactsAsTheyAre, Undisturbed DEF PromptReturns, factVars
  <1>3. Outcome(rest)
    <2>1. PICK finished \in BOOLEAN : Report(j, finished)
      BY DEF PromptReturns
    <2>2. CASE /\ IF finished THEN TurnFinished ELSE TurnFailed
               /\ Perform(rest)
      <3>1. Moves
        BY <2>2, FinishedMoves, FailedMoves DEF IInv
      <3> QED
        BY <1>1, <1>2, <2>2, <3>1, StepOutcome DEF Perform, IInv, PromptsTypeOK
    <2>3. CASE job' = rest /\ UNCHANGED <<vars, collecting>>
      BY <2>3, Dropped DEF vars, IInv
    <2> QED
      BY <2>1, <2>2, <2>3 DEF Report
  <1> QED
    BY <1>1, <1>2, <1>3, StepEvent DEF EventStep

LEMMA StepCollector == IInv /\ CollectorDone => IInv'
  <1> SUFFICES ASSUME IInv, CollectorDone PROVE IInv'
    OBVIOUS
  <1>1. ~SomePressing /\ UNCHANGED <<row, pending, noted>>
    BY Undisturbed DEF CollectorDone, factVars
  <1>2. ASSUME NEW run \in Runs, NEW risk \in {"low", "high"},
               VerificationDone(run, risk), Outdated("results"),
               StartPrompt(Withdrawn("results"))
        PROVE  IInv'
    <2>1. Moves /\ (HasChecks => AsksFor("verify")) /\ state' = "verifying"
      BY <1>2, VerifiedMoves DEF IInv, VerificationDone
    <2> DEFINE now == Withdrawn("results")
    <2>2. /\ now \in [Jobs -> JobType]
          /\ \A j \in Jobs : /\ now[j].step = job[j].step /\ now[j].phase = job[j].phase
                             /\ now[j].says = job[j].says \ {"results"}
      BY DEF Withdrawn, IInv, PromptsTypeOK, JobType
    <2>3. StartPrompt(now)
      BY <1>2
    <2> HIDE DEF now
    <2>4. pending' \in {"none", "row", "gone"} /\ row' \in {"none", "open", "chosen"}
      BY <1>1 DEF IInv, PromptsTypeOK
    <2>5. HasChecks => \E b \in Jobs : now[b].step = "none" /\ job'[b].step = "ready"
      <3>1. "verify" \in Phases \ TaskPhases
        BY DEF Phases, WorkPhases, TaskPhases
      <3> QED
        BY <2>1, <2>2, <2>3, <2>4, <3>1, Sent
    <2>6. \A j \in Jobs : At(j, "checkpoint") => now[j].says = job[j].says
      BY <2>2 DEF IInv, ReadyInv
    <2>7. Carried(now)
      BY <2>2, <2>5, <2>6 DEF Carried
    <2>8. Outcome(now)
      BY <2>1, <2>2, <2>3, <2>4, StepOutcome
    <2>9. FactsKept
      BY <1>1, <1>2, <2>4 DEF FactsKept, Outdated
    <2> QED
      BY <1>1, <2>7, <2>8, <2>9, StepEvent DEF EventStep
  <1>3. ASSUME VerificationFailed, UNCHANGED agentVars, StartPrompt(job)
        PROVE  IInv'
    <2>1. Moves /\ Carried(job) /\ FactsKept
      BY <1>1, <1>3, UnverifiedMoves, CarriedAsIs, FactsAsTheyAre DEF IInv, agentVars
    <2>2. Outcome(job)
      BY <1>1, <1>3, <2>1, StepOutcome DEF IInv, PromptsTypeOK
    <2> QED
      BY <1>1, <2>1, <2>2, StepEvent DEF EventStep
  <1> QED
    BY <1>2, <1>3 DEF CollectorDone

LEMMA StepReconciled == IInv /\ Reconciled => IInv'
  <1> SUFFICES ASSUME IInv, Reconciled PROVE IInv'
    OBVIOUS
  <1>1. ~SomePressing
    BY DEF Reconciled, SomePressing, Pressing, At
  <1>2. Moves
    BY ResultMoves DEF Reconciled, IInv
  <1>3. /\ Carried(job) /\ FactsKept /\ pending' = pending /\ StartPrompt(job)
    BY CarriedAsIs, FactsAsTheyAre DEF Reconciled, factVars, agentVars, Perform
  <1>4. Outcome(job)
    BY <1>2, <1>3, StepOutcome DEF IInv, PromptsTypeOK
  <1> QED
    BY <1>1, <1>3, <1>4, StepEvent DEF EventStep

-----------------------------------------------------------------------------
(* The steps of a prompt and of its session.                                *)

(* Where the machine and the facts rest, the invariant is about the prompts *)
(* and the session.                                                         *)
MachineRests ==
    UNCHANGED <<state, resumeState, mode, runId, planApproved, turnEvents, row,
                pending>>

LEMMA Resting ==
    ASSUME IInv, MachineRests
    PROVE  /\ Work' = Work /\ ModeNote' = ModeNote /\ ChosenInv'
           /\ planApproved' => Work'
  BY DEF IInv, MachineRests, Work, ModeNote, ChosenInv, WorkInv

(* A user's prompt, the end of a turn, the loss of a session and a note     *)
(* leave the machine's prompts as they are.                                 *)
LEMMA StepSession ==
    ASSUME IInv, HandPrompt \/ TurnCloses \/ SessionLost \/ RecordMemoryNote
    PROVE  IInv'
  <1>1. MachineRests /\ UNCHANGED job
    BY DEF HandPrompt, TurnCloses, SessionLost, RecordMemoryNote, MachineRests,
           factVars, vars
  <1>2. /\ noted' \in BOOLEAN /\ live' \in BOOLEAN /\ byHand' \in BOOLEAN
        /\ open' \in Jobs \cup {NoJob, Hand} /\ knows' \in SUBSET Facts
        /\ ~live' => open' = NoJob /\ knows' = {}
        /\ live' => live
    <2>1. /\ noted \in BOOLEAN /\ live \in BOOLEAN /\ byHand \in BOOLEAN
          /\ open \in Jobs \cup {NoJob, Hand} /\ knows \in SUBSET Facts
          /\ ~live => open = NoJob /\ knows = {}
      BY DEF IInv, PromptsTypeOK, SessionInv
    <2>2. CASE HandPrompt
      BY <2>1, <2>2 DEF HandPrompt, factVars
    <2>3. CASE TurnCloses
      BY <2>1, <2>3 DEF TurnCloses, factVars
    <2>4. CASE SessionLost
      BY <2>1, <2>4 DEF SessionLost, factVars
    <2>5. CASE RecordMemoryNote
      BY <2>1, <2>5 DEF RecordMemoryNote, Facts
    <2> QED
      BY <2>2, <2>3, <2>4, <2>5
  <1>3. \/ UNCHANGED noted
        \/ live /\ noted' = TRUE /\ knows' = knows \cup {"memory"}
    BY DEF HandPrompt, TurnCloses, SessionLost, RecordMemoryNote, factVars, IInv,
           SessionInv
  <1>4. PromptsTypeOK' /\ OnePressing' /\ SessionInv' /\ WorkInv' /\ ReadyInv'
    <2>1. PromptsTypeOK'
      BY <1>1, <1>2 DEF IInv, PromptsTypeOK, MachineRests
    <2>2. OnePressing' /\ SessionInv'
      BY <1>1, <1>2 DEF IInv, OnePressing, SessionInv, Pressing, At
    <2>3. WorkInv'
      BY <1>1, Resting DEF IInv, WorkInv, HasChecks
    <2>4. ReadyInv'
      BY <1>1 DEF IInv, ReadyInv, MachineRests, At
    <2> QED
      BY <2>1, <2>2, <2>3, <2>4
  <1>5. EnsureInv'
    <2>1. CASE live
      BY <1>1, <2>1 DEF IInv, SessionInv, EnsureInv, At
    <2>2. CASE UNCHANGED noted
      <3>1. MemoryBlock' = MemoryBlock /\ ModeNote' = ModeNote
        BY <1>1, <2>2, Resting DEF MemoryBlock
      <3> QED
        BY <1>1, <3>1 DEF IInv, EnsureInv, MachineRests, At
    <2> QED
      BY <1>3, <2>1, <2>2
  <1>6. WaitingInv'
    BY <1>1, Resting DEF IInv, WaitingInv, MachineRests, At
  <1>7. ToldInv'
    <2> SUFFICES ASSUME live', ~byHand' PROVE ToldInv'
      BY DEF ToldInv
    <2>1. live /\ ~byHand /\ (knows' = knows \/ knows' = knows \cup {"memory"})
      BY <1>2 DEF HandPrompt, TurnCloses, SessionLost, RecordMemoryNote
    <2>2. {"goal"} \cup MemoryBlock' \subseteq knows'
      BY <1>3, <2>1 DEF IInv, ToldInv, MemoryBlock
    <2>3. SomePressing' = SomePressing /\ Work' = Work /\ ModeNote' = ModeNote
      BY <1>1, Resting DEF SomePressing, Pressing, At
    <2>4. /\ "answers" \notin knows' => "answers" \notin knows
          /\ ~(ModeNote' \subseteq knows') => ~(ModeNote \subseteq knows)
      BY <2>1, <2>3
    <2> QED
      BY <1>1, <2>1, <2>2, <2>3, <2>4 DEF IInv, ToldInv, MachineRests
  <1> QED
    BY <1>1, <1>4, <1>5, <1>6, <1>7, Resting DEF IInv

(* One prompt goes from `from` on to `step`.                                *)
LEMMA Going ==
    ASSUME IInv, NEW j \in Jobs, NEW step \in Steps, GoTo(j, step)
    PROVE  /\ job' \in [Jobs -> JobType]
           /\ \A k \in Jobs \ {j} : job'[k] = job[k]
           /\ job'[j].step = step /\ job'[j].phase = job[j].phase
           /\ job'[j].says = job[j].says /\ job'[j].decision = job[j].decision
  <1>1. job \in [Jobs -> JobType] /\ job' = [job EXCEPT ![j].step = step]
    BY DEF IInv, PromptsTypeOK, GoTo
  <1>2. job'[j] = [job[j] EXCEPT !.step = step]
    BY <1>1
  <1> QED
    BY <1>1, <1>2 DEF JobType

LEMMA StepCheckpoint ==
    ASSUME IInv, NEW j \in Jobs, CheckpointDone(j)
    PROVE  IInv'
  <1>1. /\ MachineRests /\ UNCHANGED <<noted, live, open, knows, byHand>>
        /\ At(j, "checkpoint") /\ ~SomePressing
    BY Undisturbed DEF CheckpointDone, MachineRests, factVars, agentVars, vars
  <1>2. PICK step \in {"ready", "refused"} : GoTo(j, step)
    BY DEF CheckpointDone
  <1>3. /\ job' \in [Jobs -> JobType]
        /\ \A k \in Jobs \ {j} : job'[k] = job[k]
        /\ job'[j].step = step /\ job'[j].phase = job[j].phase
        /\ job'[j].says = job[j].says
    BY <1>2, Going DEF Steps
  <1>4. \A k \in Jobs : /\ At(k, "ensure")' <=> At(k, "ensure")
                        /\ At(k, "ensure") => job'[k] = job[k]
                        /\ Pressing(k)' => k = j
                        /\ job'[k].phase = job[k].phase
    BY <1>1, <1>2, <1>3 DEF At, SomePressing, Pressing
  <1>5. PromptsTypeOK'
    BY <1>1, <1>3 DEF IInv, PromptsTypeOK, MachineRests
  <1>6. OnePressing' /\ SessionInv' /\ WorkInv'
    <2>1. OnePressing'
      BY <1>4 DEF OnePressing, Pressing
    <2>2. SessionInv'
      BY <1>1, <1>4 DEF IInv, SessionInv
    <2>3. WorkInv'
      BY <1>1, <1>4, Resting DEF IInv, WorkInv, HasChecks
    <2> QED
      BY <2>1, <2>2, <2>3
  <1>7. ReadyInv'
    <2>1. /\ job[j].phase \in TaskPhases /\ job[j].says = {"answers"}
      BY <1>1 DEF IInv, ReadyInv
    <2>2. \A k \in Jobs : /\ At(k, "checkpoint")' => At(k, "checkpoint")
                          /\ At(k, "ready")' => k = j
                          /\ k # j => job'[k] = job[k]
      BY <1>2, <1>3, <1>4 DEF At, Pressing
    <2> QED
      BY <1>3, <2>1, <2>2 DEF IInv, ReadyInv, Phases, WorkPhases, PlanPhases, TaskPhases
  <1>8. EnsureInv'
    <2>1. MemoryBlock' = MemoryBlock /\ ModeNote' = ModeNote
      BY <1>1, Resting DEF MemoryBlock
    <2>2. ~ \E k \in Jobs : At(k, "ready")
      BY <1>1 DEF SomePressing, Pressing
    <2> QED
      BY <1>1, <1>4, <2>1, <2>2 DEF IInv, EnsureInv, MachineRests
  <1>9. WaitingInv'
    <2>1. ~ \E k \in Jobs : At(k, "ready")
      BY <1>1 DEF SomePressing, Pressing
    <2> QED
      BY <1>1, <1>4, <2>1, Resting DEF IInv, WaitingInv, MachineRests
  <1>10. ToldInv'
    <2>1. MemoryBlock' = MemoryBlock /\ ModeNote' = ModeNote /\ Work' = Work
      BY <1>1, Resting DEF MemoryBlock
    <2> QED
      BY <1>1, <2>1 DEF IInv, ToldInv, MachineRests
  <1> QED
    BY <1>1, <1>5, <1>6, <1>7, <1>8, <1>9, <1>10, Resting DEF IInv

(* What a prompt states that is sent, or with which a session is awaited.   *)
LEMMA Stated ==
    ASSUME IInv, NEW j \in Jobs, At(j, "ready")
    PROVE  /\ Says(job[j]) \in SUBSET Facts
           /\ ~live \/ job[j].phase = "explore" =>
                {"goal", "answers"} \cup MemoryBlock \subseteq Says(job[j])
           /\ job[j].phase \in {"propose", "plan"} => ModeNote \subseteq Says(job[j])
           /\ ~live /\ job[j].phase # "explore" => ModeNote \subseteq Says(job[j])
           /\ job[j].phase = "plan" /\ mode # "fastfix" => "choice" \in Says(job[j])
           /\ job[j].phase = "verify" => "results" \in Says(job[j])
  <1>1. /\ job[j].says = {"answers"} /\ job[j].phase \in Phases
        /\ job[j].phase \in PlanPhases => state = StateOf[job[j].phase]
        /\ job[j].phase = "plan" => job[j].decision = pending
        /\ job[j].phase = "verify" => runId # NoRun
    BY DEF IInv, ReadyInv
  <1>2. ClarificationsBlock(job[j]) = {"answers"}
    BY <1>1 DEF ClarificationsBlock
  <1>3. /\ MemoryBlock \subseteq {"memory"} /\ ModeNote \subseteq {"mode"}
        /\ DecisionLine(job[j].decision) \subseteq {"choice"}
        /\ CommandResults \subseteq {"results"}
    BY DEF MemoryBlock, ModeNote, DecisionLine, CommandResults
  <1>4. job[j].phase = "plan" /\ mode # "fastfix" =>
            DecisionLine(job[j].decision) = {"choice"}
    <2>1. SUFFICES ASSUME job[j].phase = "plan", mode # "fastfix"
                   PROVE  DecisionLine(job[j].decision) = {"choice"}
      OBVIOUS
    <2>2. state = "planning"
      BY <1>1, <2>1 DEF PlanPhases, StateOf
    <2> QED
      BY <1>1, <2>1, <2>2 DEF IInv, ChosenInv, DecisionLine
  <1>5. job[j].phase = "verify" => CommandResults = {"results"}
    BY <1>1 DEF CommandResults
  <1>6. Vars(job[j]) =
          CASE job[j].phase = "explore" -> {"goal", "answers"} \cup MemoryBlock
            [] job[j].phase = "propose" -> {"goal"} \cup ModeNote
            [] job[j].phase = "plan" ->
                 {"goal"} \cup DecisionLine(job[j].decision) \cup ModeNote
            [] job[j].phase = "verify" -> CommandResults
            [] OTHER -> {}
    BY <1>2 DEF Vars, GoalWithContext
  <1>7. Fresh(job[j]) => ObjectiveBrief(job[j]) =
          {"goal", "answers"} \cup ModeNote \cup DecisionLine(job[j].decision)
                              \cup MemoryBlock
    BY <1>2 DEF ObjectiveBrief, GoalWithContext
  <1>8. Fresh(job[j]) <=> ~live /\ job[j].phase # "explore"
    BY DEF Fresh
  <1> DEFINE brief == IF Fresh(job[j]) THEN ObjectiveBrief(job[j]) ELSE {}
  <1>9. Says(job[j]) = Vars(job[j]) \cup brief
    BY DEF Says
  <1>10. /\ Vars(job[j]) \subseteq Facts
         /\ job[j].phase = "explore" =>
              {"goal", "answers"} \cup MemoryBlock \subseteq Vars(job[j])
         /\ job[j].phase \in {"propose", "plan"} => ModeNote \subseteq Vars(job[j])
         /\ job[j].phase = "plan" /\ mode # "fastfix" => "choice" \in Vars(job[j])
         /\ job[j].phase = "verify" => "results" \in Vars(job[j])
    BY <1>3, <1>4, <1>5, <1>6 DEF Facts
  <1>11. /\ brief \subseteq Facts
         /\ ~live /\ job[j].phase # "explore" =>
              {"goal", "answers"} \cup MemoryBlock \cup ModeNote \subseteq brief
    BY <1>3, <1>7, <1>8 DEF Facts
  <1> HIDE DEF brief
  <1> QED
    BY <1>9, <1>10, <1>11

(* Its turn has come, or has not: the prompts it leaves behind are idle.    *)
LEMMA Alone ==
    ASSUME IInv, NEW j \in Jobs, At(j, "ready"), NEW k \in Jobs, k # j
    PROVE  ~Pressing(k)
  BY DEF IInv, OnePressing

LEMMA ProceedRefused ==
    ASSUME IInv, NEW j \in Jobs, At(j, "ready"), live, GoTo(j, "refused"),
           MachineRests, UNCHANGED <<noted, live, open, knows, byHand>>
    PROVE  IInv'
  <1>1. /\ job' \in [Jobs -> JobType]
        /\ \A k \in Jobs \ {j} : job'[k] = job[k]
        /\ job'[j].step = "refused" /\ job'[j].phase = job[j].phase
        /\ job'[j].says = job[j].says
    BY Going DEF Steps
  <1>2. \A k \in Jobs : /\ ~At(k, "ensure")'
                        /\ ~At(k, "ready")'
                        /\ At(k, "checkpoint")' => job'[k] = job[k]
                        /\ job'[k].phase = job[k].phase
    BY <1>1, Alone DEF At, Pressing, IInv, SessionInv
  <1>3. PromptsTypeOK'
    BY <1>1 DEF IInv, PromptsTypeOK, MachineRests
  <1>4. OnePressing' /\ SessionInv' /\ WorkInv' /\ ReadyInv'
    <2>1. OnePressing' /\ SessionInv'
      BY <1>2 DEF OnePressing, SessionInv, IInv
    <2>2. WorkInv'
      BY <1>2, Resting DEF IInv, WorkInv, HasChecks
    <2>3. ReadyInv'
      BY <1>2 DEF IInv, ReadyInv, At
    <2> QED
      BY <2>1, <2>2, <2>3
  <1>5. EnsureInv' /\ WaitingInv'
    BY <1>2 DEF EnsureInv, WaitingInv
  <1>6. ToldInv'
    <2>1. MemoryBlock' = MemoryBlock /\ ModeNote' = ModeNote /\ Work' = Work
      BY Resting DEF MemoryBlock
    <2>2. SomePressing'
      BY <1>1 DEF SomePressing, Pressing, At
    <2> QED
      BY <2>1, <2>2 DEF IInv, ToldInv, MachineRests
  <1> QED
    BY <1>3, <1>4, <1>5, <1>6, Resting DEF IInv

LEMMA ProceedSent ==
    ASSUME IInv, NEW j \in Jobs, At(j, "ready"), live,
           job' = [job EXCEPT ![j] = AtAgent], open' = j,
           knows' = knows \cup Says(job[j]),
           MachineRests, UNCHANGED <<noted, live, byHand>>
    PROVE  IInv'
  <1>1. /\ job' \in [Jobs -> JobType] /\ job'[j] = AtAgent
        /\ \A k \in Jobs \ {j} : job'[k] = job[k]
    <2>1. AtAgent \in JobType
      BY DEF AtAgent, NoPrompt, JobType, Steps, Facts
    <2> QED
      BY <2>1 DEF IInv, PromptsTypeOK
  <1>2. AtAgent.step = "turn" /\ AtAgent.phase = "none"
    BY DEF AtAgent, NoPrompt
  <1>3. \A k \in Jobs : /\ ~At(k, "ensure")' /\ ~Pressing(k)'
                        /\ At(k, "checkpoint")' => job'[k] = job[k]
                        /\ job'[k].phase \in WorkPhases => job'[k] = job[k]
    BY <1>1, <1>2, Alone DEF At, Pressing, IInv, SessionInv, WorkPhases, TaskPhases
  <1>4. PromptsTypeOK'
    BY <1>1, Stated DEF IInv, PromptsTypeOK, MachineRests
  <1>5. OnePressing' /\ SessionInv' /\ WorkInv' /\ ReadyInv'
    <2>1. OnePressing' /\ SessionInv'
      BY <1>3 DEF OnePressing, SessionInv
    <2>2. WorkInv'
      BY <1>3, Resting DEF IInv, WorkInv, HasChecks, WorkPhases
    <2>3. ReadyInv'
      BY <1>3 DEF IInv, ReadyInv, At, Pressing
    <2> QED
      BY <2>1, <2>2, <2>3
  <1>6. EnsureInv' /\ WaitingInv'
    BY <1>3 DEF EnsureInv, WaitingInv
  <1>7. ToldInv'
    <2> SUFFICES ASSUME ~byHand' PROVE ToldInv'
      BY DEF ToldInv
    <2>1. MemoryBlock' = MemoryBlock /\ ModeNote' = ModeNote /\ Work' = Work
      BY Resting DEF MemoryBlock
    <2>2. {"goal"} \cup MemoryBlock \subseteq knows'
      BY DEF IInv, ToldInv
    <2>3. /\ job[j].phase \in Phases
          /\ job[j].phase \in PlanPhases => state = StateOf[job[j].phase]
          /\ job[j].phase \in WorkPhases => Work
      BY DEF IInv, ReadyInv, WorkInv
    <2>4. ASSUME "answers" \notin knows'
          PROVE  ~planApproved /\ (Work \/ (state = "paused" /\ resumeState = "exploring"))
      <3>1. "answers" \notin knows /\ job[j].phase # "explore"
        BY <2>4, Stated
      <3>2. state # "exploring" \/ Work
        BY <2>3, <3>1 DEF Phases, PlanPhases, StateOf
      <3> QED
        BY <3>1, <3>2 DEF IInv, ToldInv
    <2>5. ASSUME ~(ModeNote \subseteq knows')
          PROVE  ~planApproved /\ (Work \/ state \in {"idle", "exploring", "clarifying", "paused"})
      <3>1. ~(ModeNote \subseteq knows) /\ job[j].phase \notin {"propose", "plan"}
        BY <2>5, Stated
      <3>2. state \notin {"proposing", "planning"} \/ Work
        BY <2>3, <3>1 DEF Phases, PlanPhases, StateOf
      <3> QED
        BY <3>1, <3>2 DEF IInv, ToldInv
    <2> QED
      BY <2>1, <2>2, <2>4, <2>5 DEF ToldInv, MachineRests
  <1> QED
    BY <1>4, <1>5, <1>6, <1>7, Resting DEF IInv

LEMMA ProceedWaits ==
    ASSUME IInv, NEW j \in Jobs, At(j, "ready"), ~live,
           job' = [job EXCEPT ![j].step = "ensure", ![j].says = Says(job[j])],
           MachineRests, UNCHANGED <<noted, live, open, knows, byHand>>
    PROVE  IInv'
  <1>1. /\ job' \in [Jobs -> JobType]
        /\ \A k \in Jobs \ {j} : job'[k] = job[k]
        /\ job'[j].step = "ensure" /\ job'[j].phase = job[j].phase
        /\ job'[j].says = Says(job[j])
    <2>1. job[j] \in JobType /\ job \in [Jobs -> JobType]
      BY DEF IInv, PromptsTypeOK
    <2>2. job'[j] = [job[j] EXCEPT !.step = "ensure", !.says = Says(job[j])]
      BY <2>1
    <2>3. Says(job[j]) \in SUBSET Facts /\ "ensure" \in Steps
      BY Stated DEF Steps
    <2>4. /\ job'[j] \in JobType /\ job'[j].step = "ensure"
          /\ job'[j].phase = job[j].phase /\ job'[j].says = Says(job[j])
      BY <2>1, <2>2, <2>3 DEF JobType
    <2> QED
      BY <2>1, <2>4
  <1>2. \A k \in Jobs : /\ At(k, "ready")' => FALSE
                        /\ ~Pressing(k)'
                        /\ At(k, "checkpoint")' => job'[k] = job[k]
                        /\ job'[k].phase = job[k].phase
                        /\ At(k, "ensure") \/ At(k, "ready") => At(k, "ensure")'
                        /\ At(k, "ensure")' /\ k # j => At(k, "ensure") /\ job'[k] = job[k]
    BY <1>1, Alone DEF At, Pressing
  <1>3. PromptsTypeOK'
    BY <1>1 DEF IInv, PromptsTypeOK, MachineRests
  <1>4. OnePressing' /\ SessionInv' /\ WorkInv' /\ ReadyInv'
    <2>1. OnePressing' /\ SessionInv'
      BY <1>2 DEF OnePressing, SessionInv, IInv
    <2>2. WorkInv'
      BY <1>2, Resting DEF IInv, WorkInv, HasChecks
    <2>3. ReadyInv'
      BY <1>2 DEF IInv, ReadyInv, At
    <2> QED
      BY <2>1, <2>2, <2>3
  <1>5. /\ job[j].phase \in Phases
        /\ job[j].phase \in PlanPhases => state = StateOf[job[j].phase] /\ turnEvents = {}
        /\ job[j].phase \in WorkPhases => Work
    BY DEF IInv, ReadyInv, WorkInv
  <1>6. EnsureInv'
    <2>1. MemoryBlock' = MemoryBlock /\ ModeNote' = ModeNote
      BY Resting DEF MemoryBlock
    <2>2. job[j].phase = "explore" => ~planApproved
      BY <1>5 DEF IInv, WorkInv, PlanPhases, StateOf, Work, WorkStates
    <2>3. ASSUME NEW k \in Jobs, At(k, "ensure"), job[k].phase = "verify",
                 "results" \notin job[k].says
          PROVE  \E i \in Jobs \ {k} : At(i, "ensure")'
      <3>1. PICK i \in Jobs \ {k} : At(i, "ready") \/ At(i, "ensure")
        BY <2>3 DEF IInv, EnsureInv
      <3> QED
        BY <1>2, <3>1
    <2>4. ASSUME NEW k \in Jobs, At(k, "ensure")', k # j
          PROVE  /\ job'[k].phase \in Phases
                 /\ {"goal", "answers"} \cup MemoryBlock' \subseteq job'[k].says
                 /\ job'[k].phase # "explore" => ModeNote' \subseteq job'[k].says
                 /\ job'[k].phase = "explore" => ~planApproved'
                 /\ job'[k].phase = "plan" /\ mode' # "fastfix" =>
                      "choice" \in job'[k].says
                 /\ job'[k].phase = "verify" /\ "results" \notin job'[k].says =>
                      \E i \in Jobs \ {k} : At(i, "ready")' \/ At(i, "ensure")'
      <3>1. At(k, "ensure") /\ job'[k] = job[k]
        BY <1>2, <2>4
      <3> QED
        BY <2>1, <2>3, <3>1 DEF IInv, EnsureInv, MachineRests
    <2>5. /\ job'[j].phase \in Phases
          /\ {"goal", "answers"} \cup MemoryBlock' \subseteq job'[j].says
          /\ job'[j].phase # "explore" => ModeNote' \subseteq job'[j].says
          /\ job'[j].phase = "explore" => ~planApproved'
          /\ job'[j].phase = "plan" /\ mode' # "fastfix" => "choice" \in job'[j].says
          /\ job'[j].phase = "verify" => "results" \in job'[j].says
      BY <1>1, <1>5, <2>1, <2>2, Stated DEF MachineRests
    <2> QED
      BY <2>4, <2>5 DEF EnsureInv
  <1>7. WaitingInv'
    <2>1. CASE Work
      BY <2>1, Resting DEF WaitingInv
    <2>2. CASE ~Work
      <3>1. job[j].phase \in PlanPhases
        BY <1>5, <2>2 DEF Phases
      <3>2. /\ turnEvents = {} /\ state \in {"exploring", "proposing", "planning"}
            /\ state \in {"proposing", "planning"} => job[j].phase # "explore"
        BY <1>5, <3>1 DEF PlanPhases, StateOf
      <3>3. At(j, "ensure")' /\ job'[j].phase = job[j].phase
        BY <1>1 DEF At
      <3> QED
        BY <3>2, <3>3 DEF WaitingInv, MachineRests
    <2> QED
      BY <2>1, <2>2
  <1>8. ToldInv'
    BY DEF ToldInv
  <1> QED
    BY <1>3, <1>4, <1>6, <1>7, <1>8, Resting DEF IInv

LEMMA StepProceed ==
    ASSUME IInv, NEW j \in Jobs, Proceed(j)
    PROVE  IInv'
  <1>1. At(j, "ready") /\ MachineRests /\ UNCHANGED noted
    BY DEF Proceed, MachineRests, vars, factVars
  <1>2. CASE live /\ open # NoJob
    BY <1>1, <1>2, ProceedRefused DEF Proceed, agentVars
  <1>3. CASE live /\ ~(open # NoJob)
    BY <1>1, <1>3, ProceedSent DEF Proceed
  <1>4. CASE ~live
    BY <1>1, <1>4, ProceedWaits DEF Proceed, agentVars
  <1> QED
    BY <1>2, <1>3, <1>4

(* A prompt that was refused pauses the objective.                          *)
LEMMA StepRefused ==
    ASSUME IInv, NEW j \in Jobs, Refused(j)
    PROVE  IInv'
  <1> DEFINE rest == [job EXCEPT ![j] = NoPrompt]
  <1>1. /\ At(j, "refused") /\ UNCHANGED <<factVars, agentVars>>
        /\ TurnFailed /\ Perform(rest)
    <2>1. Active
      BY DEF IInv, PromptsTypeOK, Active, Terminal, PlanStates, WorkStates
    <2> QED
      BY <2>1 DEF Refused, Report
  <1>2. /\ Moves /\ Asks({}) /\ state' = "paused"
        /\ UNCHANGED <<mode, resumeState, planApproved, runId, turnEvents>>
    BY <1>1, FailedMoves DEF IInv
  <1>3. job' = rest
    BY <1>1, <1>2, Unasked DEF Perform, StartPrompt
  <1>4. /\ job' \in [Jobs -> JobType] /\ job'[j] = NoPrompt
        /\ \A k \in Jobs \ {j} : job'[k] = job[k]
    BY <1>3, NoPromptTyped DEF IInv, PromptsTypeOK
  <1>5. \A k \in Jobs : ~At(k, "ready")
    BY <1>1 DEF IInv, OnePressing, Pressing, At
  <1>6. \A k \in Jobs : /\ ~At(k, "ready")'
                        /\ At(k, "checkpoint")' => job'[k] = job[k]
                        /\ At(k, "ensure")' => job'[k] = job[k]
                        /\ At(k, "ensure") => At(k, "ensure")' /\ job'[k] = job[k]
                        /\ job'[k].phase \in WorkPhases => job'[k] = job[k]
    BY <1>1, <1>4, <1>5 DEF At, NoPrompt, WorkPhases, TaskPhases
  <1>7. Work' = Work /\ ModeNote' = ModeNote /\ MemoryBlock' = MemoryBlock
    <2>1. ModeNote' = ModeNote /\ MemoryBlock' = MemoryBlock
      BY <1>1, <1>2 DEF ModeNote, MemoryBlock, factVars
    <2>2. Work' = Work
      BY <1>2 DEF IInv, PromptsTypeOK, Work, WorkStates
    <2> QED
      BY <2>1, <2>2
  <1>8. PromptsTypeOK'
    BY <1>1, <1>2, <1>4 DEF IInv, PromptsTypeOK, factVars, agentVars
  <1>9. OnePressing' /\ SessionInv' /\ WorkInv' /\ ReadyInv'
    <2>1. OnePressing' /\ SessionInv'
      BY <1>1, <1>6 DEF OnePressing, SessionInv, IInv, agentVars, At
    <2>2. WorkInv'
      <3>1. \A k \in Jobs : /\ job'[k].phase \in WorkPhases => Work'
                            /\ job'[k].phase = "verify" => HasChecks
        BY <1>6, <1>7 DEF IInv, WorkInv, WorkPhases
      <3>2. planApproved' => Work'
        BY <1>2, <1>7 DEF IInv, WorkInv
      <3> QED
        BY <3>1, <3>2 DEF WorkInv, HasChecks
    <2>3. ReadyInv'
      BY <1>6 DEF IInv, ReadyInv, At
    <2> QED
      BY <2>1, <2>2, <2>3
  <1>10. EnsureInv'
    <2> SUFFICES ASSUME NEW k \in Jobs, At(k, "ensure")'
                 PROVE  /\ job'[k].phase \in Phases
                        /\ {"goal", "answers"} \cup MemoryBlock' \subseteq job'[k].says
                        /\ job'[k].phase # "explore" => ModeNote' \subseteq job'[k].says
                        /\ job'[k].phase = "explore" => ~planApproved'
                        /\ job'[k].phase = "plan" /\ mode' # "fastfix" =>
                             "choice" \in job'[k].says
                        /\ job'[k].phase = "verify" /\ "results" \notin job'[k].says =>
                             \E i \in Jobs \ {k} : At(i, "ready")' \/ At(i, "ensure")'
      BY DEF EnsureInv
    <2>1. At(k, "ensure") /\ job'[k] = job[k]
      BY <1>6 DEF At
    <2>2. ASSUME job[k].phase = "verify", "results" \notin job[k].says
          PROVE  \E i \in Jobs \ {k} : At(i, "ensure")'
      <3>1. PICK i \in Jobs \ {k} : At(i, "ready") \/ At(i, "ensure")
        BY <2>1, <2>2 DEF IInv, EnsureInv
      <3> QED
        BY <1>5, <1>6, <3>1
    <2> QED
      BY <1>2, <1>7, <2>1, <2>2 DEF IInv, EnsureInv
  <1>11. WaitingInv'
    <2>1. ASSUME NEW k \in Jobs, At(k, "ensure")'
          PROVE  Work' \/ turnEvents' = {}
      <3>1. At(k, "ensure")
        BY <1>6, <2>1 DEF At
      <3> QED
        BY <1>2, <1>7, <3>1 DEF IInv, WaitingInv
    <2> QED
      BY <1>2, <2>1 DEF WaitingInv
  <1>12. ToldInv'
    <2>1. state # "paused" => resumeState = state
      BY DEF IInv, PromptsTypeOK
    <2> QED
      BY <1>1, <1>2, <1>7, <2>1 DEF IInv, ToldInv, agentVars
  <1>13. ChosenInv'
    <2>1. state # "paused" => resumeState = state
      BY DEF IInv, PromptsTypeOK
    <2> QED
      BY <1>1, <1>2, <2>1 DEF IInv, ChosenInv, factVars
  <1> QED
    BY <1>8, <1>9, <1>10, <1>11, <1>12, <1>13 DEF IInv

(* Whoever waited for the session goes on, or is refused.                   *)
LEMMA ResolvedAll ==
    ASSUME IInv, Idle, NEW first, job' = Resolved(first)
    PROVE  /\ job' \in [Jobs -> JobType]
           /\ \A k \in Jobs :
                /\ ~At(k, "ensure")' /\ ~At(k, "ready")'
                /\ At(k, "checkpoint")' => job'[k] = job[k]
                /\ job'[k].phase \in WorkPhases => job'[k] = job[k]
                /\ At(k, "ensure") /\ k # first => Pressing(k)'
  <1> DEFINE refused == [NoPrompt EXCEPT !.step = "refused"]
  <1>1. /\ AtAgent \in JobType /\ AtAgent.step = "turn" /\ AtAgent.phase = "none"
        /\ refused \in JobType /\ refused.step = "refused" /\ refused.phase = "none"
    BY DEF AtAgent, NoPrompt, JobType, Steps, Facts
  <1> HIDE DEF refused
  <1>2. \A k \in Jobs : /\ At(k, "ensure") /\ k = first => job'[k] = AtAgent
                        /\ At(k, "ensure") /\ k # first => job'[k] = refused
                        /\ ~At(k, "ensure") => job'[k] = job[k]
    BY DEF Resolved, refused
  <1>3. job \in [Jobs -> JobType] /\ \A k \in Jobs : ~At(k, "ready")
    BY Undisturbed DEF IInv, PromptsTypeOK, SomePressing, Pressing
  <1>4. job' \in [Jobs -> JobType]
    <2>1. \A k \in Jobs : job'[k] \in JobType
      BY <1>1, <1>2, <1>3
    <2>2. job' = [k \in Jobs |-> job'[k]]
      BY DEF Resolved
    <2> QED
      BY <2>1, <2>2
  <1>5. ASSUME NEW k \in Jobs
        PROVE  /\ ~At(k, "ensure")' /\ ~At(k, "ready")'
               /\ At(k, "checkpoint")' => job'[k] = job[k]
               /\ job'[k].phase \in WorkPhases => job'[k] = job[k]
               /\ At(k, "ensure") /\ k # first => Pressing(k)'
    BY <1>1, <1>2, <1>3 DEF At, Pressing, WorkPhases, TaskPhases
  <1> QED
    BY <1>4, <1>5

LEMMA StepResolved ==
    ASSUME IInv, Idle, NEW first, job' = Resolved(first), MachineRests, UNCHANGED noted,
           live' \in BOOLEAN, byHand' \in BOOLEAN, open' \in Jobs \cup {NoJob, Hand},
           knows' \in SUBSET Facts, ~live' => open' = NoJob /\ knows' = {},
           ToldInv'
    PROVE  IInv'
  <1>1. PromptsTypeOK'
    BY ResolvedAll DEF IInv, PromptsTypeOK, MachineRests
  <1>2. OnePressing' /\ SessionInv'
    BY ResolvedAll DEF OnePressing, SessionInv
  <1>3. WorkInv'
    BY ResolvedAll, Resting DEF IInv, WorkInv, HasChecks, WorkPhases
  <1>4. ReadyInv'
    BY ResolvedAll DEF IInv, ReadyInv, At
  <1>5. EnsureInv' /\ WaitingInv'
    BY ResolvedAll DEF EnsureInv, WaitingInv
  <1> QED
    BY <1>1, <1>2, <1>3, <1>4, <1>5, Resting DEF IInv

LEMMA StepStarts == IInv /\ SessionStarts => IInv'
  <1> SUFFICES ASSUME IInv, SessionStarts PROVE IInv'
    OBVIOUS
  <1>1. PICK first \in Waiting :
          /\ open' = first /\ job' = Resolved(first)
          /\ knows' = IF first = Hand THEN {} ELSE job[first].says
          /\ byHand' = (first = Hand)
    BY DEF SessionStarts
  <1>2. Idle /\ MachineRests /\ UNCHANGED noted /\ live' = TRUE
    BY DEF SessionStarts, MachineRests, vars, factVars
  <1>3. first = Hand \/ (first \in Jobs /\ first # Hand /\ At(first, "ensure"))
    BY PromptsAssumption DEF Waiting
  <1>4. byHand' \in BOOLEAN /\ open' \in Jobs \cup {NoJob, Hand} /\ knows' \in SUBSET Facts
    BY <1>1, <1>3 DEF IInv, PromptsTypeOK, JobType
  <1>5. ToldInv'
    <2> SUFFICES ASSUME ~byHand' PROVE ToldInv'
      BY DEF ToldInv
    <2>1. /\ first \in Jobs /\ At(first, "ensure") /\ knows' = job[first].says
      BY <1>1, <1>3
    <2>2. /\ MemoryBlock' = MemoryBlock /\ ModeNote' = ModeNote /\ Work' = Work
          /\ UNCHANGED <<planApproved, state, resumeState>>
      BY <1>2, Resting DEF MemoryBlock, MachineRests
    <2>3. {"goal", "answers"} \cup MemoryBlock \subseteq knows'
      BY <2>1 DEF IInv, EnsureInv
    <2>4. ASSUME ~(ModeNote \subseteq knows')
          PROVE  /\ ~planApproved
                 /\ \/ Work
                    \/ state \in {"idle", "exploring", "clarifying", "paused"}
                    \/ state \in {"proposing", "planning"} /\ SomePressing'
      <3>1. job[first].phase = "explore" /\ ~planApproved
        BY <2>1, <2>4 DEF IInv, EnsureInv
      <3>2. CASE ~Work /\ state \in {"proposing", "planning"}
        <4>1. PICK k \in Jobs : At(k, "ready") \/ (At(k, "ensure") /\ job[k].phase # "explore")
          BY <2>1, <3>2 DEF IInv, WaitingInv
        <4>2. At(k, "ensure") /\ k # first
          BY <1>2, <3>1, <4>1, Undisturbed DEF SomePressing, Pressing
        <4>3. Pressing(k)'
          BY <1>1, <1>2, <4>2, ResolvedAll
        <4> QED
          BY <3>1, <3>2, <4>3 DEF SomePressing
      <3>3. CASE Work \/ state \notin {"proposing", "planning"}
        BY <2>1, <3>1, <3>3 DEF IInv, WaitingInv
      <3> QED
        BY <3>2, <3>3
    <2> QED
      BY <2>2, <2>3, <2>4 DEF ToldInv
  <1> QED
    BY <1>1, <1>2, <1>4, <1>5, StepResolved

LEMMA StepFails == IInv /\ StartFails => IInv'
  <1> SUFFICES ASSUME IInv, StartFails PROVE IInv'
    OBVIOUS
  <1>1. /\ Idle /\ MachineRests /\ UNCHANGED <<noted, live, open, knows, byHand>>
        /\ ~live /\ job' = Resolved(NoJob)
    BY DEF StartFails, MachineRests, vars, factVars, agentVars
  <1>2. ToldInv'
    BY <1>1 DEF ToldInv
  <1> QED
    BY <1>1, <1>2, StepResolved DEF IInv, PromptsTypeOK, SessionInv

-----------------------------------------------------------------------------
LEMMA Starting == PromptsInit => IInv
  <1> SUFFICES ASSUME PromptsInit PROVE IInv
    OBVIOUS
  <1>1. /\ state = "idle" /\ resumeState = "idle" /\ mode \in Modes
        /\ runId = NoRun /\ planApproved = FALSE /\ turnEvents = {}
    BY DEF PromptsInit, Init
  <1>2. /\ job = [j \in Jobs |-> NoPrompt] /\ live = FALSE /\ open = NoJob
        /\ knows = {} /\ byHand = FALSE /\ row = "none" /\ pending = "none"
        /\ noted \in BOOLEAN
    BY DEF PromptsInit
  <1>3. \A j \in Jobs : job[j].step = "none" /\ job[j].phase = "none"
    BY <1>2 DEF NoPrompt
  <1>4. PromptsTypeOK
    BY <1>1, <1>2, NoPromptTyped DEF PromptsTypeOK, PlanStates
  <1>5. OnePressing /\ SessionInv /\ WorkInv /\ ReadyInv /\ EnsureInv /\ WaitingInv
    BY <1>1, <1>2, <1>3 DEF OnePressing, SessionInv, WorkInv, ReadyInv, EnsureInv,
         WaitingInv, At, Pressing, WorkPhases, TaskPhases
  <1>6. ToldInv /\ ChosenInv
    BY <1>1, <1>2 DEF ToldInv, ChosenInv
  <1> QED
    BY <1>4, <1>5, <1>6 DEF IInv

LEMMA Inductive == IInv /\ [PromptsNext]_allVars => IInv'
  <1> SUFFICES ASSUME IInv, [PromptsNext]_allVars PROVE IInv'
    OBVIOUS
  <1>1. CASE Command \/ Answer \/ \E id \in {"row", "gone"} : DecideOn(id)
    BY <1>1, StepCommand, StepAnswer, StepDecide
  <1>2. CASE HandPrompt \/ TurnCloses \/ SessionLost \/ RecordMemoryNote
    BY <1>2, StepSession
  <1>3. CASE SessionStarts \/ StartFails
    BY <1>3, StepStarts, StepFails
  <1>4. CASE AgentSays \/ CollectorDone \/ Reconciled
    BY <1>4, StepAgentSays, StepCollector, StepReconciled
  <1>5. ASSUME NEW j \in Jobs, PromptStep(j) PROVE IInv'
    BY <1>5, StepCheckpoint, StepProceed, StepRefused, StepReturns DEF PromptStep
  <1>6. CASE UNCHANGED allVars
    BY <1>6 DEF allVars, vars, factVars, agentVars, IInv, PromptsTypeOK, OnePressing,
         SessionInv, WorkInv, ReadyInv, EnsureInv, WaitingInv, ToldInv, ChosenInv,
         Work, Pressing, SomePressing, At, MemoryBlock, ModeNote, HasChecks
  <1> QED
    BY <1>1, <1>2, <1>3, <1>4, <1>5, <1>6 DEF PromptsNext

LEMMA Invariant == PromptsSpec => []IInv
  BY Starting, Inductive, PTL DEF PromptsSpec

-----------------------------------------------------------------------------
(* A turn of the machine's opens when a prompt finds the session idle, or   *)
(* is the first of those that waited for it.                                *)
LEMMA TurnsOpen ==
    ASSUME IInv, PromptsNext, TurnOpens
    PROVE  /\ open' \in Jobs
           /\ \/ /\ live /\ At(open', "ready") /\ UNCHANGED byHand
                 /\ knows' = knows \cup Says(job[open'])
              \/ /\ Idle /\ At(open', "ensure") /\ knows' = job[open'].says
  <1>1. open' \in Jobs /\ open' # open /\ open' # Hand /\ open' # NoJob
    BY PromptsAssumption DEF TurnOpens
  <1>2. ~ (Command \/ Answer \/ \E id \in {"row", "gone"} : DecideOn(id))
    BY <1>1 DEF Command, Answer, DecideOn, agentVars, Outdated
  <1>3. ~ (HandPrompt \/ TurnCloses \/ SessionLost \/ RecordMemoryNote \/ StartFails)
    BY <1>1 DEF HandPrompt, TurnCloses, SessionLost, RecordMemoryNote, StartFails,
                agentVars
  <1>4. ~ (AgentSays \/ CollectorDone \/ Reconciled)
    BY <1>1 DEF AgentSays, CollectorDone, Reconciled, DecisionRecorded, agentVars,
                Outdated
  <1>5. ASSUME NEW j \in Jobs, PromptStep(j)
        PROVE  /\ open' = j /\ live /\ At(j, "ready") /\ UNCHANGED byHand
               /\ knows' = knows \cup Says(job[j])
    BY <1>1, <1>5 DEF PromptStep, CheckpointDone, Proceed, Refused, PromptReturns,
                      agentVars
  <1>6. ASSUME SessionStarts
        PROVE  Idle /\ At(open', "ensure") /\ knows' = job[open'].says
    BY <1>1, <1>6 DEF SessionStarts, Waiting
  <1> QED
    BY <1>1, <1>2, <1>3, <1>4, <1>5, <1>6 DEF PromptsNext

\* Every prompt of the machine's finds, or makes, an agent that knows the goal,
\* the answers, the project's notes, what the mode asks and the newest results,
\* however many prompts are under way and whatever was lost, paused or refused
\* in between (effects.ts:279-377).
THEOREM AgentsBriefed == PromptsSpec => AgentsAreBriefed
  <1>1. ASSUME IInv, [PromptsNext]_allVars, TurnOpens, ~byHand',
               planApproved \/ job[open'].phase \in {"explore", "propose", "plan"}
        PROVE  Owed(job[open'].phase) \subseteq knows'
    <2>1. PromptsNext
      BY <1>1 DEF allVars, agentVars, TurnOpens
    <2>2. open' \in Jobs
      BY <1>1, <2>1, TurnsOpen
    <2> DEFINE j == open'
    <2>3. CASE /\ live /\ At(j, "ready") /\ UNCHANGED byHand
               /\ knows' = knows \cup Says(job[j])
      <3>1. /\ {"goal"} \cup MemoryBlock \subseteq knows
            /\ "answers" \notin knows =>
                 /\ ~planApproved
                 /\ \/ Work
                    \/ state = "exploring"
                    \/ state = "paused"
            /\ ~(ModeNote \subseteq knows) => ~planApproved
        BY <1>1, <2>3 DEF IInv, ToldInv
      <3>2. job[j].phase \in PlanPhases => state = StateOf[job[j].phase]
        BY <1>1, <2>2, <2>3 DEF IInv, ReadyInv
      <3>3. "answers" \in knows'
        <4>1. CASE "answers" \notin knows
          <5>1. job[j].phase = "explore"
            BY <1>1, <3>1, <3>2, <4>1 DEF PlanPhases, StateOf, Work, WorkStates
          <5> QED
            BY <1>1, <2>2, <2>3, <5>1, Stated
        <4> QED
          BY <2>3, <4>1
      <3>4. job[j].phase # "explore" => ModeNote \subseteq knows'
        BY <1>1, <2>2, <2>3, <3>1, Stated
      <3>5. job[j].phase = "verify" => "results" \in knows'
        BY <1>1, <2>2, <2>3, Stated
      <3> QED
        BY <2>3, <3>1, <3>3, <3>4, <3>5 DEF Owed
    <2>4. CASE Idle /\ At(j, "ensure") /\ knows' = job[j].says
      <3>1. /\ {"goal", "answers"} \cup MemoryBlock \subseteq knows'
            /\ job[j].phase # "explore" => ModeNote \subseteq knows'
        BY <1>1, <2>2, <2>4 DEF IInv, EnsureInv
      <3>2. ASSUME job[j].phase = "verify", Waiting \subseteq {Hand, j},
                   "results" \notin knows'
            PROVE  FALSE
        <4>1. PICK k \in Jobs \ {j} : At(k, "ready") \/ At(k, "ensure")
          BY <1>1, <2>2, <2>4, <3>2 DEF IInv, EnsureInv
        <4>2. At(k, "ensure")
          BY <2>4, <4>1, Undisturbed DEF SomePressing, Pressing
        <4>3. k \in Waiting /\ k # Hand
          BY <4>1, <4>2, PromptsAssumption DEF Waiting
        <4> QED
          BY <3>2, <4>1, <4>3
      <3> QED
        BY <3>1, <3>2 DEF Owed
    <2> QED
      BY <1>1, <2>1, <2>3, <2>4, TurnsOpen
  <1>2. IInv /\ [PromptsNext]_allVars =>
          [TurnOpens /\ ~byHand'
           /\ (planApproved \/ job[open'].phase \in {"explore", "propose", "plan"})
           => Owed(job[open'].phase) \subseteq knows']_allVars
    BY <1>1
  <1> QED
    BY <1>2, Invariant, PTL DEF PromptsSpec, AgentsAreBriefed

\* No agent plans without having been told the option the user chose, of the
\* decision in force (effects.ts:129-161).
THEOREM PlansChosen == PromptsSpec => PlansFollowTheChoice
  <1>1. ASSUME IInv, [PromptsNext]_allVars, TurnOpens,
               job[open'].phase = "plan", mode # "fastfix"
        PROVE  "choice" \in knows'
    <2>1. PromptsNext
      BY <1>1 DEF allVars, agentVars, TurnOpens
    <2>2. CASE At(open', "ready") /\ knows' = knows \cup Says(job[open'])
      BY <1>1, <2>1, <2>2, Stated, TurnsOpen
    <2>3. CASE At(open', "ensure") /\ knows' = job[open'].says
      BY <1>1, <2>1, <2>3, TurnsOpen DEF IInv, EnsureInv
    <2> QED
      BY <1>1, <2>1, <2>2, <2>3, TurnsOpen
  <1>2. IInv /\ [PromptsNext]_allVars =>
          [TurnOpens /\ job[open'].phase = "plan" /\ mode # "fastfix"
           => "choice" \in knows']_allVars
    BY <1>1
  <1> QED
    BY <1>2, Invariant, PTL DEF PromptsSpec, PlansFollowTheChoice

\* What jobs, session, facts and decision may be, whatever the number of
\* prompts under way.
THEOREM PromptsTypeCorrect == PromptsSpec => []PromptsTypeOK
  <1>1. IInv => PromptsTypeOK
    BY DEF IInv
  <1> QED
    BY <1>1, Invariant, PTL
=============================================================================
