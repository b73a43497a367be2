------------------------------- MODULE Turns -------------------------------
(***************************************************************************)
(* The workflow machine at work: the machine of Workflow composed with the *)
(* effects the server binds to it (workflow/effects.ts), the turns those   *)
(* effects open on the agent (workflow/turn.ts), the turn the contract     *)
(* pipeline holds open (contract/pipeline.ts) and the runner between them  *)
(* (workflow/runner.ts).                                                   *)
(*                                                                         *)
(* The server is one JavaScript thread.  A step here is one uninterrupted  *)
(* run of it, or a part of one: while a macrostep has left a turn to start *)
(* or an event in the actor's mailbox nothing else happens (see Idle), and *)
(* every await is a place where any other step may come first.  A prompt   *)
(* the machine asked for is a job; its id is also the id of its turn.      *)
(*                                                                         *)
(* One adapter session per objective is started and never lost here, and   *)
(* `integrate` and `abandon`, routes with awaits of their own, are not     *)
(* among the commands.                                                     *)
(*                                                                         *)
(* As in Workflow, a faulty form stands next to a few definitions.         *)
(***************************************************************************)
EXTENDS Workflow

CONSTANTS
    Jobs,        \* bound on the prompts that are under way together
    NoJob,       \* a null turn id
    Outcomes,    \* the statuses a command or a check may come out with
    MaxCancels   \* bound on the cancelOpenTurn calls under way together

ASSUME TurnsAssumption ==
    /\ Jobs \subseteq Nat /\ IsFiniteSet(Jobs) /\ Jobs # {}
    /\ NoJob \notin Jobs
    /\ Outcomes \subseteq Status
    /\ MaxCancels \in Nat \ {0}

VARIABLES
    mailbox,       \* events sent to the actor and not yet processed
    job,           \* sendPromptEffect and its settleTurn, for each id
    timer,         \* the same turn's raceTimeout
    asked,         \* the job the machine's present state is waiting for
    gitQueue,      \* the objective's GitGate queue; the head is running
    session,       \* agents.get() finds a live session
    open,          \* the turn the pipeline holds open (#turnId)
    published,     \* entry.turnId, which cancelOpenTurn reads
    cancels,       \* cancelOpenTurn calls awaiting port.cancel
    closing,       \* cancelOpenTurn calls awaiting endTurn's fallback
    collecting,    \* the invoked collector is running
    rows,          \* what the evidence table says: runId's rows, and the
                   \* epoch's newest row of each check
    checkpointed,  \* tasks whose row has a checkpointRef
    dirty          \* the worktree has changes to commit

turnVars == <<job, timer, session, open, published>>
cancelVars == <<cancels, closing>>
gitVars == <<gitQueue, checkpointed, dirty>>
testVars == <<collecting, rows>>
serverVars == <<mailbox, asked, turnVars, cancelVars, gitVars, testVars>>
allVars == <<vars, serverVars>>

(* The states that say something is at work, and take a TURN_FINISHED.      *)
Busy == {"exploring", "proposing", "planning", "executing", "revising", "verifying"}

(* Where a job is: waiting for its checkpoint or for the session, about to  *)
(* call runTurn, with the agent (its prompt or the repair prompt), or in    *)
(* endTurn's fallback after a prompt that went well or failed.              *)
Stages == {"gone", "checkpoint", "ready", "ensure", "prompt", "repair",
           "endingOk", "endingFailed", "settled"}
AtAgent(j) == job[j] \in {"prompt", "repair"}
InFallback(j) == job[j] \in {"endingOk", "endingFailed"}
InTurn(j) == AtAgent(j) \/ InFallback(j)

(* The race is on, lost by the prompt (endTurn's fallback awaited, then     *)
(* over), or there is none.                                                 *)
Timers == {"off", "armed", "ending", "fired"}

(* The job still owes the machine a TURN_FINISHED or a TURN_FAILED.         *)
Owes(j) == job[j] # "gone" /\ timer[j] # "fired"

Free == {j \in Jobs : job[j] = "gone"}
NextJob == CHOOSE j \in Free : \A k \in Free : j <= k

(* The thread is idle: the last run has finished, or has reached an await.  *)
Idle == mailbox = <<>> /\ \A j \in Jobs : job[j] # "ready"

TurnEvent(type, j) == [type |-> type, from |-> j, items |-> NoItems]
EvidenceEvent(items) == [type |-> "EVIDENCE_RESULT", from |-> NoJob, items |-> items]
Send(event) == mailbox' = Append(mailbox, event)

(* currentEvidence: a null run has no command rows.                         *)
CurrentEvidence(run) ==
    [i \in Ids |-> IF i \in Commands /\ run = NoRun THEN Missing ELSE rows[i]]

-----------------------------------------------------------------------------
(* What the bound effects of a macrostep do before the thread is idle.      *)

Requested(effect) == \E i \in DOMAIN fx' : fx'[i].do = effect
PromptRequested == Requested("sendPrompt")
TaskWork == state' \in {"executing", "revising"}

(* sendPrompt: for a task, after the checkpoint requested with it; without  *)
(* a task there is nothing to prompt for.                                   *)
StartJob ==
    IF PromptRequested /\ (TaskWork => HasTask')
    THEN /\ Free # {}
         /\ job' = [job EXCEPT ![NextJob] =
                      IF Requested("checkpoint") THEN "checkpoint" ELSE "ready"]
         /\ asked' = NextJob
    ELSE /\ UNCHANGED job
         /\ asked' = IF state' = state THEN asked ELSE NoJob

(* The events the effects themselves send.                                  *)
Sent ==
    (IF PromptRequested /\ TaskWork /\ ~HasTask'
     THEN <<TurnEvent("TURN_FAILED", NoJob)>> ELSE <<>>)
    \o (IF Requested("reconcileEvidence")
        THEN <<EvidenceEvent((CurrentEvidence(runId))')>> ELSE <<>>)

(* A rollback is queued before the checkpoint of the executing it leads to. *)
GitRequests ==
    (IF Requested("rollbackToCheckpoint")
     THEN <<[op |-> "rollback", task |-> taskIndex', job |-> NoJob]>> ELSE <<>>)
    \o (IF Requested("checkpoint")
        THEN <<[op |-> "checkpoint", task |-> taskIndex', job |-> NextJob]>>
        ELSE <<>>)

(* Beyond the bound a call counts as one of those already under way.        *)
OneMoreCancel == cancels' = IF cancels < MaxCancels THEN cancels + 1 ELSE cancels

(* Entering paused cancels the open turn - if there is a session, and only  *)
(* when the state value changes.                                            *)
PauseTurn ==
    IF state # "paused" /\ state' = "paused" /\ session
    THEN OneMoreCancel
    ELSE UNCHANGED cancels

(* The collector is invoked by verifying, and aborted when it is left.      *)
Invoke == collecting' = (Requested("runVerification")
                         \/ (collecting /\ state' = "verifying"))

EpochKept == UNCHANGED rows

(* Each executing begins a verification epoch: checks answered before it    *)
(* count no more, by the agent or by hand.                                  *)
NewEpoch ==
    rows' = IF Requested("checkpoint")
            THEN [i \in Ids |-> IF i \in Checks THEN Missing ELSE rows[i]]
            ELSE rows

(* Everything a macrostep sets off; `waiting` is the mailbox behind it.     *)
Perform(waiting) ==
    /\ StartJob
    /\ mailbox' = waiting \o Sent
    /\ gitQueue' = gitQueue \o GitRequests
    /\ PauseTurn
    /\ checkpointed' = IF Requested("recordPlan") THEN {} ELSE checkpointed
    /\ UNCHANGED <<timer, session, open, published, closing, dirty>>

-----------------------------------------------------------------------------
(* The thread's own continuations.                                          *)

(* What the machine does with an event of its mailbox, where it takes it.   *)
Handle(event) ==
    \/ event.type = "TURN_FINISHED" /\ TurnFinished
    \/ event.type = "TURN_FAILED" /\ TurnFailed
    \/ event.type = "EVIDENCE_RESULT" /\ EvidenceResult(event.items)

Takes(event) ==
    CASE event.type = "TURN_FINISHED" -> state \in Busy
      [] event.type = "TURN_FAILED" -> Active
      [] event.type = "EVIDENCE_RESULT" -> state \in {"verifying", "integrating"}

(* The actor processes the next event of its mailbox, or drops it.          *)
ProcessEvent ==
    /\ mailbox # <<>>
    /\ \A j \in Jobs : job[j] # "ready"
    /\ \/ /\ Takes(Head(mailbox))
          /\ Handle(Head(mailbox))
          /\ NewEpoch
          /\ Perform(Tail(mailbox))
          /\ Invoke
       \/ /\ ~Takes(Head(mailbox))
          /\ mailbox' = Tail(mailbox)
          /\ UNCHANGED <<vars, asked, turnVars, cancelVars, gitVars, testVars>>

(* sendPromptEffect reaches runTurn, or has to await a session first.       *)
RunTurn(j) ==
    /\ job[j] = "ready"
    /\ IF ~session
       THEN /\ job' = [job EXCEPT ![j] = "ensure"]
            /\ UNCHANGED <<timer, open, published, mailbox>>
       ELSE IF open # NoJob
       THEN /\ job' = [job EXCEPT ![j] = "gone"]
            /\ Send(TurnEvent("TURN_FAILED", j))
            /\ UNCHANGED <<timer, open, published>>
       ELSE /\ job' = [job EXCEPT ![j] = "prompt"]
            /\ timer' = [timer EXCEPT ![j] = "armed"]
            /\ open' = j
            /\ published' = j
            /\ UNCHANGED mailbox
    /\ UNCHANGED <<vars, asked, session, cancelVars, gitVars, testVars>>

-----------------------------------------------------------------------------
(* The user.                                                                *)

Command ==
    /\ Idle
    /\ \/ Start \/ AnswerClarification \/ Decide \/ ApprovePlan \/ ApproveTask
       \/ Revise \/ Rollback \/ Pause \/ Resume \/ SetLowEnergy
    /\ NewEpoch
    /\ Perform(<<>>)
    /\ Invoke

(* The `cancel` command ends the turn, not the objective.                   *)
CancelTurn ==
    /\ Idle
    /\ session
    /\ OneMoreCancel
    /\ UNCHANGED <<vars, mailbox, asked, turnVars, closing, gitVars, testVars>>

TickCheck ==
    /\ Idle
    /\ \E k \in Checks, satisfied \in {"pass", "fail"} :
         rows' = [rows EXCEPT ![k] = satisfied]
    /\ UNCHANGED <<vars, mailbox, asked, turnVars, cancelVars, gitVars,
                   collecting>>

-----------------------------------------------------------------------------
(* The agent.  What it says reaches the machine while a turn is open,       *)
(* whichever prompt it is answering; what the summarizer makes of it does   *)
(* so when the fallback ends, whether or not the turn is still open.        *)

FallingBack ==
    closing > 0 \/ \E j \in Jobs : InFallback(j) \/ timer[j] = "ending"

AgentSays ==
    /\ Idle
    /\ FallingBack \/ (open # NoJob /\ \E j \in Jobs : AtAgent(j))
    /\ \/ \E e \in AgentEvents \ {"plan"} : AgentEvent(e)
       \/ PlanEvent
    /\ IF Requested("recordEvidence")
       THEN \/ UNCHANGED rows
            \/ \E k \in Checks, s \in Outcomes : rows' = [rows EXCEPT ![k] = s]
       ELSE UNCHANGED rows
    /\ Perform(<<>>)
    /\ Invoke

(* A prompt at the agent may change the worktree.                           *)
AgentWrites ==
    /\ Idle
    /\ \E j \in Jobs : AtAgent(j)
    /\ dirty' = TRUE
    /\ UNCHANGED <<vars, mailbox, asked, turnVars, cancelVars, gitQueue,
                   checkpointed, testVars>>

-----------------------------------------------------------------------------
(* The turn.                                                                *)

(* settleTurn is over: it reports, unless the timeout has won the race.  A  *)
(* turn whose timeout still awaits endTurn keeps its job.                   *)
SettleOver(j, report) ==
    \/ /\ timer[j] = "armed"
       /\ Send(TurnEvent(report, j))
       /\ job' = [job EXCEPT ![j] = "gone"]
       /\ timer' = [timer EXCEPT ![j] = "off"]
    \/ /\ timer[j] = "ending"
       /\ job' = [job EXCEPT ![j] = "settled"]
       /\ UNCHANGED <<mailbox, timer>>
    \/ /\ timer[j] = "fired"
       /\ job' = [job EXCEPT ![j] = "gone"]
       /\ timer' = [timer EXCEPT ![j] = "off"]
       /\ UNCHANGED mailbox

(* endTurn(j) does nothing unless j is the open turn.  It closes it at      *)
(* once, or awaits the summarizer for what the turn still owes.             *)
StaysOpen(j) == UNCHANGED open
EndsNow(j) == open' = IF open = j THEN NoJob ELSE open
FallsBack(j) == open = j /\ UNCHANGED open

(* After that await it clears #turnId, whatever it holds by then.           *)
FallbackDone == open' = NoJob

Unpublish(j) == published' = IF published = j THEN NoJob ELSE published

EndSettle(j, report, awaiting) ==
    /\ Unpublish(j)
    /\ \/ EndsNow(j) /\ SettleOver(j, report)
       \/ /\ FallsBack(j)
          /\ job' = [job EXCEPT ![j] = awaiting]
          /\ UNCHANGED <<mailbox, timer>>

(* The prompt is answered.  What is still unmet is asked of the turn that   *)
(* is open now, so a closed one repairs nothing.                            *)
PromptReturns(j) ==
    /\ Idle
    /\ job[j] = "prompt"
    /\ \/ EndSettle(j, "TURN_FINISHED", "endingOk")
       \/ /\ open # NoJob
          /\ job' = [job EXCEPT ![j] = "repair"]
          /\ UNCHANGED <<mailbox, timer, open, published>>
    /\ UNCHANGED <<vars, asked, session, cancelVars, gitVars, testVars>>

(* A failed repair loses nothing: the turn ends as it would have.           *)
RepairEnds(j) ==
    /\ Idle
    /\ job[j] = "repair"
    /\ EndSettle(j, "TURN_FINISHED", "endingOk")
    /\ UNCHANGED <<vars, asked, session, cancelVars, gitVars, testVars>>

PromptFails(j) ==
    /\ Idle
    /\ job[j] = "prompt"
    /\ EndSettle(j, "TURN_FAILED", "endingFailed")
    /\ UNCHANGED <<vars, asked, session, cancelVars, gitVars, testVars>>

SettleFallbackDone(j) ==
    /\ Idle
    /\ \/ job[j] = "endingOk" /\ SettleOver(j, "TURN_FINISHED")
       \/ job[j] = "endingFailed" /\ SettleOver(j, "TURN_FAILED")
    /\ FallbackDone
    /\ UNCHANGED <<vars, asked, session, published, cancelVars, gitVars, testVars>>

TimedOutUnreported(j) == UNCHANGED mailbox
TimedOut(j) == Send(TurnEvent("TURN_FAILED", j))

(* raceTimeout gives the turn up; settleTurn is left running.               *)
Timeout(j) ==
    /\ Idle
    /\ timer[j] = "armed"
    /\ Unpublish(j)
    /\ \/ /\ EndsNow(j)
          /\ timer' = [timer EXCEPT ![j] = "fired"]
          /\ TimedOut(j)
       \/ /\ FallsBack(j)
          /\ timer' = [timer EXCEPT ![j] = "ending"]
          /\ UNCHANGED mailbox
    /\ UNCHANGED <<vars, asked, job, session, cancelVars, gitVars, testVars>>

TimeoutFallbackDone(j) ==
    /\ Idle
    /\ timer[j] = "ending"
    /\ FallbackDone
    /\ TimedOut(j)
    /\ IF job[j] = "settled"
       THEN /\ job' = [job EXCEPT ![j] = "gone"]
            /\ timer' = [timer EXCEPT ![j] = "off"]
       ELSE timer' = [timer EXCEPT ![j] = "fired"] /\ UNCHANGED job
    /\ UNCHANGED <<vars, asked, session, published, cancelVars, gitVars, testVars>>

(* cancelOpenTurn after port.cancel: it ends the turn published by then.    *)
CancelProceeds ==
    /\ Idle
    /\ cancels > 0
    /\ cancels' = cancels - 1
    /\ published' = NoJob
    /\ \/ published = NoJob /\ UNCHANGED <<open, closing>>
       \/ published # NoJob /\ EndsNow(published) /\ UNCHANGED closing
       \/ /\ published # NoJob /\ FallsBack(published)
          /\ closing < MaxCancels
          /\ closing' = closing + 1
    /\ UNCHANGED <<vars, mailbox, asked, job, timer, session, gitVars, testVars>>

CancelFallbackDone ==
    /\ Idle
    /\ closing > 0
    /\ closing' = closing - 1
    /\ FallbackDone
    /\ UNCHANGED <<vars, mailbox, asked, job, timer, session, published,
                   cancels, gitVars, testVars>>

-----------------------------------------------------------------------------
(* The session, git and the collector.                                      *)

EnsureDone(j) ==
    /\ Idle
    /\ job[j] = "ensure"
    /\ \/ /\ session' = TRUE
          /\ job' = [job EXCEPT ![j] = "ready"]
          /\ UNCHANGED mailbox
       \/ /\ ~session
          /\ job' = [job EXCEPT ![j] = "gone"]
          /\ Send(TurnEvent("TURN_FAILED", j))
          /\ UNCHANGED session
    /\ UNCHANGED <<vars, asked, timer, open, published, cancelVars, gitVars, testVars>>

GitHead == Head(gitQueue)
GitOpDone(op) ==
    /\ Idle
    /\ gitQueue # <<>>
    /\ GitHead.op = op
    /\ gitQueue' = Tail(gitQueue)

GitFailedSilently == UNCHANGED mailbox
GitFailed == Send(TurnEvent("TURN_FAILED", NoJob))

(* A clean tree makes no commit, and the task is left without a reference.  *)
Checkpoint ==
    /\ GitOpDone("checkpoint")
    /\ \/ /\ checkpointed' = IF dirty THEN checkpointed \cup {GitHead.task}
                                      ELSE checkpointed \ {GitHead.task}
          /\ dirty' = FALSE
          /\ job' = [job EXCEPT ![GitHead.job] = "ready"]
          /\ UNCHANGED mailbox
       \/ /\ job' = [job EXCEPT ![GitHead.job] = "gone"]
          /\ GitFailed
          /\ UNCHANGED <<checkpointed, dirty>>
    /\ UNCHANGED <<vars, asked, timer, session, open, published, cancelVars, testVars>>

(* git reset --hard leaves what was never added.                            *)
ResetToCheckpoint ==
    /\ GitOpDone("rollback")
    /\ \/ /\ GitHead.task \in checkpointed
          /\ dirty' \in {dirty, FALSE}
          /\ UNCHANGED mailbox
       \/ /\ GitFailed
          /\ UNCHANGED dirty
    /\ UNCHANGED <<vars, asked, turnVars, cancelVars, checkpointed, testVars>>

(* The collector's rows are the rows of its run.  A task without a          *)
(* checkpoint to compare with is never low risk.                            *)
CollectorDone ==
    /\ Idle
    /\ collecting
    /\ \E run \in Runs, risk \in {"low", "high"} :
         /\ risk = "low" => taskIndex \in checkpointed
         /\ VerificationDone(run, risk)
    /\ \E found \in [Commands -> Outcomes] :
         rows' = [i \in Ids |-> IF i \in Commands THEN found[i] ELSE rows[i]]
    /\ collecting' = FALSE
    /\ Perform(<<>>)

(* No spec, no worktree, or a collector that threw.                         *)
CollectorFails ==
    /\ Idle
    /\ collecting
    /\ VerificationFailed
    /\ UNCHANGED rows
    /\ Perform(<<>>)
    /\ Invoke

-----------------------------------------------------------------------------
ServerInit ==
    /\ mailbox = <<>>
    /\ job = [j \in Jobs |-> "gone"]
    /\ timer = [j \in Jobs |-> "off"]
    /\ asked = NoJob
    /\ gitQueue = <<>>
    /\ open = NoJob
    /\ published = NoJob
    /\ cancels = 0
    /\ closing = 0
    /\ collecting = FALSE
    /\ rows = NoItems
    /\ checkpointed = {}
    /\ dirty = FALSE

TurnsInit == Init /\ session = FALSE /\ ServerInit

ThreadStep == ProcessEvent \/ \E j \in Jobs : RunTurn(j)

UserStep == Command \/ CancelTurn \/ TickCheck

AgentStep ==
    \/ AgentSays
    \/ AgentWrites
    \/ \E j \in Jobs : PromptReturns(j) \/ PromptFails(j) \/ RepairEnds(j)

TurnStep(j) == SettleFallbackDone(j) \/ Timeout(j) \/ TimeoutFallbackDone(j)

ServerStep ==
    \/ \E j \in Jobs : TurnStep(j) \/ EnsureDone(j)
    \/ CancelProceeds \/ CancelFallbackDone
    \/ Checkpoint \/ ResetToCheckpoint
    \/ CollectorDone \/ CollectorFails

TurnsNext == ThreadStep \/ UserStep \/ AgentStep \/ ServerStep

TurnsSpec == TurnsInit /\ [][TurnsNext]_allVars

(* The thread never stops, git and the adapter's handshake end, timers      *)
(* fire, and so do the deadlines of the summarizer and of the collector's   *)
(* commands.  The user and the agent owe nothing.                           *)
Fairness ==
    /\ WF_allVars(ThreadStep)
    /\ \A j \in Jobs :
         /\ WF_allVars(SettleFallbackDone(j))
         /\ WF_allVars(Timeout(j))
         /\ WF_allVars(TimeoutFallbackDone(j))
         /\ WF_allVars(EnsureDone(j))
    /\ WF_allVars(Checkpoint \/ ResetToCheckpoint)
    /\ WF_allVars(CollectorDone \/ CollectorFails)

FairSpec == TurnsSpec /\ Fairness

-----------------------------------------------------------------------------
(* Properties.                                                             *)

TurnsTypeOK ==
    /\ TypeOK
    /\ mailbox \in Seq([type : {"TURN_FINISHED", "TURN_FAILED", "EVIDENCE_RESULT"},
                        from : Jobs \cup {NoJob}, items : Items])
    /\ job \in [Jobs -> Stages]
    /\ timer \in [Jobs -> Timers]
    /\ asked \in Jobs \cup {NoJob}
    /\ gitQueue \in Seq([op : {"checkpoint", "rollback"},
                         task : 0..(MaxTasks - 1), job : Jobs \cup {NoJob}])
    /\ session \in BOOLEAN
    /\ open \in Jobs \cup {NoJob}
    /\ published \in Jobs \cup {NoJob}
    /\ cancels \in 0..MaxCancels
    /\ closing \in 0..MaxCancels
    /\ collecting \in BOOLEAN
    /\ rows \in Items
    /\ checkpointed \subseteq 0..(MaxTasks - 1)
    /\ dirty \in BOOLEAN

(* While the screen says that the agent or the suite is at work, something  *)
(* is under way that will report to the machine; and a job that waits for   *)
(* its checkpoint waits for an operation that is in the queue.  Whatever    *)
(* was paused, refused, timed out or failed on the way, no objective is     *)
(* left waiting for nobody.                                                 *)
NoOrphanedWait ==
    /\ state \in Busy =>
         \/ mailbox # <<>>
         \/ \E j \in Jobs : Owes(j)
         \/ state = "verifying" /\ collecting
    /\ \A j \in Jobs : job[j] = "checkpoint" =>
         \E i \in DOMAIN gitQueue : gitQueue[i].job = j

(* "Leaving turnActive true makes every later prompt 409 permanently"       *)
(* (turn.ts): a turn the pipeline holds open still has the prompt or the    *)
(* timeout running that will close it.                                      *)
OpenTurnHasOwner ==
    open # NoJob => InTurn(open) /\ timer[open] \in {"armed", "ending"}

(* Work that begins, again or on the next task, begins with nothing proven: *)
(* neither the machine nor the evidence table holds an answer from before   *)
(* that its verdict could count.                                            *)
WorkStartsUnproven ==
    [][state' = "executing" /\ state # "executing" =>
         evidence' = NoItems /\ (CurrentEvidence(runId))' = NoItems]_allVars

(* A state that says something is at work is left in the end, for another   *)
(* one or for paused (unless the bound on jobs keeps the next from          *)
(* starting).                                                               *)
BusyEnds == state \in Busy ~> state \notin Busy \/ Free = {}

(* The two below hold up to the first pause, which leaves the old turn under *)
(* way.                                                                     *)

(* A turn must not advance the machine "on behalf of a turn it never asked  *)
(* for" (runner.ts): a TURN_FINISHED that moves the machine comes from the  *)
(* job its present state asked for.                                         *)
TurnsAdvanceTheirOwnState ==
    [][mailbox # <<>> /\ Head(mailbox).type = "TURN_FINISHED" /\ state' # state
       => Head(mailbox).from = asked]_allVars

(* "Verification evidence must be freshly produced" (effects.ts): no        *)
(* verdict is taken while the collector this verification started is still  *)
(* running.                                                                 *)
VerdictAwaitsItsRun ==
    [][state = "verifying" /\ state' = "awaitingReview" => ~collecting]_allVars
=============================================================================
