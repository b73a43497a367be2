----------------------------- MODULE Objective -----------------------------
(***************************************************************************)
(* What the workflow promises of an objective, whatever turns, pauses,     *)
(* revisions and failures it goes through: it is planned; then the tasks   *)
(* of its plan are taken on one after the other, each left behind with an  *)
(* approval that rests on complete evidence for that task; and it is done  *)
(* when every task is approved and the evidence needs no exemption.  Until *)
(* then it may be given up.                                                *)
(***************************************************************************)
EXTENDS Evidence, Sequences

CONSTANT MaxTasks   \* bound on the length of a plan

VARIABLES
    stage,       \* planning, working, done or cancelled
    tasks,       \* the plan: for each task, the commands it may leave failing
    position,    \* the task that is worked on
    approved,    \* the tasks that were approved
    evidence,    \* what is proven of the present task
    lowEnergy    \* low-risk tasks need no click

objective == <<stage, tasks, position, approved, evidence, lowEnergy>>

Plans == UNION {[1..n -> SUBSET Commands] : n \in 1..MaxTasks}
Exempt == IF position < Len(tasks) THEN tasks[position + 1] ELSE {}
Whole == \A i \in 0..(Len(tasks) - 1) : i \in approved
UnderWay == stage \in {"planning", "working"}

Init ==
    /\ stage = "planning"
    /\ tasks = <<>>
    /\ position = 0
    /\ approved = {}
    /\ evidence = NoItems
    /\ lowEnergy \in BOOLEAN

Plan ==
    /\ stage = "planning"
    /\ tasks' \in Plans
    /\ UNCHANGED <<stage, position, approved, evidence, lowEnergy>>

(* On the plan there is, or an edited one.                                  *)
Begin ==
    /\ stage = "planning"
    /\ stage' = "working"
    /\ tasks' \in Plans \cup {tasks}
    /\ UNCHANGED <<position, approved, evidence, lowEnergy>>

StartOver ==
    /\ stage = "working"
    /\ evidence' = NoItems
    /\ UNCHANGED <<stage, tasks, position, approved, lowEnergy>>

Judge ==
    /\ stage = "working"
    /\ evidence' \in Items
    /\ UNCHANGED <<stage, tasks, position, approved, lowEnergy>>

ApproveOn(items) ==
    /\ stage = "working"
    /\ EvidenceComplete(items, Exempt)
    /\ approved' = approved \cup {position}
    /\ IF position + 1 < Len(tasks)
       THEN position' = position + 1 /\ evidence' = NoItems
       ELSE position' = position /\ evidence' = items
    /\ UNCHANGED <<stage, tasks, lowEnergy>>

(* A click approves what is on the screen; without one, a set that has just *)
(* arrived may be approved as well.                                         *)
Approve == ApproveOn(evidence)
AutoApprove == lowEnergy /\ \E items \in Items : ApproveOn(items)

Finish ==
    /\ stage = "working"
    /\ Whole
    /\ EvidenceComplete(evidence, {})
    /\ stage' = "done"
    /\ UNCHANGED <<tasks, position, approved, evidence, lowEnergy>>

GiveUp ==
    /\ UnderWay
    /\ stage' = "cancelled"
    /\ UNCHANGED <<tasks, position, approved, evidence, lowEnergy>>

SetLowEnergy ==
    /\ UnderWay
    /\ lowEnergy' = ~lowEnergy
    /\ UNCHANGED <<stage, tasks, position, approved, evidence>>

Next ==
    \/ Plan \/ Begin \/ StartOver \/ Judge \/ Approve \/ AutoApprove
    \/ Finish \/ GiveUp \/ SetLowEnergy

Spec == Init /\ [][Next]_objective
=============================================================================
