------------------------------ MODULE Lifecycle ------------------------------
(***************************************************************************)
(* The life of one objective: its database row, its persisted snapshot,    *)
(* its worktree and branch on disk and its live actor, through creation,   *)
(* setup, integration, abandonment, deletion, the repair of a stray        *)
(* worktree, and the crash and restart of the server                       *)
(* (http/routes/objectives.ts, workflow/integrate.ts, workflow/runner.ts,  *)
(* workflow/store.ts, verification/setup.ts, git/git-manager.ts,           *)
(* boot/reconcile.ts, boot/rehydrate.ts, git/strays.ts).                   *)
(*                                                                         *)
(* A request handler is a sequence of actions, one per stretch of code     *)
(* between two awaits; other handlers and a crash may come in between.     *)
(* The machine is Workflow's, coarser: "exploring" stands for the three    *)
(* states that plan, "asking" for the three that wait for the user there.  *)
(***************************************************************************)
EXTENDS Naturals, FiniteSets

CONSTANTS Handlers,         \* requests that may be under way at a time
          SetupCommands,    \* how many setup commands the spec lists
          MaxCrashes        \* bound: how often the server process dies

ASSUME LifecycleAssumption ==
    /\ IsFiniteSet(Handlers)
    /\ SetupCommands \in Nat
    /\ MaxCrashes \in Nat

VARIABLES server,    \* where the process is between its start and its death
          row,       \* the objectives row
          setupRuns, \* the evidence_items rows setup commands left for it
          snapshot,  \* the machine_snapshots row
          actor,     \* the live machine
          work,      \* a turn, a collector or a reset will report to the actor
          disk,      \* worktree and branch
          making,    \* what creation still has to do
          req,       \* the handlers under way
          odd,       \* history: what happened that no client offers
          crashes    \* how often the process died

vars == <<server, row, setupRuns, snapshot, actor, work, disk, making, req,
          odd, crashes>>

-----------------------------------------------------------------------------
(* The machine, as far as creation, integration and restarts can tell.     *)

Terminal == {"done", "cancelled"}
Busy == {"exploring", "executing", "verifying", "revising"}
MachineStates == Busy \cup Terminal \cup
    {"idle", "asking", "awaitingReview", "integrating", "paused"}
MidTurn == {"executing", "verifying", "revising"}
Resumable == Busy \cup {"awaitingReview", "integrating"}

\* What the user's commands move, apart from PAUSE, RESUME and CANCEL.
UserMoves == {<<"idle", "exploring">>, <<"asking", "exploring">>,
              <<"asking", "executing">>, <<"awaitingReview", "executing">>,
              <<"awaitingReview", "integrating">>,
              <<"awaitingReview", "revising">>, <<"paused", "revising">>,
              <<"paused", "executing">>}

\* What a turn, the collector or a reset moves when it reports.
WorkMoves == {<<"exploring", "exploring">>, <<"exploring", "asking">>,
              <<"exploring", "executing">>, <<"executing", "verifying">>,
              <<"revising", "verifying">>, <<"verifying", "awaitingReview">>,
              <<"verifying", "executing">>, <<"verifying", "integrating">>}
             \cup (Busy \X {"paused"})

NoMachine == [state |-> "none", resume |-> "none", low |-> FALSE]
Live == actor.state \in MachineStates
NoRow == [status |-> "none", path |-> FALSE, branch |-> FALSE, low |-> FALSE]
Exists == row.status # "none"
Up == server = "up"

\* A state stamps itself as the place to resume to when it is entered.
Moved(m, to) == [m EXCEPT !.state = to,
                          !.resume = IF to \in Terminal \cup {"paused"}
                                       THEN @ ELSE to]
ResumesTo(m) == IF m.resume \in Resumable THEN m.resume ELSE "idle"

\* A transition: snapshot and status go in one transaction; the subscriber
\* stops an actor that reached a terminal state.
CommitUnmirrored(m, r) ==
    /\ row' = [r EXCEPT !.status = m.state]
    /\ actor' = IF m.state \in Terminal THEN NoMachine ELSE m
    /\ work' = (m.state \in Busy)
    /\ UNCHANGED snapshot
CommitTransition(m, r) ==
    /\ snapshot' = m
    /\ row' = [r EXCEPT !.status = m.state]
    /\ actor' = IF m.state \in Terminal THEN NoMachine ELSE m
    /\ work' = (m.state \in Busy)

\* The actor a command finds: the live one, the persisted one with the row's
\* own lowEnergy, or a fresh one.
Resumed == [snapshot EXCEPT !.low = row.low]
Fresh == [state |-> "idle", resume |-> "idle", low |-> row.low]
Ensured == IF Live THEN actor
           ELSE IF snapshot.state # "none" THEN Resumed ELSE Fresh

\* A fresh actor's first state is persisted at once; a resumed one writes
\* nothing, and nobody works for it.
EnsureOnly ==
    /\ actor' = Ensured
    /\ IF Live \/ snapshot.state # "none"
         THEN UNCHANGED <<row, snapshot, work>>
         ELSE /\ snapshot' = Fresh
              /\ row' = [row EXCEPT !.status = "idle"]
              /\ work' = FALSE

\* Commands do not ask whether creation is over: the client does.
Early == IF making = "no" THEN {} ELSE {"early"}
NoteEarly == odd' = odd \cup Early

-----------------------------------------------------------------------------
(* Git, as git-manager.ts drives it.                                       *)

NoDisk == [registered |-> FALSE, dir |-> FALSE, tip |-> "none",
           staged |-> FALSE]

Added == [registered |-> TRUE, dir |-> TRUE, tip |-> "base", staged |-> FALSE]

\* What git worktree remove, prune and the two post-conditions can leave:
\* everything gone; a directory git no longer knows; a worktree it refuses
\* to let go. Only the first is a success.
DropBranch(d, drop) ==
    IF drop /\ ~d.registered THEN [d EXCEPT !.tip = "none"] ELSE d
Removed(d, drop) ==
    DropBranch([d EXCEPT !.registered = FALSE, !.dir = FALSE,
                         !.staged = FALSE], drop)
Stranded(d, drop) == DropBranch([d EXCEPT !.registered = FALSE], drop)
RemovalTrusted(drop) == disk' \in {Removed(disk, drop), Stranded(disk, drop)}
RemovalSucceeds(drop) == disk' = Removed(disk, drop)
RemovalFails(drop) ==
    /\ disk.dir
    /\ disk' \in {Stranded(disk, drop), disk}

-----------------------------------------------------------------------------
(* Creation: the row first, then the worktree, then the setup commands.    *)

InsertRow ==
    /\ Up /\ making = "unborn"
    /\ row' = [NoRow EXCEPT !.status = "creating"]
    /\ making' = "adding"
    /\ UNCHANGED <<server, setupRuns, snapshot, actor, work, disk, req, odd,
                   crashes>>

\* The foreign keys without a cascade: the row cannot go while these refer to it.
ReferredTo == setupRuns > 0 \/ snapshot.state # "none"

\* The update finds no row when it was deleted meanwhile; setup then throws.
AfterAdding ==
    IF Exists
      THEN /\ row' = [row EXCEPT !.path = TRUE, !.branch = TRUE,
                        !.status = IF SetupCommands > 0
                                     THEN "creating" ELSE "idle"]
           /\ making' = IF SetupCommands > 0 THEN "setup" ELSE "no"
      ELSE making' = "no" /\ UNCHANGED row

WorktreeAdded ==
    /\ Up /\ making = "adding"
    /\ disk' = Added
    /\ AfterAdding
    /\ UNCHANGED <<server, setupRuns, snapshot, actor, work, req, odd, crashes>>

WorktreeRefused ==
    /\ Up /\ making = "adding"
    /\ row' = IF ReferredTo THEN row ELSE NoRow
    /\ making' = "no"
    /\ UNCHANGED <<server, setupRuns, snapshot, actor, work, disk, req, odd,
                   crashes>>

\* One more setup command has run: its log is a row that refers to the
\* objective. Insert and update refuse, or miss, a row that is gone.
SetupOutcomes == IF setupRuns + 1 < SetupCommands
                   THEN {"creating", "setup_failed"} ELSE {"idle", "setup_failed"}
SetupCommandRan ==
    /\ Up /\ making = "setup" /\ Exists
    /\ setupRuns' = setupRuns + 1
    /\ \E outcome \in SetupOutcomes :
         IF outcome = "creating"
           THEN UNCHANGED <<row, making>>
           ELSE row' = [row EXCEPT !.status = outcome] /\ making' = "no"
    /\ UNCHANGED <<server, snapshot, actor, work, disk, req, odd, crashes>>

SetupThrows ==
    /\ Up /\ making = "setup" /\ ~Exists
    /\ making' = "no"
    /\ UNCHANGED <<server, row, setupRuns, snapshot, actor, work, disk, req,
                   odd, crashes>>

-----------------------------------------------------------------------------
(* Commands and the work they ask for.                                     *)

Targets(m) ==
    {to \in MachineStates :
        \/ <<m.state, to>> \in UserMoves
        \/ m.state \notin Terminal \cup {"paused"} /\ to = "paused"
        \/ m.state = "paused" /\ to = ResumesTo(m)}

Command ==
    /\ Up /\ Exists
    /\ \E to \in Targets(Ensured) : CommitTransition(Moved(Ensured, to), row)
    /\ NoteEarly
    /\ UNCHANGED <<server, setupRuns, disk, making, req, crashes>>

\* A command the machine does not take answers 409, but it has an actor now.
RefusedCommand ==
    /\ Up /\ Exists /\ ~Live
    /\ EnsureOnly
    /\ NoteEarly
    /\ UNCHANGED <<server, setupRuns, disk, making, req, crashes>>

WorkReports ==
    /\ Up /\ Live /\ work /\ Exists
    /\ \E to \in MachineStates :
         /\ <<actor.state, to>> \in WorkMoves
         /\ CommitTransition(Moved(actor, to), row)
    /\ IF actor.state \in {"executing", "revising"} /\ disk.registered
         THEN disk' = [disk EXCEPT !.tip = "work"] /\ odd' = odd \cup {"worked"}
         ELSE UNCHANGED <<disk, odd>>
    /\ UNCHANGED <<server, setupRuns, making, req, crashes>>

\* The row is written whether or not there is an actor to tell.
SetLowEnergy ==
    /\ Up /\ Exists
    /\ row' = [row EXCEPT !.low = ~@]
    /\ actor' = IF actor.state \in MachineStates \ Terminal
                  THEN [actor EXCEPT !.low = ~row.low] ELSE actor
    /\ UNCHANGED <<server, setupRuns, snapshot, work, disk, making, req, odd,
                   crashes>>

-----------------------------------------------------------------------------
(* Handlers. A handler keeps the row it read when it began.                *)

Idle == [step |-> "none", path |-> FALSE, branch |-> FALSE, gated |-> FALSE]
At(h, step) == Up /\ req[h].step = step
Begin(h, step) ==
    req' = [req EXCEPT ![h] = [Idle EXCEPT !.step = step, !.path = row.path,
                                           !.branch = row.branch]]
GoTo(h, step) == req' = [req EXCEPT ![h].step = step]
Ends(h) == req' = [req EXCEPT ![h] = Idle]

\* Nothing keeps a second request from beginning while one is under way.
Crossed(h) ==
    IF \E g \in Handlers \ {h} : req[g].step # "none" THEN {"crossed"} ELSE {}
NoteCrossed(h) == odd' = odd \cup Crossed(h)

\* An actor whose row is gone cannot persist what it is sent; see
\* UncaughtTransition.
CanPersist == Live => Exists

\* INTEGRATE is sent only if the actor still takes it after the git work;
\* r is the row as the git work left it.
SendIntegrate(m, r) ==
    CanPersist /\ IF m.state = "integrating"
      THEN CommitTransition([m EXCEPT !.state = "done"], r)
      ELSE row' = r /\ UNCHANGED <<snapshot, actor, work>>

\* The guards of integrate; the evidence may also refuse, which does nothing.
MayBegin(h) == At(h, "none") /\ Exists /\ Ensured.state = "integrating"

\* Keeping needs no git work, and neither does a worktree that is gone already.
IntegrateAtOnce(h) ==
    /\ MayBegin(h)
    /\ SendIntegrate(Ensured, row)
    /\ UNCHANGED <<server, setupRuns, disk, making, req, odd, crashes>>

IntegrateCommit(h) ==
    /\ MayBegin(h) /\ row.path /\ row.branch
    /\ EnsureOnly
    /\ Begin(h, "squash")
    /\ NoteCrossed(h)
    /\ UNCHANGED <<server, setupRuns, disk, making, crashes>>

\* add -A and reset --soft baseSha, then the commit of what is staged.
SquashSteps(h) ==
    /\ At(h, "squash")
    /\ \/ /\ disk.registered /\ disk.dir
          /\ disk' = [disk EXCEPT !.staged = @ \/ disk.tip # "base",
                                  !.tip = "base"]
          /\ GoTo(h, "commit")
       \/ Ends(h) /\ UNCHANGED disk
    /\ UNCHANGED <<server, row, setupRuns, snapshot, actor, work, making, odd,
                   crashes>>

CommitIgnored(h) ==
    /\ At(h, "commit")
    /\ GoTo(h, "remove")
    /\ UNCHANGED <<server, row, setupRuns, snapshot, actor, work, disk, making,
                   odd, crashes>>
CommitSquash(h) ==
    /\ At(h, "commit")
    /\ \/ /\ disk.registered /\ disk.dir
          /\ disk' = IF disk.staged
                       THEN [disk EXCEPT !.tip = "squash", !.staged = FALSE]
                       ELSE disk
          /\ GoTo(h, "remove")
       \/ Ends(h) /\ UNCHANGED disk
    /\ UNCHANGED <<server, row, setupRuns, snapshot, actor, work, making, odd,
                   crashes>>

\* The row forgets the worktree; commit keeps the branch, discard does not.
Unlinked == IF Exists THEN [row EXCEPT !.path = FALSE] ELSE row
Discarded == IF Exists THEN [row EXCEPT !.path = FALSE, !.branch = FALSE] ELSE row

RemoveSquashed(h) ==
    /\ At(h, "remove")
    /\ \/ RemovalSucceeds(FALSE) /\ SendIntegrate(actor, Unlinked)
       \/ RemovalFails(FALSE) /\ UNCHANGED <<row, snapshot, actor, work>>
    /\ Ends(h)
    /\ UNCHANGED <<server, setupRuns, making, odd, crashes>>

IntegrateDiscard(h) ==
    /\ MayBegin(h) /\ row.path /\ row.branch
    /\ EnsureOnly
    /\ Begin(h, "discard")
    /\ NoteCrossed(h)
    /\ UNCHANGED <<server, setupRuns, disk, making, crashes>>

DiscardWorktree(h) ==
    /\ At(h, "discard")
    /\ \/ RemovalSucceeds(TRUE) /\ SendIntegrate(actor, Discarded)
       \/ RemovalFails(TRUE) /\ UNCHANGED <<row, snapshot, actor, work>>
    /\ Ends(h)
    /\ UNCHANGED <<server, setupRuns, making, odd, crashes>>

\* abandon: the turn and the agent first, then the worktree, then CANCEL.
MayAbandon == Ensured.state \notin Terminal
Abandon(h) ==
    /\ At(h, "none") /\ Exists
    /\ MayAbandon
    /\ EnsureOnly
    /\ odd' = odd \cup Early \cup Crossed(h)
    /\ Begin(h, "stopping")
    /\ UNCHANGED <<server, setupRuns, disk, making, crashes>>

SendCancel(r) ==
    CanPersist /\ IF Live /\ actor.state \notin Terminal
      THEN CommitTransition([actor EXCEPT !.state = "cancelled"], r)
      ELSE row' = r /\ UNCHANGED <<snapshot, actor, work>>

AbandonStopped(h) ==
    /\ At(h, "stopping")
    /\ \/ /\ req[h].path /\ req[h].branch
          /\ GoTo(h, "abandon")
          /\ UNCHANGED <<row, snapshot, actor, work>>
       \/ /\ ~(req[h].path /\ req[h].branch)
          /\ SendCancel(row)
          /\ Ends(h)
    /\ UNCHANGED <<server, setupRuns, disk, making, odd, crashes>>

AbandonWorktree(h) ==
    /\ At(h, "abandon")
    /\ \/ RemovalSucceeds(TRUE) /\ SendCancel(Discarded)
       \/ RemovalFails(TRUE) /\ UNCHANGED <<row, snapshot, actor, work>>
    /\ Ends(h)
    /\ UNCHANGED <<server, setupRuns, making, odd, crashes>>

\* DELETE: the actor goes before the rows. A command in between, or after a
\* worktree that could not be removed, resumes an actor nobody works for.
Delete(h) ==
    /\ At(h, "none") /\ Exists
    /\ actor' = NoMachine
    /\ work' = FALSE
    /\ odd' = odd \cup Early \cup Crossed(h) \cup {"halted"}
    /\ Begin(h, "delete")
    /\ UNCHANGED <<server, row, setupRuns, snapshot, disk, making, crashes>>

RowsDeleted ==
    /\ row' = NoRow
    /\ setupRuns' = 0
    /\ snapshot' = NoMachine

DeleteRows(h) ==
    /\ At(h, "delete")
    /\ \/ /\ IF req[h].path /\ req[h].branch
               THEN RemovalSucceeds(TRUE) ELSE UNCHANGED disk
          /\ RowsDeleted
       \/ /\ req[h].path /\ req[h].branch
          /\ RemovalFails(TRUE)
          /\ UNCHANGED <<row, setupRuns, snapshot>>
    /\ Ends(h)
    /\ UNCHANGED <<server, actor, work, making, odd, crashes>>

-----------------------------------------------------------------------------
(* The repair of a stray worktree.                                         *)

Gated == {"creating", "executing", "verifying", "revising", "integrating"}
\* The rows are read first, then the directory and git; the gate judges the
\* status of that first read.
Release(h) ==
    /\ At(h, "none") /\ Exists /\ row.path
    /\ req' = [req EXCEPT ![h] = [Idle EXCEPT !.step = "release",
                                   !.path = row.path,
                                   !.gated = row.status \in Gated]]
    /\ NoteCrossed(h)
    /\ UNCHANGED <<server, row, setupRuns, snapshot, actor, work, disk, making,
                   crashes>>

\* Vanished: a claim on a directory that is not there is given up. Stranded: a
\* directory git does not know is deleted, unless the gate forbids.
ReadStrays(h) ==
    /\ At(h, "release")
    /\ \/ ~disk.dir /\ row' = Discarded /\ Ends(h)
       \/ /\ disk.dir /\ ~disk.registered /\ ~req[h].gated
          /\ GoTo(h, "rm") /\ UNCHANGED row
       \/ /\ disk.dir /\ (disk.registered \/ req[h].gated)
          /\ Ends(h) /\ UNCHANGED row
    /\ UNCHANGED <<server, setupRuns, snapshot, actor, work, disk, making, odd,
                   crashes>>

\* rm may leave files behind; the claim goes only once the directory has.
DirIsGone == ~disk'.dir
RemoveStray(h) ==
    /\ At(h, "rm")
    /\ disk' \in {[disk EXCEPT !.dir = FALSE, !.staged = FALSE], disk}
    /\ row' = IF DirIsGone THEN Discarded ELSE row
    /\ Ends(h)
    /\ UNCHANGED <<server, setupRuns, snapshot, actor, work, making, odd,
                   crashes>>

-----------------------------------------------------------------------------
(* Crash and restart.                                                      *)

ProcessGone ==
    /\ server' = "down"
    /\ actor' = NoMachine
    /\ work' = FALSE
    /\ making' = IF making = "unborn" THEN making ELSE "no"
    /\ req' = [h \in Handlers |-> Idle]

\* A git command that was under way finishes, or does not.
UnderWay(h) ==
    CASE req[h].step = "squash" ->
           {[disk EXCEPT !.staged = @ \/ disk.tip # "base", !.tip = "base"]}
      [] req[h].step = "commit" /\ disk.staged ->
           {[disk EXCEPT !.tip = "squash", !.staged = FALSE]}
      [] req[h].step = "remove" -> {Removed(disk, FALSE)}
      [] req[h].step \in {"discard", "abandon"} -> {Removed(disk, TRUE)}
      [] req[h].step = "delete" /\ req[h].path -> {Removed(disk, TRUE)}
      [] req[h].step = "rm" -> {[disk EXCEPT !.dir = FALSE, !.staged = FALSE]}
      [] OTHER -> {}

Crash ==
    /\ server # "down"
    /\ crashes < MaxCrashes
    /\ crashes' = crashes + 1
    /\ ProcessGone
    /\ disk' \in {disk} \cup (IF making = "adding" THEN {Added} ELSE {})
                        \cup UNION {UnderWay(h) : h \in Handlers}
    /\ UNCHANGED <<row, setupRuns, snapshot, odd>>

\* An actor whose rows were deleted under it cannot persist its next state,
\* whether its work or a handler moves it: the insert is refused, in a callback
\* nothing catches, and the process ends.
Sending == {"stopping", "abandon", "remove", "discard"}
UncaughtTransition ==
    /\ Up /\ Live /\ ~Exists
    /\ (\A h \in Handlers : req[h].step \notin Sending) => work
    /\ ProcessGone
    /\ disk' \in {disk} \cup UNION {UnderWay(h) : h \in Handlers}
    /\ UNCHANGED <<row, setupRuns, snapshot, odd, crashes>>

Boot ==
    /\ server = "down"
    /\ server' = "reconciling"
    /\ UNCHANGED <<row, setupRuns, snapshot, actor, work, disk, making, req,
                   odd, crashes>>

\* reconcileOnBoot: a creating row and what there is of its worktree go; the
\* row does not when another table refers to it, and then nothing starts.
SweepFails ==
    /\ server = "reconciling" /\ row.status = "creating"
    /\ ReferredTo
    /\ server' = "failed"
    /\ RemovalSucceeds(TRUE) \/ RemovalFails(TRUE)
    /\ UNCHANGED <<row, setupRuns, snapshot, actor, work, making, req, odd,
                   crashes>>

Sweep == (RemovalSucceeds(TRUE) \/ RemovalFails(TRUE)) /\ row' = NoRow

SweepRow ==
    /\ server = "reconciling" /\ row.status = "creating"
    /\ ~ReferredTo
    /\ Sweep
    /\ server' = "rehydrating"
    /\ UNCHANGED <<setupRuns, snapshot, actor, work, making, req, odd, crashes>>

NothingToSweep ==
    /\ server = "reconciling" /\ row.status # "creating"
    /\ server' = "rehydrating"
    /\ UNCHANGED <<row, setupRuns, snapshot, actor, work, disk, making, req,
                   odd, crashes>>

\* What reconciliation and the end leave; of the two that are no state of the
\* machine, creating is swept, and setup_failed has a snapshot if a command came early.
Open == (MachineStates \ Terminal) \cup {"setup_failed"}

\* A snapshot in one of three states is a turn that died with the process.
NeverPauses(m) == FALSE
PausesAfterCrash(m) == m.state \in MidTurn

Rehydrate ==
    /\ server = "rehydrating"
    /\ server' = "up"
    /\ IF row.status \in Open /\ snapshot.state # "none"
         THEN IF PausesAfterCrash(Resumed)
                THEN CommitTransition([Resumed EXCEPT !.state = "paused"], row)
                ELSE actor' = Resumed /\ UNCHANGED <<row, snapshot, work>>
         ELSE UNCHANGED <<row, snapshot, actor, work>>
    /\ UNCHANGED <<setupRuns, disk, making, req, odd, crashes>>

-----------------------------------------------------------------------------
Init ==
    /\ server = "down"
    /\ row = NoRow
    /\ setupRuns = 0
    /\ snapshot = NoMachine
    /\ actor = NoMachine
    /\ work = FALSE
    /\ disk = NoDisk
    /\ making = "unborn"
    /\ req = [h \in Handlers |-> Idle]
    /\ odd = {}
    /\ crashes = 0

Creation == WorktreeAdded \/ WorktreeRefused \/ SetupCommandRan \/ SetupThrows
Handle(h) ==
    \/ SquashSteps(h) \/ CommitSquash(h) \/ RemoveSquashed(h)
    \/ DiscardWorktree(h) \/ AbandonStopped(h) \/ AbandonWorktree(h)
    \/ DeleteRows(h) \/ ReadStrays(h) \/ RemoveStray(h)
Request(h) ==
    \/ IntegrateAtOnce(h) \/ IntegrateCommit(h)
    \/ IntegrateDiscard(h) \/ Abandon(h) \/ Delete(h) \/ Release(h)
BootStep == Boot \/ SweepRow \/ SweepFails \/ NothingToSweep \/ Rehydrate

Next ==
    \/ InsertRow \/ Creation
    \/ Command \/ RefusedCommand \/ WorkReports \/ SetLowEnergy
    \/ \E h \in Handlers : Request(h) \/ Handle(h)
    \/ Crash \/ UncaughtTransition \/ BootStep

Spec == Init /\ [][Next]_vars
FairSpec == Spec /\ WF_vars(Creation) /\ WF_vars(BootStep)
                 /\ \A h \in Handlers : WF_vars(Handle(h))

-----------------------------------------------------------------------------
\* The status column, the snapshot and the live actor name the same state,
\* through crashes and restarts: the list and the boot sweep read the first, a
\* restart the second, the commands the third (store.ts:38-52).
StatusMirrorsMachine ==
    "early" \notin odd =>
        /\ row.status \in MachineStates =>
             \/ snapshot.state = row.status
             \/ snapshot.state = "none" /\ row.status = "idle"
        /\ Up /\ Live /\ Exists => actor.state = row.status

\* Once creation is over, a row that names no worktree has none on disk: no
\* teardown forgets a directory it could not delete (git-manager.ts:96-114).
NullMeansGone ==
    "early" \notin odd /\ Exists /\ row.status # "creating" /\ ~row.path
        => ~disk.dir

\* An objective that is done, with its worktree squashed and removed, has its
\* work on its branch, whatever was interrupted or failed on the way
\* (integrate.ts:71-76), unless two requests about its worktree were let in
\* together.
DoneMeansLanded ==
    /\ {"early", "crossed"} \cap odd = {}
    /\ row.status = "done" /\ row.branch /\ ~row.path
    /\ "worked" \in odd
    => disk.tip \in {"work", "squash"}

\* A restart leaves no work on a task waiting for a turn that died with the
\* process (rehydrate.ts:23-27). The planning states, which open turns too, are not
\* among those the code pauses (MID_TURN), and nothing is said of them.
NobodyWaitsAfterCrash ==
    odd \subseteq {"worked", "crossed"} /\ Up /\ Live /\ actor.state \in MidTurn => work

\* Reconciliation can always delete the rows of an unfinished creation
\* (objectives.ts:367-369).
BootSucceeds == server = "failed" => "early" \in odd

\* Creation ends in an objective, in a failed setup or in nothing, whatever
\* dies on the way and whatever a command does to it early (reconcile.ts:78-98);
\* unless the crash left rows that refer to it, for which the sweep's delete is
\* refused and the server stays down (BootSucceeds).
SweepIsRefused == server = "failed" /\ ReferredTo
==============================================================================
