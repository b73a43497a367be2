------------------------------ MODULE GitConsole ------------------------------
(***************************************************************************)
(* The git console: the mutations a user makes through the server on a     *)
(* worktree, while the objective that owns one of them may be at work in   *)
(* it (http/routes/git.ts, git/mutate.ts, git/mutation-gate.ts,            *)
(* git/mutation-guards.ts, git/remote.ts).                                 *)
(*                                                                         *)
(* There are three worktrees: the user's checkout, the objective's own and *)
(* one the user may add; and three branches. What the branches but the     *)
(* objective's hold is not told apart. A commit of the objective's is its  *)
(* own history, the sequence of the identifiers of the commits that lead   *)
(* to it, so that "is an ancestor of" is "is a prefix of". The commit the  *)
(* objective began at is the empty history: what rewrites that commit or   *)
(* those below it is left out.                                             *)
(***************************************************************************)
EXTENDS Naturals, Sequences, SequencesExt, FiniteSets

CONSTANTS Handlers,     \* requests that may be under way at a time
          Tasks,        \* the objective's plan_tasks
          MaxCommits,   \* bound: commits made after the first
          MaxTurns      \* bound: turns the objective runs

ASSUME ConsoleAssumption ==
    /\ IsFiniteSet(Handlers)
    /\ IsFiniteSet(Tasks)
    /\ MaxCommits \in Nat
    /\ MaxTurns \in Nat

Branches == {"main", "own", "side"}
Worktrees == {"checkout", "worktree", "extra"}
Own == "worktree"

VARIABLES branches,  \* the branches there are
          head,      \* the branch each worktree has checked out
          tip,       \* where the objective's branch points
          published, \* where the remote's branch of that name points
          secret,    \* a protected file is staged in the objective's worktree
          undo,      \* the git_undo rows: at most one history per worktree
          refs,      \* plan_tasks.checkpointRef: at most one history per task
          status,    \* the objective's status, as the gate judges it
          turns,     \* how many turns the objective has started
          commits,   \* how many commits the objective's branch has seen
          req,       \* the requests under way
          raw,       \* history: commits of a turn that has not ended
          pushes,    \* history: how the branch of each worktree was pushed
                     \* since the record there is of it was written
          odd        \* history: what the guards and the records do not cover

vars == <<branches, head, tip, published, secret, undo, refs, status, turns,
          commits, req, raw, pushes, odd>>
places == <<branches, head>>
history == <<tip, published, secret, commits>>
rows == <<undo, refs, pushes>>
objective == <<status, turns, raw>>

-----------------------------------------------------------------------------
(* What an operation is, and what is refused whatever the state.           *)

\* "ready" stands for stage, unstage, discard, stash and stash pop; "amend"
\* for reword too.
RewritesHistory == {"amend", "squash", "drop", "undo"}
CreatesCommit == {"commit", "amend", "squash"}
Plain == {"ready", "createBranch", "checkout"}
Ops == RewritesHistory \cup CreatesCommit \cup Plain \cup {"push", "pull"}

\* Every operation can be undone by a reset but a push.
Undoable == Ops \ {"push"}

Idle == [step |-> "none", op |-> "ready", on |-> "checkout", branch |-> "main",
         before |-> <<>>, to |-> <<>>, left |-> {}, taken |-> FALSE]
At(h, step) == req[h].step = step
GoTo(h, step) == req' = [req EXCEPT ![h].step = step]
Ends(h) == req' = [req EXCEPT ![h] = Idle]

There(w) == head[w] # "none"
CheckedOut(b) == \E w \in Worktrees : head[w] = b
OnOwn(h) == req[h].on = Own

\* A request that has passed its gates, and the worktrees it acts on.
PastGate(h) ==
    IF req[h].op = "push" THEN req[h].step \notin {"none", "gate"}
                          ELSE req[h].step \notin {"none", "resolve"}
Touches(h, w) ==
    \/ req[h].on = w
    \/ req[h].op = "push" /\ req[h].branch = head[w]

-----------------------------------------------------------------------------
(* withGitMutation: the gates, the protected files, the checkpoints and the *)
(* undo record around every operation.                                     *)

\* The branches a request names; the others name none.
Argument(op) == CASE op = "push" -> {"main", "own"}
                  [] op = "checkout" -> {"main", "side"}
                  [] op = "createBranch" -> {"side"}
                  [] OTHER -> {"main"}

\* A push asks for its branch's owner first; every request lists the worktrees.
\* The one the user adds is one more user's checkout, and is sent none here.
Ask(h) ==
    /\ At(h, "none")
    /\ \E op \in Ops, w \in {"checkout", Own}, b \in Branches :
         /\ b \in Argument(op)
         /\ req' = [req EXCEPT ![h] =
              [Idle EXCEPT !.step = IF op = "push" THEN "gate" ELSE "resolve",
                           !.op = op, !.on = w, !.branch = b]]
    /\ UNCHANGED <<places, history, rows, objective, odd>>

\* Pushing the objective's branch is gated, whatever worktree it is sent from.
PushUngated(h) == FALSE
PushGated(h) == req[h].branch = "own" /\ status = "busy"

PushGate(h) ==
    /\ At(h, "gate")
    /\ IF req[h].branch \notin branches \/ PushGated(h)
         THEN Ends(h) ELSE GoTo(h, "resolve")
    /\ UNCHANGED <<places, history, rows, objective, odd>>

\* The target, the guard on moving the objective's worktree from under it, the
\* arguments, and the gate: nobody else writes there while the objective does.
Refused(h) ==
    \/ ~There(req[h].on)
    \/ OnOwn(h) /\ req[h].op = "checkout"
    \/ OnOwn(h) /\ status = "busy"
    \/ req[h].op = "checkout" /\ req[h].branch \notin branches
    \/ req[h].op = "undo" /\ undo[req[h].on] = {}

\* The undo reads its record here; then HEAD is asked for.
Resolve(h) ==
    /\ At(h, "resolve")
    /\ IF Refused(h)
         THEN Ends(h) /\ UNCHANGED odd
         ELSE /\ \E to \in IF req[h].op = "undo" THEN undo[req[h].on] ELSE {<<>>} :
                   req' = [req EXCEPT ![h].step = "head", ![h].to = to]
              /\ odd' = IF \E g \in Handlers \ {h} :
                             PastGate(g) /\ Touches(g, req[h].on)
                          THEN odd \cup {"overlap"} ELSE odd
    /\ UNCHANGED <<places, history, rows, objective>>

Sha(w) == IF w = Own THEN tip ELSE <<>>
ReadHead(h) ==
    /\ At(h, "head")
    /\ req' = [req EXCEPT ![h].before = Sha(req[h].on),
                 ![h].to = IF req[h].op = "push" /\ req[h].branch = "own"
                             THEN tip ELSE @,
                 ![h].step =
                    CASE req[h].op \in {"push", "pull"} -> "remote"
                      [] req[h].op \in CreatesCommit /\ OnOwn(h) -> "unstage"
                      [] OTHER -> "run"]
    /\ UNCHANGED <<places, history, rows, objective, odd>>

\* What the policy protects is unstaged before anything commits the index.
UnstagedNothing == secret
Unprotected == FALSE
Unstage(h) ==
    /\ At(h, "unstage")
    /\ secret' = Unprotected
    /\ GoTo(h, "run")
    /\ UNCHANGED <<places, tip, published, commits, rows, objective, odd>>

\* The record: written, or cleared when a reset would undo nothing.
Kept(h) == IF req[h].op \in Undoable THEN {req[h].before} ELSE undo[req[h].on]
Recorded(h) == IF req[h].op \in Undoable THEN {req[h].before} ELSE {}
Since(h) == IF req[h].op \in Undoable \/ Recorded(h) = {}
              THEN "none" ELSE pushes[req[h].on]
Record(h) ==
    /\ undo' = [undo EXCEPT ![req[h].on] = Recorded(h)]
    /\ pushes' = [pushes EXCEPT ![req[h].on] = Since(h)]

\* After a rewrite every checkpoint of the objective is looked at, one git
\* command each, and only then the record is written.
Completed(h) ==
    IF req[h].op \in RewritesHistory /\ OnOwn(h) /\ \E t \in Tasks : refs[t] # {}
      THEN /\ req' = [req EXCEPT ![h].step = "repair",
                                 ![h].left = {t \in Tasks : refs[t] # {}}]
           /\ UNCHANGED <<undo, pushes>>
      ELSE Record(h) /\ Ends(h)

SurvivesIfShort(sha) == Len(sha) <= Len(tip)

Survives(sha) == IsPrefix(sha, tip)

Repair(h) ==
    /\ At(h, "repair")
    /\ \E t \in req[h].left :
         /\ refs' = [refs EXCEPT ![t] = {sha \in @ : Survives(sha)}]
         /\ IF req[h].left = {t}
              THEN Record(h) /\ Ends(h)
              ELSE /\ req' = [req EXCEPT ![h].left = @ \ {t}]
                   /\ UNCHANGED <<undo, pushes>>
    /\ UNCHANGED <<places, history, objective, odd>>

\* An operation that failed leaves no record and repairs nothing.
Fails(h) ==
    /\ At(h, "head") \/ At(h, "unstage") \/ At(h, "run")
    /\ Ends(h)
    /\ UNCHANGED <<places, history, rows, objective, odd>>

-----------------------------------------------------------------------------
(* The operations.                                                         *)

Runs(h, ops) == At(h, "run") /\ req[h].op \in ops /\ There(req[h].on)
OwnRuns(h, ops) == Runs(h, ops) /\ OnOwn(h)
NewCommit == commits < MaxCommits /\ commits' = commits + 1

\* On another worktree than the objective's.
RunElsewhere(h) ==
    /\ Runs(h, CreatesCommit \cup RewritesHistory \cup {"ready"}) /\ ~OnOwn(h)
    /\ Completed(h)
    /\ UNCHANGED <<places, history, refs, objective, odd>>

\* What there is to stage, to discard or in the stash, which all worktrees
\* share, is anybody's to say.
Ready(h) ==
    /\ OwnRuns(h, {"ready"})
    /\ secret' \in BOOLEAN
    /\ Completed(h)
    /\ UNCHANGED <<places, tip, published, commits, refs, objective, odd>>

\* Whether the commit made now carries a protected file.
NoteLeak == odd' = IF secret THEN odd \cup {"leaked"} ELSE odd

CommitStaged(h) ==
    /\ OwnRuns(h, {"commit"})
    /\ NewCommit
    /\ tip' = Append(tip, commits')
    /\ secret' = FALSE
    /\ NoteLeak
    /\ Completed(h)
    /\ UNCHANGED <<places, published, refs, objective>>

\* An amendment takes what is staged with it, or only changes the message.
Amend(h) ==
    /\ OwnRuns(h, {"amend"})
    /\ tip # <<>>
    /\ NewCommit
    /\ tip' = Append(Front(tip), commits')
    /\ \/ secret' = FALSE /\ NoteLeak
       \/ UNCHANGED <<secret, odd>>
    /\ Completed(h)
    /\ UNCHANGED <<places, published, refs, objective>>

\* A range that ends at HEAD: the soft reset, then the commit of all it held.
Squash(h) ==
    /\ OwnRuns(h, {"squash"})
    /\ NewCommit
    /\ \E from \in 1..Len(tip) : tip' = Append(SubSeq(tip, 1, from - 1), commits')
    /\ secret' = FALSE
    /\ NoteLeak
    /\ Completed(h)
    /\ UNCHANGED <<places, published, refs, objective>>

\* The commit after the soft reset fails: HEAD has moved all the same.
SquashHalf(h) ==
    /\ OwnRuns(h, {"squash"})
    /\ \E from \in 1..Len(tip) : tip' = SubSeq(tip, 1, from - 1)
    /\ secret' \in {TRUE, secret}
    /\ odd' = odd \cup {"half"}
    /\ Ends(h)
    /\ UNCHANGED <<places, published, commits, rows, objective>>

\* drop and undo reset the branch, and the files with it.
ResetHard(h) ==
    /\ OwnRuns(h, {"drop", "undo"})
    /\ req[h].op = "drop" => tip # <<>>
    /\ tip' = IF req[h].op = "drop" THEN Front(tip) ELSE req[h].to
    /\ secret' = FALSE
    /\ Completed(h)
    /\ UNCHANGED <<places, published, commits, refs, objective, odd>>

CreateBranch(h) ==
    /\ Runs(h, {"createBranch"})
    /\ req[h].branch \notin branches
    /\ branches' = branches \cup {req[h].branch}
    /\ Completed(h)
    /\ UNCHANGED <<head, history, refs, objective, odd>>

\* Git refuses a branch another worktree has checked out.
Checkout(h) ==
    /\ Runs(h, {"checkout"})
    /\ req[h].branch \in branches
    /\ req[h].branch = head[req[h].on] \/ ~CheckedOut(req[h].branch)
    /\ head' = [head EXCEPT ![req[h].on] = req[h].branch]
    /\ Completed(h)
    /\ UNCHANGED <<branches, history, refs, objective, odd>>

\* Not mutations of a worktree: no gate and no record. The objective's branch
\* is not deleted, nor what is not merged; a removed worktree leaves its row.
DeleteBranch ==
    /\ \E b \in branches \ {"own"} :
         ~CheckedOut(b) /\ branches' = branches \ {b}
    /\ UNCHANGED <<head, history, rows, objective, req, odd>>

CreateWorktree ==
    /\ ~There("extra")
    /\ \E b \in Branches \ branches :
         branches' = branches \cup {b} /\ head' = [head EXCEPT !["extra"] = b]
    /\ UNCHANGED <<history, rows, objective, req, odd>>

RemoveWorktree ==
    /\ There("extra")
    /\ head' = [head EXCEPT !["extra"] = "none"]
    /\ UNCHANGED <<branches, history, rows, objective, req, odd>>

-----------------------------------------------------------------------------
(* gitRemote: a process that talks to the network, under a time bound.     *)

InRemote(h) == req[h].step \in {"remote", "termed"}

\* The worktrees whose record is of the branch a push sends, and how that push
\* was sent: from there, or so that its answer leaves the record.
Outlived(h) == {w \in Worktrees : head[w] = req[h].branch /\ undo[w] # {}}
Pushed(h, w) == IF w = req[h].on /\ pushes[w] # "left" THEN "here" ELSE "left"

\* The remote takes the push; the process has still to come back and say so.
RemoteAccepts(h) ==
    /\ InRemote(h) /\ req[h].op = "push" /\ ~req[h].taken
    /\ IF req[h].branch = "own"
         THEN IsPrefix(published, req[h].to) /\ published' = req[h].to
         ELSE UNCHANGED published
    /\ req' = [req EXCEPT ![h].taken = TRUE]
    /\ pushes' = [w \in Worktrees |->
                     IF w \in Outlived(h) THEN Pushed(h, w) ELSE pushes[w]]
    /\ UNCHANGED <<places, tip, secret, commits, undo, refs, objective, odd>>

PushReturns(h) ==
    /\ At(h, "remote") /\ req[h].op = "push" /\ req[h].taken
    /\ Completed(h)
    /\ UNCHANGED <<places, history, refs, objective, odd>>

\* pull --ff-only: what is ahead of the remote is up to date already.
PullReturns(h) ==
    /\ At(h, "remote") /\ req[h].op = "pull" /\ There(req[h].on)
    /\ IF OnOwn(h) /\ ~IsPrefix(published, tip)
         THEN IsPrefix(tip, published) /\ tip' = published
         ELSE UNCHANGED tip
    /\ Completed(h)
    /\ UNCHANGED <<places, published, secret, commits, refs, objective, odd>>

\* Refused, unreachable, or ended by a signal: an error, even if the remote
\* had taken it.
RemoteFails(h) ==
    /\ InRemote(h)
    /\ Ends(h)
    /\ pushes' = [pushes EXCEPT ![req[h].on] =
                     IF req[h].taken /\ @ = "here" THEN "left" ELSE @]
    /\ UNCHANGED <<places, history, undo, refs, objective, odd>>

\* The bound: SIGTERM to the whole group, then SIGKILL after the grace.
Timed(h) == At(h, "remote")
Terminate(h) ==
    /\ Timed(h)
    /\ GoTo(h, "termed")
    /\ UNCHANGED <<places, history, rows, objective, odd>>

Kill(h) == At(h, "termed") /\ RemoteFails(h)

-----------------------------------------------------------------------------
(* The objective at work.                                                  *)

\* The turn of a task begins with a checkpoint of what there is: its history
\* is the task's reference, none when there was nothing to commit.
TurnStarts ==
    /\ status = "free" /\ turns < MaxTurns
    /\ status' = "busy"
    /\ turns' = turns + 1
    /\ \E t \in Tasks :
         \/ /\ NewCommit
            /\ tip' = Append(tip, commits')
            /\ refs' = [refs EXCEPT ![t] = {tip'}]
            /\ raw' = {commits'}
            /\ secret' = FALSE
         \/ /\ ~secret
            /\ refs' = [refs EXCEPT ![t] = {}]
            /\ UNCHANGED <<tip, raw, secret, commits>>
    /\ odd' = IF \E h \in Handlers : PastGate(h) /\ Touches(h, Own)
                THEN odd \cup {"overlap"} ELSE odd
    /\ UNCHANGED <<places, published, undo, pushes, req>>

TurnEnds ==
    /\ status = "busy"
    /\ status' = "free"
    /\ raw' = {}
    /\ UNCHANGED <<places, history, rows, turns, req, odd>>

-----------------------------------------------------------------------------
Init ==
    /\ branches = {"main", "own"}
    /\ head = [w \in Worktrees |-> CASE w = "checkout" -> "main"
                                    [] w = Own -> "own"
                                    [] OTHER -> "none"]
    /\ tip = <<>> /\ published = <<>>
    /\ secret = FALSE
    /\ undo = [w \in Worktrees |-> {}]
    /\ refs = [t \in Tasks |-> {}]
    /\ status = "free" /\ turns = 0 /\ commits = 0
    /\ req = [h \in Handlers |-> Idle]
    /\ pushes = [w \in Worktrees |-> "none"]
    /\ raw = {} /\ odd = {}

Local(h) ==
    \/ RunElsewhere(h) \/ Ready(h) \/ CommitStaged(h) \/ Amend(h) \/ Squash(h)
    \/ SquashHalf(h) \/ ResetHard(h) \/ CreateBranch(h) \/ Checkout(h)
Wrapper(h) ==
    \/ PushGate(h) \/ Resolve(h) \/ ReadHead(h) \/ Unstage(h) \/ Repair(h)
    \/ Fails(h)
Network(h) ==
    \/ RemoteAccepts(h) \/ PushReturns(h) \/ PullReturns(h) \/ RemoteFails(h)
    \/ Terminate(h) \/ Kill(h)

Next ==
    \/ \E h \in Handlers : Ask(h) \/ Wrapper(h) \/ Local(h) \/ Network(h)
    \/ DeleteBranch \/ CreateWorktree \/ RemoveWorktree
    \/ TurnStarts \/ TurnEnds

Spec == Init /\ [][Next]_vars

-----------------------------------------------------------------------------
\* A checkpoint the rows name is one a rollback can reset to: no amendment,
\* squash, drop or undo leaves a reference to a commit that is no longer below
\* HEAD (mutate.ts:164-186). Not so if the turn began while the operation was
\* under way, nor if a squash stopped half-way.
CheckpointsReachable ==
    odd \cap {"overlap", "half"} = {}
    /\ (\A h \in Handlers : PastGate(h) => ~Touches(h, Own))
    => \A t \in Tasks : \A sha \in refs[t] : IsPrefix(sha, tip)

\* No console commit brings a protected file into the objective's branch
\* (mutate.ts:126-146), unless something else stages it in between.
ProtectedStaysOut == "leaked" \in odd => "overlap" \in odd

\* A record that a push from its worktree left behind what it published does not
\* outlive that push, and no undo resets the branch to one (mutate.ts:188-202).
\* Said of pushes whose answer arrived, and not of one sent from another worktree:
\* the console sends its rows of branches from the user's checkout
\* (git.ts:1003-1008), and that push takes the checkout's record alone. Nor is the
\* second half said of an undo and a push let in together.
UndoStaysLocal ==
    /\ \A w \in Worktrees : pushes[w] = "here"
         => \E h \in Handlers : InRemote(h) /\ req[h].on = w
    /\ \A h \in Handlers : Runs(h, {"undo"})
         => pushes[req[h].on] # "here" \/ "overlap" \in odd

\* No push publishes what a turn still under way has committed: the gate looks
\* at the owner of the branch, not of the worktree (git.ts:998-1027).
HalfWorkStaysLocal ==
    [][odd' \cap {"overlap"} = {}
         => ToSet(published') \cap raw \subseteq ToSet(published)]_vars
==============================================================================
