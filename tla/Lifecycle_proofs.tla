-------------------------- MODULE Lifecycle_proofs --------------------------
(***************************************************************************)
(* What holds of an objective's life for every number of requests under    *)
(* way, of setup commands and of crashes: its status names the state its   *)
(* snapshot and its actor are in, a row that names no worktree has none on *)
(* disk, no restart leaves a task waiting for a turn that died, and an     *)
(* objective that is done has its work on its branch.                      *)
(*                                                                         *)
(* The invariant is the conjunction of what ties the four places the state *)
(* is kept in together (MirrorInv), what creation has not done yet         *)
(* (MakingInv), what the row says of the disk (DiskInv) and who works for  *)
(* the actor (WorkInv). All but the last of them speak of objectives no    *)
(* command reached before their creation was over (Quiet).                 *)
(*                                                                         *)
(* Where the work is takes a second invariant on top (TeardownInv): what a *)
(* handler read before it began is still so when it acts on it (ClaimInv,  *)
(* HoldInv), and the work is on the branch or, while a squash is between   *)
(* its halves, in the index (LandInv).                                     *)
(***************************************************************************)
EXTENDS Lifecycle, TLAPS

Quiet == "early" \notin odd

Machine == [state : MachineStates \cup {"none"},
            resume : MachineStates \cup {"none"}, low : BOOLEAN]
Row == [status : MachineStates \cup {"none", "creating", "setup_failed"},
        path : BOOLEAN, branch : BOOLEAN, low : BOOLEAN]
Disk == [registered : BOOLEAN, dir : BOOLEAN, staged : BOOLEAN,
         tip : {"none", "base", "work", "squash"}]
Steps == {"none", "squash", "commit", "remove", "discard", "stopping",
          "abandon", "delete", "release", "rm"}
Pending == [step : Steps, path : BOOLEAN, branch : BOOLEAN, gated : BOOLEAN]

\* Every variable stays in its type.
TypeOK ==
    /\ server \in {"down", "reconciling", "rehydrating", "up", "failed"}
    /\ row \in Row
    /\ setupRuns \in Nat
    /\ snapshot \in Machine
    /\ actor \in Machine
    /\ work \in BOOLEAN
    /\ disk \in Disk
    /\ making \in {"unborn", "adding", "setup", "no"}
    /\ req \in [Handlers -> Pending]
    /\ odd \subseteq {"early", "halted", "worked", "crossed"}
    /\ crashes \in Nat

MirrorInv ==
    /\ Quiet /\ Exists /\ snapshot.state # "none"
         => row.status = snapshot.state
    /\ Quiet /\ row.status \in MachineStates /\ snapshot.state = "none"
         => row.status = "idle"
    /\ Quiet /\ Live /\ Exists => actor.state = snapshot.state
    /\ Live => Up

MakingInv ==
    /\ making = "unborn" => ~Exists
    /\ ~Exists => setupRuns = 0 /\ snapshot.state = "none"
    /\ Quiet /\ making # "no" => snapshot.state = "none" /\ ~Live
    /\ Quiet /\ making = "adding" /\ Exists
         => row.status = "creating" /\ setupRuns = 0
    /\ Quiet /\ making = "setup" /\ Exists => row.status = "creating"
    /\ Quiet /\ row.status = "creating" /\ server \in {"rehydrating", "up"}
         => making # "no"
    /\ making \in {"adding", "setup"} => Up

DiskInv ==
    /\ Quiet /\ Exists /\ row.status # "creating" /\ ~row.path => ~disk.dir
    /\ Quiet /\ making = "setup" /\ Exists /\ ~row.path => ~disk.dir
    /\ making = "unborn" => ~disk.dir

WorkInv ==
    odd \subseteq {"worked", "crossed"} /\ Up =>
        /\ Exists /\ snapshot.state \in MachineStates \ Terminal => Live
        /\ Live /\ actor.state \in MidTurn => work

IInv == TypeOK /\ MirrorInv /\ MakingInv /\ DiskInv /\ WorkInv

-----------------------------------------------------------------------------
(* What the helpers leave behind.                                          *)

\* The states are named apart from the marks of absence and of creation.
LEMMA Names ==
    /\ "none" \notin MachineStates /\ "creating" \notin MachineStates
    /\ "setup_failed" \notin MachineStates
    /\ Busy \subseteq MachineStates /\ Terminal \subseteq MachineStates
    /\ MidTurn \subseteq Busy /\ Busy \cap Terminal = {}
    /\ {"idle", "paused", "integrating", "done", "cancelled"}
         \subseteq MachineStates
    /\ {"idle", "paused", "integrating"} \cap (Busy \cup Terminal) = {}
  BY DEF MachineStates, Busy, Terminal, MidTurn

\* A transition to a state names it in the row and the snapshot, and leaves
\* an actor in it or none.
LEMMA Transition ==
    ASSUME NEW m \in Machine, m.state # "none", NEW r \in Row,
           CommitTransition(m, r)
    PROVE  /\ row' \in Row /\ snapshot' \in Machine /\ actor' \in Machine
           /\ work' \in BOOLEAN
           /\ row'.status = m.state /\ row'.path = r.path
           /\ row'.branch = r.branch
           /\ snapshot'.state = m.state
           /\ actor'.state \in {m.state, "none"}
           /\ m.state \notin Terminal => actor'.state = m.state
           /\ actor'.state \in Busy => work'
  <1>1. /\ snapshot' = m /\ row' = [r EXCEPT !.status = m.state]
        /\ actor' = IF m.state \in Terminal THEN NoMachine ELSE m
        /\ work' = (m.state \in Busy)
    BY DEF CommitTransition
  <1>2. m.state \in MachineStates
    BY DEF Machine
  <1>3. /\ row' \in Row /\ row'.status = m.state /\ row'.path = r.path
        /\ row'.branch = r.branch
    BY <1>1, <1>2 DEF Row
  <1>4. NoMachine \in Machine /\ NoMachine.state = "none"
    BY DEF NoMachine, Machine
  <1>5. work' \in BOOLEAN
    <2> DEFINE busy == m.state \in Busy
    <2>1. busy \in BOOLEAN
      OBVIOUS
    <2>2. work' = busy
      BY <1>1
    <2> HIDE DEF busy
    <2> QED
      BY <2>1, <2>2
  <1>6. actor'.state \in Busy => work'
    BY <1>1, <1>4, Names
  <1> QED
    BY <1>1, <1>3, <1>4, <1>5, <1>6

\* Moving a machine keeps it one, in the state it moved to.
LEMMA Moving ==
    ASSUME NEW m \in Machine, NEW to \in MachineStates
    PROVE  /\ Moved(m, to) \in Machine
           /\ Moved(m, to).state = to
  BY DEF Moved, Machine

\* The machine a command finds is one, and is the live one or what the row
\* and the snapshot say.
LEMMA Finding ==
    ASSUME TypeOK
    PROVE  /\ Ensured \in Machine
           /\ Ensured.state \in MachineStates
           /\ Resumed \in Machine /\ Resumed.state = snapshot.state
           /\ Live => Ensured.state = actor.state
           /\ ~Live /\ snapshot.state # "none" => Ensured.state = snapshot.state
           /\ ~Live /\ snapshot.state = "none" => Ensured.state = "idle"
  <1>1. Resumed \in Machine /\ Resumed.state = snapshot.state
    BY DEF TypeOK, Resumed, Machine, Row
  <1>2. Fresh \in Machine /\ Fresh.state = "idle"
    BY Names DEF TypeOK, Fresh, Machine, Row
  <1>3. snapshot.state \in MachineStates \cup {"none"}
    BY DEF TypeOK, Machine
  <1> QED
    BY <1>1, <1>2, <1>3, Names DEF TypeOK, Ensured, Live

\* Finding an actor for a command changes neither where the worktree is nor,
\* once creation is over, what the row says of a persisted state.
LEMMA Ensuring ==
    ASSUME TypeOK, Exists, EnsureOnly
    PROVE  /\ row' \in Row /\ snapshot' \in Machine /\ actor' \in Machine
           /\ work' \in BOOLEAN
           /\ row'.path = row.path /\ row'.branch = row.branch
           /\ actor'.state \in MachineStates
           /\ snapshot'.state # "none" \/ Live
           /\ Live \/ snapshot.state # "none" =>
                row' = row /\ snapshot' = snapshot /\ work' = work
           /\ Live => actor' = actor
           /\ ~Live => actor'.state = snapshot'.state
           /\ ~Live /\ snapshot.state = "none" =>
                row'.status = "idle" /\ snapshot'.state = "idle"
  <1>1. CASE Live \/ snapshot.state # "none"
    BY <1>1, Finding, Names DEF EnsureOnly, Ensured, TypeOK, Machine, Live
  <1>2. CASE ~Live /\ snapshot.state = "none"
    <2>1. /\ actor' = Fresh /\ snapshot' = Fresh /\ work' = FALSE
          /\ row' = [row EXCEPT !.status = "idle"]
      BY <1>2 DEF EnsureOnly, Ensured
    <2>2. Fresh \in Machine /\ Fresh.state = "idle"
      BY Names DEF TypeOK, Fresh, Machine, Row
    <2>3. /\ row' \in Row /\ row'.path = row.path /\ row'.status = "idle"
          /\ row'.branch = row.branch
      BY <2>1, Names DEF TypeOK, Row
    <2> QED
      BY <1>2, <2>1, <2>2, <2>3, Names
  <1> QED
    BY <1>1, <1>2

\* Removing a worktree leaves a disk, and brings no directory back; when it
\* succeeds there is none.
LEMMA Removing ==
    ASSUME TypeOK, NEW drop \in BOOLEAN
    PROVE  /\ Removed(disk, drop) \in Disk /\ ~Removed(disk, drop).dir
           /\ RemovalSucceeds(drop) => disk' \in Disk /\ ~disk'.dir
           /\ RemovalFails(drop) => disk' \in Disk /\ disk.dir
  BY DEF TypeOK, Disk, Removed, Stranded, DropBranch, RemovalSucceeds,
         RemovalFails

\* Whatever git was doing when the process died, it made no directory.
LEMMA Interrupted ==
    ASSUME TypeOK, NEW h \in Handlers, NEW d \in UnderWay(h)
    PROVE  d \in Disk /\ (d.dir => disk.dir)
  <1>1. req[h].step \in Steps
    BY DEF TypeOK, Pending
  <1>2. CASE req[h].step = "squash"
    BY <1>2 DEF UnderWay, TypeOK, Disk
  <1>3. CASE req[h].step = "commit"
    BY <1>3 DEF UnderWay, TypeOK, Disk
  <1>4. CASE req[h].step = "remove"
    BY <1>4, Removing DEF UnderWay
  <1>5. CASE req[h].step \in {"discard", "abandon"}
    BY <1>5, Removing DEF UnderWay
  <1>6. CASE req[h].step = "delete"
    BY <1>6, Removing DEF UnderWay
  <1>7. CASE req[h].step = "rm"
    BY <1>7 DEF UnderWay, TypeOK, Disk
  <1>8. CASE req[h].step \in {"none", "stopping", "release"}
    BY <1>8 DEF UnderWay
  <1> QED
    BY <1>1, <1>2, <1>3, <1>4, <1>5, <1>6, <1>7, <1>8 DEF Steps

\* A handler's next step is a step, whatever it reads.
LEMMA Handling ==
    ASSUME TypeOK, NEW h \in Handlers, NEW step \in Steps
    PROVE  /\ Begin(h, step) => req' \in [Handlers -> Pending]
           /\ GoTo(h, step) => req' \in [Handlers -> Pending]
           /\ Ends(h) => req' \in [Handlers -> Pending]
           /\ [g \in Handlers |-> Idle] \in [Handlers -> Pending]
  <1>1. Idle \in Pending
    BY DEF Idle, Pending, Steps
  <1>2. row.path \in BOOLEAN /\ row.branch \in BOOLEAN
    BY DEF TypeOK, Row
  <1>3. [Idle EXCEPT !.step = step, !.path = row.path, !.branch = row.branch]
          \in Pending
    BY <1>1, <1>2 DEF Pending
  <1>4. Begin(h, step) => req' \in [Handlers -> Pending]
    BY <1>3 DEF Begin, TypeOK
  <1>5. [req[h] EXCEPT !.step = step] \in Pending
    BY DEF TypeOK, Pending
  <1>6. GoTo(h, step) => req' \in [Handlers -> Pending]
    BY <1>5 DEF GoTo, TypeOK
  <1>7. Ends(h) => req' \in [Handlers -> Pending]
    BY <1>1 DEF Ends, TypeOK
  <1> QED
    BY <1>1, <1>4, <1>6, <1>7

\* A row that forgets its worktree is a row, of the same objective.
LEMMA Forgetting ==
    ASSUME TypeOK
    PROVE  /\ Unlinked \in Row /\ Unlinked.status = row.status
           /\ Discarded \in Row /\ Discarded.status = row.status
           /\ Exists => ~Unlinked.path /\ ~Discarded.path /\ ~Discarded.branch
           /\ Unlinked.branch = row.branch
           /\ ~Exists => Unlinked = row /\ Discarded = row
  BY DEF TypeOK, Row, Unlinked, Discarded, Exists, NoRow

\* What the end of an integration or an abandonment does to the machine:
\* nothing but the row's claim, or a transition of a live, existing objective.
LEMMA Sent ==
    ASSUME IInv, NEW r \in Row, r.status = row.status,
           SendIntegrate(actor, r) \/ SendCancel(r)
    PROVE  /\ row' \in Row /\ snapshot' \in Machine /\ actor' \in Machine
           /\ work' \in BOOLEAN /\ row'.path = r.path
           /\ row'.branch = r.branch
           /\ \/ row' = r /\ snapshot' = snapshot /\ actor' = actor
                 /\ work' = work
              \/ /\ Live /\ Exists
                 /\ row'.status \in Terminal /\ snapshot'.state = row'.status
                 /\ actor'.state \in {"none", row'.status}

  <1> USE DEF IInv
  <1>1. actor \in Machine /\ snapshot \in Machine /\ work \in BOOLEAN
    BY DEF TypeOK
  <1>2. CASE SendIntegrate(actor, r) /\ actor.state = "integrating"
    <2> DEFINE m == [actor EXCEPT !.state = "done"]
    <2>1. m \in Machine /\ m.state = "done" /\ m.state # "none"
      BY <1>1, Names DEF Machine
    <2>2. Live /\ Exists
      BY <1>2, Names DEF SendIntegrate, CanPersist, Live
    <2>3. CommitTransition(m, r)
      BY <1>2 DEF SendIntegrate
    <2> HIDE DEF m
    <2> QED
      BY <2>1, <2>2, <2>3, Transition DEF Terminal
  <1>3. CASE SendCancel(r) /\ Live /\ actor.state \notin Terminal
    <2> DEFINE m == [actor EXCEPT !.state = "cancelled"]
    <2>1. m \in Machine /\ m.state = "cancelled" /\ m.state # "none"
      BY <1>1, Names DEF Machine
    <2>2. Live /\ Exists
      BY <1>3 DEF SendCancel, CanPersist
    <2>3. CommitTransition(m, r)
      BY <1>3 DEF SendCancel
    <2> HIDE DEF m
    <2> QED
      BY <2>1, <2>2, <2>3, Transition DEF Terminal
  <1>4. CASE row' = r /\ UNCHANGED <<snapshot, actor, work>>
    BY <1>1, <1>4
  <1> QED
    BY <1>2, <1>3, <1>4 DEF SendIntegrate, SendCancel

-----------------------------------------------------------------------------
(* The initial state, and each action.                                     *)

\* Nothing exists yet.
LEMMA InitIInv == Init => IInv
  <1> SUFFICES ASSUME Init PROVE IInv
    OBVIOUS
  <1>1. NoRow \in Row /\ NoRow.status = "none"
    BY DEF NoRow, Row
  <1>2. NoMachine \in Machine /\ NoMachine.state = "none"
    BY DEF NoMachine, Machine
  <1>3. NoDisk \in Disk /\ ~NoDisk.dir
    BY DEF NoDisk, Disk
  <1>4. Idle \in Pending
    BY DEF Idle, Pending, Steps
  <1>5. TypeOK
    BY <1>1, <1>2, <1>3, <1>4 DEF Init, TypeOK
  <1>6. MirrorInv /\ MakingInv /\ DiskInv /\ WorkInv
    BY <1>1, <1>2, <1>3, Names DEF Init, MirrorInv, MakingInv, DiskInv,
       WorkInv, Live, Exists, Up
  <1> QED
    BY <1>5, <1>6 DEF IInv

\* Inserting the row begins creation.
LEMMA Inserting ==
    ASSUME IInv, InsertRow
    PROVE  IInv'
  <1> USE DEF IInv
  <1>1. NoRow \in Row
    BY DEF NoRow, Row
  <1>2. /\ row' = [NoRow EXCEPT !.status = "creating"] /\ making = "unborn"
        /\ Up /\ making' = "adding"
        /\ UNCHANGED <<server, setupRuns, snapshot, actor, work, disk, req,
             odd, crashes>>
    BY DEF InsertRow
  <1>3. row' \in Row /\ row'.status = "creating"
    BY <1>1, <1>2 DEF Row
  <1>4. TypeOK'
    BY <1>1, <1>2, <1>3, Names DEF TypeOK, Quiet, Live, Exists, Up
  <1>5. MirrorInv'
    BY <1>1, <1>2, <1>3, Names DEF TypeOK, MirrorInv, MakingInv, Quiet, Live,
       Exists, Up
  <1>6. MakingInv'
    BY <1>1, <1>2, <1>3, Names DEF TypeOK, MirrorInv, MakingInv, Quiet, Live,
       Exists, Up
  <1>7. DiskInv'
    BY <1>1, <1>2, <1>3, Names DEF TypeOK, MirrorInv, MakingInv, DiskInv,
       Quiet, Live, Exists, Up
  <1>8. WorkInv'
    BY <1>1, <1>2, <1>3, Names DEF TypeOK, MirrorInv, MakingInv, WorkInv,
       Quiet, Live, Exists, Up
  <1> QED
    BY <1>4, <1>5, <1>6, <1>7, <1>8

\* The worktree is there and the row says so, unless the row is gone.
LEMMA AddingWorktree ==
    ASSUME IInv, WorktreeAdded
    PROVE  IInv'
  <1> USE DEF IInv
  <1>1. Added \in Disk /\ disk' = Added
    BY DEF WorktreeAdded, Added, Disk
  <1>2. \/ /\ Exists
           /\ row' = [row EXCEPT !.path = TRUE, !.branch = TRUE,
                        !.status = IF SetupCommands > 0
                                     THEN "creating" ELSE "idle"]
           /\ making' = (IF SetupCommands > 0 THEN "setup" ELSE "no")
        \/ ~Exists /\ making' = "no" /\ row' = row
    BY DEF WorktreeAdded, AfterAdding
  <1>3. TypeOK'
    BY <1>1, <1>2, Names DEF TypeOK, Quiet, Live, Exists, Up, WorktreeAdded,
       Row, Machine, Disk
  <1>4. MirrorInv'
    BY <1>1, <1>2, Names DEF TypeOK, MirrorInv, MakingInv, Quiet, Live,
       Exists, Up, WorktreeAdded, Row, Machine, Disk
  <1>5. MakingInv'
    BY <1>1, <1>2, Names DEF TypeOK, MirrorInv, MakingInv, Quiet, Live,
       Exists, Up, WorktreeAdded, Row, Machine, Disk
  <1>6. DiskInv'
    BY <1>1, <1>2, Names DEF TypeOK, MirrorInv, MakingInv, DiskInv, Quiet,
       Live, Exists, Up, WorktreeAdded, Row, Machine, Disk
  <1>7. WorkInv'
    BY <1>1, <1>2, Names DEF TypeOK, MirrorInv, MakingInv, WorkInv, Quiet,
       Live, Exists, Up, WorktreeAdded, Row, Machine, Disk
  <1> QED
    BY <1>3, <1>4, <1>5, <1>6, <1>7

\* Without a worktree there is no objective.
LEMMA RefusingWorktree ==
    ASSUME IInv, WorktreeRefused
    PROVE  IInv'
  <1> USE DEF IInv
  <1>1. TypeOK'
    BY Names DEF TypeOK, Quiet, Live, Exists, Up, WorktreeRefused, ReferredTo,
       NoRow, Row, Machine, Disk
  <1>2. MirrorInv'
    BY Names DEF TypeOK, MirrorInv, MakingInv, Quiet, Live, Exists, Up,
       WorktreeRefused, ReferredTo, NoRow, Row, Machine, Disk
  <1>3. MakingInv'
    BY Names DEF TypeOK, MirrorInv, MakingInv, Quiet, Live, Exists, Up,
       WorktreeRefused, ReferredTo, NoRow, Row, Machine, Disk
  <1>4. DiskInv'
    BY Names DEF TypeOK, MirrorInv, MakingInv, DiskInv, Quiet, Live, Exists,
       Up, WorktreeRefused, ReferredTo, NoRow, Row, Machine, Disk
  <1>5. WorkInv'
    BY Names DEF TypeOK, MirrorInv, MakingInv, WorkInv, Quiet, Live, Exists,
       Up, WorktreeRefused, ReferredTo, NoRow, Row, Machine, Disk
  <1> QED
    BY <1>1, <1>2, <1>3, <1>4, <1>5

\* A setup command ran.
LEMMA RunningSetup ==
    ASSUME IInv, SetupCommandRan
    PROVE  IInv'
  <1> USE DEF IInv
  <1>1. \/ row' = row /\ making' = making
        \/ /\ \/ row' = [row EXCEPT !.status = "idle"]
              \/ row' = [row EXCEPT !.status = "setup_failed"]
           /\ making' = "no"
    BY DEF SetupCommandRan, SetupOutcomes
  <1>2. TypeOK'
    BY <1>1, Names DEF TypeOK, Quiet, Live, Exists, Up, SetupCommandRan, Row,
       Machine, Disk
  <1>3. MirrorInv'
    BY <1>1, Names DEF TypeOK, MirrorInv, MakingInv, Quiet, Live, Exists, Up,
       SetupCommandRan, Row, Machine, Disk
  <1>4. MakingInv'
    BY <1>1, Names DEF TypeOK, MirrorInv, MakingInv, Quiet, Live, Exists, Up,
       SetupCommandRan, Row, Machine, Disk
  <1>5. DiskInv'
    BY <1>1, Names DEF TypeOK, MirrorInv, MakingInv, DiskInv, Quiet, Live,
       Exists, Up, SetupCommandRan, Row, Machine, Disk
  <1>6. WorkInv'
    BY <1>1, Names DEF TypeOK, MirrorInv, MakingInv, WorkInv, Quiet, Live,
       Exists, Up, SetupCommandRan, Row, Machine, Disk
  <1> QED
    BY <1>2, <1>3, <1>4, <1>5, <1>6

\* Setup finds the row gone.
LEMMA ThrowingSetup ==
    ASSUME IInv, SetupThrows
    PROVE  IInv'
  <1> USE DEF IInv
  <1>1. TypeOK'
    BY Names DEF TypeOK, Quiet, Live, Exists, Up, SetupThrows, Row, Machine,
       Disk
  <1>2. MirrorInv'
    BY Names DEF TypeOK, MirrorInv, MakingInv, Quiet, Live, Exists, Up,
       SetupThrows, Row, Machine, Disk
  <1>3. MakingInv'
    BY Names DEF TypeOK, MirrorInv, MakingInv, Quiet, Live, Exists, Up,
       SetupThrows, Row, Machine, Disk
  <1>4. DiskInv'
    BY Names DEF TypeOK, MirrorInv, MakingInv, DiskInv, Quiet, Live, Exists,
       Up, SetupThrows, Row, Machine, Disk
  <1>5. WorkInv'
    BY Names DEF TypeOK, MirrorInv, MakingInv, WorkInv, Quiet, Live, Exists,
       Up, SetupThrows, Row, Machine, Disk
  <1> QED
    BY <1>1, <1>2, <1>3, <1>4, <1>5

\* A command moves the machine it finds.
LEMMA Commanding ==
    ASSUME IInv, Command
    PROVE  IInv'
  <1> USE DEF IInv
  <1>1. PICK to \in Targets(Ensured) : CommitTransition(Moved(Ensured, to), row)
    BY DEF Command
  <1>2. to \in MachineStates
    BY DEF Targets
  <1>3. /\ Moved(Ensured, to) \in Machine /\ Moved(Ensured, to).state = to
        /\ row \in Row
    BY <1>1, <1>2, Moving, Finding DEF TypeOK
  <1>4. /\ row' \in Row /\ snapshot' \in Machine /\ actor' \in Machine
        /\ work' \in BOOLEAN
        /\ row'.status = to /\ row'.path = row.path /\ snapshot'.state = to
        /\ actor'.state \in {to, "none"}
        /\ (to \notin Terminal => actor'.state = to)
        /\ (actor'.state \in Busy => work')
    BY <1>1, <1>2, <1>3, Transition, Names
  <1>5. /\ odd' = odd \cup Early
        /\ Early \subseteq {"early"}
        /\ (making # "no" => "early" \in odd')
    BY DEF Command, NoteEarly, Early
  <1>6. /\ Up
        /\ Exists
        /\ UNCHANGED <<server, setupRuns, disk, making, req, crashes>>
    BY DEF Command
  <1>7. TypeOK'
    BY <1>1, <1>2, <1>3, <1>4, <1>5, <1>6, Names DEF TypeOK, Quiet, Live,
       Exists, Up
  <1>8. MirrorInv'
    BY <1>1, <1>2, <1>3, <1>4, <1>5, <1>6, Names DEF TypeOK, MirrorInv,
       MakingInv, Quiet, Live, Exists, Up
  <1>9. MakingInv'
    BY <1>1, <1>2, <1>3, <1>4, <1>5, <1>6, Names DEF TypeOK, MirrorInv,
       MakingInv, Quiet, Live, Exists, Up
  <1>10. DiskInv'
    BY <1>1, <1>2, <1>3, <1>4, <1>5, <1>6, Names DEF TypeOK, MirrorInv,
       MakingInv, DiskInv, Quiet, Live, Exists, Up
  <1>11. WorkInv'
    BY <1>1, <1>2, <1>3, <1>4, <1>5, <1>6, Names DEF TypeOK, MirrorInv,
       MakingInv, WorkInv, Quiet, Live, Exists, Up
  <1> QED
    BY <1>7, <1>8, <1>9, <1>10, <1>11

\* A refused command leaves an actor behind.
LEMMA Refusing ==
    ASSUME IInv, RefusedCommand
    PROVE  IInv'
  <1> USE DEF IInv
  <1>1. /\ Up
        /\ Exists
        /\ ~Live
        /\ EnsureOnly
        /\ UNCHANGED <<server, setupRuns, disk, making, req, crashes>>
    BY DEF RefusedCommand
  <1>2. /\ row' \in Row /\ snapshot' \in Machine /\ actor' \in Machine
        /\ work' \in BOOLEAN /\ row'.path = row.path
        /\ actor'.state \in MachineStates /\ snapshot'.state # "none"
        /\ (snapshot.state # "none" => row' = row /\ snapshot' = snapshot
             /\ work' = work)
        /\ actor'.state = snapshot'.state
        /\ (snapshot.state = "none" => row'.status = "idle"
             /\ snapshot'.state = "idle")
    BY <1>1, Ensuring
  <1>3. /\ odd' = odd \cup Early
        /\ Early \subseteq {"early"}
        /\ (making # "no" => "early" \in odd')
    BY DEF RefusedCommand, NoteEarly, Early
  <1>4. TypeOK'
    BY <1>1, <1>2, <1>3, Names DEF TypeOK, Quiet, Live, Exists, Up, Machine
  <1>5. MirrorInv'
    BY <1>1, <1>2, <1>3, Names DEF TypeOK, MirrorInv, MakingInv, Quiet, Live,
       Exists, Up, Machine
  <1>6. MakingInv'
    BY <1>1, <1>2, <1>3, Names DEF TypeOK, MirrorInv, MakingInv, Quiet, Live,
       Exists, Up, Machine
  <1>7. DiskInv'
    BY <1>1, <1>2, <1>3, Names DEF TypeOK, MirrorInv, MakingInv, DiskInv,
       Quiet, Live, Exists, Up, Machine
  <1>8. WorkInv'
    BY <1>1, <1>2, <1>3, Names DEF TypeOK, MirrorInv, MakingInv, WorkInv,
       Quiet, Live, Exists, Up, Machine
  <1> QED
    BY <1>4, <1>5, <1>6, <1>7, <1>8

\* A turn, the collector or a reset reports.
LEMMA Reporting ==
    ASSUME IInv, WorkReports
    PROVE  IInv'
  <1> USE DEF IInv
  <1>1. PICK to \in MachineStates : CommitTransition(Moved(actor, to), row)
    BY DEF WorkReports
  <1>2. /\ Moved(actor, to) \in Machine /\ Moved(actor, to).state = to
        /\ row \in Row
    BY <1>1, Moving DEF TypeOK
  <1>3. /\ row' \in Row /\ snapshot' \in Machine /\ actor' \in Machine
        /\ work' \in BOOLEAN
        /\ row'.status = to /\ row'.path = row.path /\ snapshot'.state = to
        /\ actor'.state \in {to, "none"}
        /\ (to \notin Terminal => actor'.state = to)
        /\ (actor'.state \in Busy => work')
    BY <1>1, <1>2, Transition, Names
  <1>4. /\ disk' \in Disk /\ disk'.dir = disk.dir
        /\ odd' \in {odd, odd \cup {"worked"}}
    BY DEF WorkReports, TypeOK, Disk
  <1>5. /\ Up
        /\ Exists
        /\ Live
        /\ UNCHANGED <<server, setupRuns, making, req, crashes>>
    BY DEF WorkReports
  <1>6. TypeOK'
    BY <1>1, <1>2, <1>3, <1>4, <1>5, Names DEF TypeOK, Quiet, Live, Exists, Up
  <1>7. MirrorInv'
    BY <1>1, <1>2, <1>3, <1>4, <1>5, Names DEF TypeOK, MirrorInv, MakingInv,
       Quiet, Live, Exists, Up
  <1>8. MakingInv'
    BY <1>1, <1>2, <1>3, <1>4, <1>5, Names DEF TypeOK, MirrorInv, MakingInv,
       Quiet, Live, Exists, Up
  <1>9. DiskInv'
    BY <1>1, <1>2, <1>3, <1>4, <1>5, Names DEF TypeOK, MirrorInv, MakingInv,
       DiskInv, Quiet, Live, Exists, Up
  <1>10. WorkInv'
    BY <1>1, <1>2, <1>3, <1>4, <1>5, Names DEF TypeOK, MirrorInv, MakingInv,
       WorkInv, Quiet, Live, Exists, Up
  <1> QED
    BY <1>6, <1>7, <1>8, <1>9, <1>10

\* Setting the mode moves nothing.
LEMMA SettingMode ==
    ASSUME IInv, SetLowEnergy
    PROVE  IInv'
  <1> USE DEF IInv
  <1>1. /\ row' \in Row /\ row'.status = row.status /\ row'.path = row.path
        /\ actor' \in Machine /\ actor'.state = actor.state
    BY DEF SetLowEnergy, TypeOK, Row, Machine
  <1>2. /\ Up
        /\ Exists
        /\ UNCHANGED <<server, setupRuns, snapshot, work, disk, making, req,
             odd, crashes>>
    BY DEF SetLowEnergy
  <1>3. TypeOK'
    BY <1>1, <1>2, Names DEF TypeOK, Quiet, Live, Exists, Up
  <1>4. MirrorInv'
    BY <1>1, <1>2, Names DEF TypeOK, MirrorInv, MakingInv, Quiet, Live,
       Exists, Up
  <1>5. MakingInv'
    BY <1>1, <1>2, Names DEF TypeOK, MirrorInv, MakingInv, Quiet, Live,
       Exists, Up
  <1>6. DiskInv'
    BY <1>1, <1>2, Names DEF TypeOK, MirrorInv, MakingInv, DiskInv, Quiet,
       Live, Exists, Up
  <1>7. WorkInv'
    BY <1>1, <1>2, Names DEF TypeOK, MirrorInv, MakingInv, WorkInv, Quiet,
       Live, Exists, Up
  <1> QED
    BY <1>3, <1>4, <1>5, <1>6, <1>7

\* Integration with nothing left to do in git ends the objective.
LEMMA IntegratingAtOnce ==
    ASSUME IInv, NEW h \in Handlers, IntegrateAtOnce(h)
    PROVE  IInv'
  <1> USE DEF IInv
  <1>1. /\ Up
        /\ Exists
        /\ Ensured.state = "integrating"
        /\ UNCHANGED <<server, setupRuns, disk, making, req, odd, crashes>>
    BY DEF IntegrateAtOnce, MayBegin, At
  <1>2. CommitTransition([Ensured EXCEPT !.state = "done"], row)
    BY <1>1 DEF IntegrateAtOnce, SendIntegrate
  <1>3. /\ [Ensured EXCEPT !.state = "done"] \in Machine
        /\ [Ensured EXCEPT !.state = "done"].state = "done" /\ row \in Row
    BY Finding, Names DEF Machine, TypeOK
  <1>4. /\ row' \in Row /\ snapshot' \in Machine /\ actor' \in Machine
        /\ work' \in BOOLEAN
        /\ row'.status = "done" /\ row'.path = row.path
             /\ snapshot'.state = "done"
        /\ actor'.state \in {"done", "none"}
    BY <1>2, <1>3, Transition, Names
  <1>5. Live \/ snapshot.state = "integrating"
    BY <1>1, Finding, Names
  <1>6. "done" \in Terminal
    BY DEF Terminal
  <1>7. TypeOK'
    BY <1>1, <1>4, <1>5, <1>6, Names DEF TypeOK, Quiet, Live, Exists, Up
  <1>8. MirrorInv'
    BY <1>1, <1>4, <1>5, <1>6, Names DEF TypeOK, MirrorInv, MakingInv, Quiet,
       Live, Exists, Up
  <1>9. MakingInv'
    BY <1>1, <1>4, <1>5, <1>6, Names DEF TypeOK, MirrorInv, MakingInv, Quiet,
       Live, Exists, Up
  <1>10. DiskInv'
    BY <1>1, <1>4, <1>5, <1>6, Names DEF TypeOK, MirrorInv, MakingInv,
       DiskInv, Quiet, Live, Exists, Up
  <1>11. WorkInv'
    BY <1>1, <1>4, <1>5, <1>6, Names DEF TypeOK, MirrorInv, MakingInv,
       WorkInv, Quiet, Live, Exists, Up
  <1> QED
    BY <1>7, <1>8, <1>9, <1>10, <1>11

\* Integration begins on an objective that is integrating.
LEMMA IntegratingCommit ==
    ASSUME IInv, NEW h \in Handlers, IntegrateCommit(h)
    PROVE  IInv'
  <1> USE DEF IInv
  <1>1. /\ Up
        /\ Exists
        /\ Ensured.state = "integrating"
        /\ EnsureOnly
        /\ odd' = odd \cup Crossed(h) /\ Crossed(h) \subseteq {"crossed"}
        /\ UNCHANGED <<server, setupRuns, disk, making, crashes>>
    BY DEF NoteCrossed, Crossed, IntegrateCommit, MayBegin, At
  <1>2. Live \/ snapshot.state = "integrating"
    BY <1>1, Finding, Names
  <1>3. /\ row' \in Row /\ snapshot' \in Machine /\ actor' \in Machine
        /\ work' \in BOOLEAN /\ row'.path = row.path
        /\ row' = row /\ snapshot' = snapshot /\ work' = work
        /\ actor'.state \in MachineStates /\ (Live => actor' = actor)
        /\ (~Live => actor'.state = snapshot.state)
    BY <1>1, <1>2, Ensuring, Names
  <1>4. req' \in [Handlers -> Pending]
    BY Handling DEF IntegrateCommit, Steps
  <1>5. TypeOK'
    BY <1>1, <1>2, <1>3, <1>4, Names DEF TypeOK, Quiet, Live, Exists, Up,
       Machine
  <1>6. MirrorInv'
    BY <1>1, <1>2, <1>3, <1>4, Names DEF TypeOK, MirrorInv, MakingInv, Quiet,
       Live, Exists, Up, Machine
  <1>7. MakingInv'
    BY <1>1, <1>2, <1>3, <1>4, Names DEF TypeOK, MirrorInv, MakingInv, Quiet,
       Live, Exists, Up, Machine
  <1>8. DiskInv'
    BY <1>1, <1>2, <1>3, <1>4, Names DEF TypeOK, MirrorInv, MakingInv,
       DiskInv, Quiet, Live, Exists, Up, Machine
  <1>9. WorkInv'
    BY <1>1, <1>2, <1>3, <1>4, Names DEF TypeOK, MirrorInv, MakingInv,
       WorkInv, Quiet, Live, Exists, Up, Machine
  <1> QED
    BY <1>5, <1>6, <1>7, <1>8, <1>9

\* Integration begins on an objective that is integrating.
LEMMA IntegratingDiscard ==
    ASSUME IInv, NEW h \in Handlers, IntegrateDiscard(h)
    PROVE  IInv'
  <1> USE DEF IInv
  <1>1. /\ Up
        /\ Exists
        /\ Ensured.state = "integrating"
        /\ EnsureOnly
        /\ odd' = odd \cup Crossed(h) /\ Crossed(h) \subseteq {"crossed"}
        /\ UNCHANGED <<server, setupRuns, disk, making, crashes>>
    BY DEF NoteCrossed, Crossed, IntegrateDiscard, MayBegin, At
  <1>2. Live \/ snapshot.state = "integrating"
    BY <1>1, Finding, Names
  <1>3. /\ row' \in Row /\ snapshot' \in Machine /\ actor' \in Machine
        /\ work' \in BOOLEAN /\ row'.path = row.path
        /\ row' = row /\ snapshot' = snapshot /\ work' = work
        /\ actor'.state \in MachineStates /\ (Live => actor' = actor)
        /\ (~Live => actor'.state = snapshot.state)
    BY <1>1, <1>2, Ensuring, Names
  <1>4. req' \in [Handlers -> Pending]
    BY Handling DEF IntegrateDiscard, Steps
  <1>5. TypeOK'
    BY <1>1, <1>2, <1>3, <1>4, Names DEF TypeOK, Quiet, Live, Exists, Up,
       Machine
  <1>6. MirrorInv'
    BY <1>1, <1>2, <1>3, <1>4, Names DEF TypeOK, MirrorInv, MakingInv, Quiet,
       Live, Exists, Up, Machine
  <1>7. MakingInv'
    BY <1>1, <1>2, <1>3, <1>4, Names DEF TypeOK, MirrorInv, MakingInv, Quiet,
       Live, Exists, Up, Machine
  <1>8. DiskInv'
    BY <1>1, <1>2, <1>3, <1>4, Names DEF TypeOK, MirrorInv, MakingInv,
       DiskInv, Quiet, Live, Exists, Up, Machine
  <1>9. WorkInv'
    BY <1>1, <1>2, <1>3, <1>4, Names DEF TypeOK, MirrorInv, MakingInv,
       WorkInv, Quiet, Live, Exists, Up, Machine
  <1> QED
    BY <1>5, <1>6, <1>7, <1>8, <1>9

\* Squashing moves a branch and makes no directory.
LEMMA Squashing ==
    ASSUME IInv, NEW h \in Handlers, SquashSteps(h)
    PROVE  IInv'
  <1> USE DEF IInv
  <1>1. /\ disk' \in Disk
        /\ disk'.dir = disk.dir
        /\ UNCHANGED <<server, row, setupRuns, snapshot, actor, work, making,
             odd, crashes>>
    BY DEF SquashSteps, TypeOK, Disk
  <1>2. req' \in [Handlers -> Pending]
    BY Handling DEF SquashSteps, Steps
  <1>3. TypeOK'
    BY <1>1, <1>2, Names DEF TypeOK, Quiet, Live, Exists, Up
  <1>4. MirrorInv'
    BY <1>1, <1>2, Names DEF TypeOK, MirrorInv, MakingInv, Quiet, Live,
       Exists, Up
  <1>5. MakingInv'
    BY <1>1, <1>2, Names DEF TypeOK, MirrorInv, MakingInv, Quiet, Live,
       Exists, Up
  <1>6. DiskInv'
    BY <1>1, <1>2, Names DEF TypeOK, MirrorInv, MakingInv, DiskInv, Quiet,
       Live, Exists, Up
  <1>7. WorkInv'
    BY <1>1, <1>2, Names DEF TypeOK, MirrorInv, MakingInv, WorkInv, Quiet,
       Live, Exists, Up
  <1> QED
    BY <1>3, <1>4, <1>5, <1>6, <1>7

\* The squash commit makes no directory.
LEMMA Committing ==
    ASSUME IInv, NEW h \in Handlers, CommitSquash(h)
    PROVE  IInv'
  <1> USE DEF IInv
  <1>1. /\ disk' \in Disk
        /\ disk'.dir = disk.dir
        /\ UNCHANGED <<server, row, setupRuns, snapshot, actor, work, making,
             odd, crashes>>
    BY DEF CommitSquash, TypeOK, Disk
  <1>2. req' \in [Handlers -> Pending]
    BY Handling DEF CommitSquash, Steps
  <1>3. TypeOK'
    BY <1>1, <1>2, Names DEF TypeOK, Quiet, Live, Exists, Up
  <1>4. MirrorInv'
    BY <1>1, <1>2, Names DEF TypeOK, MirrorInv, MakingInv, Quiet, Live,
       Exists, Up
  <1>5. MakingInv'
    BY <1>1, <1>2, Names DEF TypeOK, MirrorInv, MakingInv, Quiet, Live,
       Exists, Up
  <1>6. DiskInv'
    BY <1>1, <1>2, Names DEF TypeOK, MirrorInv, MakingInv, DiskInv, Quiet,
       Live, Exists, Up
  <1>7. WorkInv'
    BY <1>1, <1>2, Names DEF TypeOK, MirrorInv, MakingInv, WorkInv, Quiet,
       Live, Exists, Up
  <1> QED
    BY <1>3, <1>4, <1>5, <1>6, <1>7

\* The squashed worktree is removed and forgotten, or neither.
LEMMA RemovingSquashed ==
    ASSUME IInv, NEW h \in Handlers, RemoveSquashed(h)
    PROVE  IInv'
  <1> USE DEF IInv
  <1>1. /\ Up /\ UNCHANGED <<server, setupRuns, making, odd, crashes>>
        /\ disk' \in Disk
    BY Removing DEF RemoveSquashed, At
  <1>2. req' \in [Handlers -> Pending]
    BY Handling DEF RemoveSquashed, Steps
  <1>3. /\ row \in Row
        /\ snapshot \in Machine
        /\ actor \in Machine
        /\ work \in BOOLEAN
    BY DEF TypeOK
  <1>4. CASE ~disk'.dir /\ SendIntegrate(actor, Unlinked)
    <2>1. /\ row' \in Row /\ snapshot' \in Machine /\ actor' \in Machine
          /\ work' \in BOOLEAN
          /\ \/ /\ row'.status = row.status /\ snapshot' = snapshot
                /\ actor' = actor /\ work' = work
             \/ /\ Live /\ Exists /\ row'.status \in Terminal
                /\ snapshot'.state = row'.status
                /\ actor'.state \in {"none", row'.status}
      BY <1>4, Forgetting, Sent
    <2>2. TypeOK'
      BY <1>1, <1>2, <1>3, <1>4, <2>1, Names DEF TypeOK, Quiet, Live, Exists, Up
    <2>3. MirrorInv'
      BY <1>1, <1>2, <1>3, <1>4, <2>1, Names DEF TypeOK, MirrorInv, MakingInv,
         Quiet, Live, Exists, Up
    <2>4. MakingInv'
      BY <1>1, <1>2, <1>3, <1>4, <2>1, Names DEF TypeOK, MirrorInv, MakingInv,
         Quiet, Live, Exists, Up
    <2>5. DiskInv'
      BY <1>1, <1>2, <1>3, <1>4, <2>1, Names DEF TypeOK, MirrorInv, MakingInv,
         DiskInv, Quiet, Live, Exists, Up
    <2>6. WorkInv'
      BY <1>1, <1>2, <1>3, <1>4, <2>1, Names DEF TypeOK, MirrorInv, MakingInv,
         WorkInv, Quiet, Live, Exists, Up
    <2> QED
      BY <2>2, <2>3, <2>4, <2>5, <2>6
  <1>5. CASE disk.dir /\ UNCHANGED <<row, snapshot, actor, work>>
    <2>1. TypeOK'
      BY <1>1, <1>2, <1>3, <1>5, Names DEF TypeOK, Quiet, Live, Exists, Up
    <2>2. MirrorInv'
      BY <1>1, <1>2, <1>3, <1>5, Names DEF TypeOK, MirrorInv, MakingInv,
         Quiet, Live, Exists, Up
    <2>3. MakingInv'
      BY <1>1, <1>2, <1>3, <1>5, Names DEF TypeOK, MirrorInv, MakingInv,
         Quiet, Live, Exists, Up
    <2>4. DiskInv'
      BY <1>1, <1>2, <1>3, <1>5, Names DEF TypeOK, MirrorInv, MakingInv,
         DiskInv, Quiet, Live, Exists, Up
    <2>5. WorkInv'
      BY <1>1, <1>2, <1>3, <1>5, Names DEF TypeOK, MirrorInv, MakingInv,
         WorkInv, Quiet, Live, Exists, Up
    <2> QED
      BY <2>1, <2>2, <2>3, <2>4, <2>5
  <1> QED
    BY <1>4, <1>5, Removing DEF RemoveSquashed

\* The discarded worktree is removed and forgotten, or neither.
LEMMA Discarding ==
    ASSUME IInv, NEW h \in Handlers, DiscardWorktree(h)
    PROVE  IInv'
  <1> USE DEF IInv
  <1>1. /\ Up /\ UNCHANGED <<server, setupRuns, making, odd, crashes>>
        /\ disk' \in Disk
    BY Removing DEF DiscardWorktree, At
  <1>2. req' \in [Handlers -> Pending]
    BY Handling DEF DiscardWorktree, Steps
  <1>3. /\ row \in Row
        /\ snapshot \in Machine
        /\ actor \in Machine
        /\ work \in BOOLEAN
    BY DEF TypeOK
  <1>4. CASE ~disk'.dir /\ SendIntegrate(actor, Discarded)
    <2>1. /\ row' \in Row /\ snapshot' \in Machine /\ actor' \in Machine
          /\ work' \in BOOLEAN
          /\ \/ /\ row'.status = row.status /\ snapshot' = snapshot
                /\ actor' = actor /\ work' = work
             \/ /\ Live /\ Exists /\ row'.status \in Terminal
                /\ snapshot'.state = row'.status
                /\ actor'.state \in {"none", row'.status}
      BY <1>4, Forgetting, Sent
    <2>2. TypeOK'
      BY <1>1, <1>2, <1>3, <1>4, <2>1, Names DEF TypeOK, Quiet, Live, Exists, Up
    <2>3. MirrorInv'
      BY <1>1, <1>2, <1>3, <1>4, <2>1, Names DEF TypeOK, MirrorInv, MakingInv,
         Quiet, Live, Exists, Up
    <2>4. MakingInv'
      BY <1>1, <1>2, <1>3, <1>4, <2>1, Names DEF TypeOK, MirrorInv, MakingInv,
         Quiet, Live, Exists, Up
    <2>5. DiskInv'
      BY <1>1, <1>2, <1>3, <1>4, <2>1, Names DEF TypeOK, MirrorInv, MakingInv,
         DiskInv, Quiet, Live, Exists, Up
    <2>6. WorkInv'
      BY <1>1, <1>2, <1>3, <1>4, <2>1, Names DEF TypeOK, MirrorInv, MakingInv,
         WorkInv, Quiet, Live, Exists, Up
    <2> QED
      BY <2>2, <2>3, <2>4, <2>5, <2>6
  <1>5. CASE disk.dir /\ UNCHANGED <<row, snapshot, actor, work>>
    <2>1. TypeOK'
      BY <1>1, <1>2, <1>3, <1>5, Names DEF TypeOK, Quiet, Live, Exists, Up
    <2>2. MirrorInv'
      BY <1>1, <1>2, <1>3, <1>5, Names DEF TypeOK, MirrorInv, MakingInv,
         Quiet, Live, Exists, Up
    <2>3. MakingInv'
      BY <1>1, <1>2, <1>3, <1>5, Names DEF TypeOK, MirrorInv, MakingInv,
         Quiet, Live, Exists, Up
    <2>4. DiskInv'
      BY <1>1, <1>2, <1>3, <1>5, Names DEF TypeOK, MirrorInv, MakingInv,
         DiskInv, Quiet, Live, Exists, Up
    <2>5. WorkInv'
      BY <1>1, <1>2, <1>3, <1>5, Names DEF TypeOK, MirrorInv, MakingInv,
         WorkInv, Quiet, Live, Exists, Up
    <2> QED
      BY <2>1, <2>2, <2>3, <2>4, <2>5
  <1> QED
    BY <1>4, <1>5, Removing DEF DiscardWorktree

\* The abandoned worktree is removed and forgotten, or neither.
LEMMA AbandoningWorktree ==
    ASSUME IInv, NEW h \in Handlers, AbandonWorktree(h)
    PROVE  IInv'
  <1> USE DEF IInv
  <1>1. /\ Up /\ UNCHANGED <<server, setupRuns, making, odd, crashes>>
        /\ disk' \in Disk
    BY Removing DEF AbandonWorktree, At
  <1>2. req' \in [Handlers -> Pending]
    BY Handling DEF AbandonWorktree, Steps
  <1>3. /\ row \in Row
        /\ snapshot \in Machine
        /\ actor \in Machine
        /\ work \in BOOLEAN
    BY DEF TypeOK
  <1>4. CASE ~disk'.dir /\ SendCancel(Discarded)
    <2>1. /\ row' \in Row /\ snapshot' \in Machine /\ actor' \in Machine
          /\ work' \in BOOLEAN
          /\ \/ /\ row'.status = row.status /\ snapshot' = snapshot
                /\ actor' = actor /\ work' = work
             \/ /\ Live /\ Exists /\ row'.status \in Terminal
                /\ snapshot'.state = row'.status
                /\ actor'.state \in {"none", row'.status}
      BY <1>4, Forgetting, Sent
    <2>2. TypeOK'
      BY <1>1, <1>2, <1>3, <1>4, <2>1, Names DEF TypeOK, Quiet, Live, Exists, Up
    <2>3. MirrorInv'
      BY <1>1, <1>2, <1>3, <1>4, <2>1, Names DEF TypeOK, MirrorInv, MakingInv,
         Quiet, Live, Exists, Up
    <2>4. MakingInv'
      BY <1>1, <1>2, <1>3, <1>4, <2>1, Names DEF TypeOK, MirrorInv, MakingInv,
         Quiet, Live, Exists, Up
    <2>5. DiskInv'
      BY <1>1, <1>2, <1>3, <1>4, <2>1, Names DEF TypeOK, MirrorInv, MakingInv,
         DiskInv, Quiet, Live, Exists, Up
    <2>6. WorkInv'
      BY <1>1, <1>2, <1>3, <1>4, <2>1, Names DEF TypeOK, MirrorInv, MakingInv,
         WorkInv, Quiet, Live, Exists, Up
    <2> QED
      BY <2>2, <2>3, <2>4, <2>5, <2>6
  <1>5. CASE disk.dir /\ UNCHANGED <<row, snapshot, actor, work>>
    <2>1. TypeOK'
      BY <1>1, <1>2, <1>3, <1>5, Names DEF TypeOK, Quiet, Live, Exists, Up
    <2>2. MirrorInv'
      BY <1>1, <1>2, <1>3, <1>5, Names DEF TypeOK, MirrorInv, MakingInv,
         Quiet, Live, Exists, Up
    <2>3. MakingInv'
      BY <1>1, <1>2, <1>3, <1>5, Names DEF TypeOK, MirrorInv, MakingInv,
         Quiet, Live, Exists, Up
    <2>4. DiskInv'
      BY <1>1, <1>2, <1>3, <1>5, Names DEF TypeOK, MirrorInv, MakingInv,
         DiskInv, Quiet, Live, Exists, Up
    <2>5. WorkInv'
      BY <1>1, <1>2, <1>3, <1>5, Names DEF TypeOK, MirrorInv, MakingInv,
         WorkInv, Quiet, Live, Exists, Up
    <2> QED
      BY <2>1, <2>2, <2>3, <2>4, <2>5
  <1> QED
    BY <1>4, <1>5, Removing DEF AbandonWorktree

\* Abandonment begins on whatever actor it finds.
LEMMA Abandoning ==
    ASSUME IInv, NEW h \in Handlers, Abandon(h)
    PROVE  IInv'
  <1> USE DEF IInv
  <1>1. /\ Up
        /\ Exists
        /\ EnsureOnly
        /\ UNCHANGED <<server, setupRuns, disk, making, crashes>>
    BY DEF Abandon, At
  <1>2. req' \in [Handlers -> Pending]
    BY Handling DEF Abandon, Steps
  <1>3. /\ row' \in Row /\ snapshot' \in Machine /\ actor' \in Machine
        /\ work' \in BOOLEAN /\ row'.path = row.path
        /\ actor'.state \in MachineStates /\ (snapshot'.state # "none" \/ Live)
        /\ (Live \/ snapshot.state # "none" => row' = row
             /\ snapshot' = snapshot /\ work' = work)
        /\ (Live => actor' = actor)
        /\ (~Live => actor'.state = snapshot'.state)
        /\ (~Live /\ snapshot.state = "none" => row'.status = "idle"
             /\ snapshot'.state = "idle")
    BY <1>1, Ensuring
  <1>4. /\ odd' = odd \cup Early \cup Crossed(h)
        /\ Crossed(h) \subseteq {"crossed"}
        /\ Early \subseteq {"early"}
        /\ (making # "no" => "early" \in odd')
    BY DEF Abandon, Early, Crossed
  <1>5. TypeOK'
    BY <1>1, <1>2, <1>3, <1>4, Names DEF TypeOK, Quiet, Live, Exists, Up,
       Machine
  <1>6. MirrorInv'
    BY <1>1, <1>2, <1>3, <1>4, Names DEF TypeOK, MirrorInv, MakingInv, Quiet,
       Live, Exists, Up, Machine
  <1>7. MakingInv'
    BY <1>1, <1>2, <1>3, <1>4, Names DEF TypeOK, MirrorInv, MakingInv, Quiet,
       Live, Exists, Up, Machine
  <1>8. DiskInv'
    BY <1>1, <1>2, <1>3, <1>4, Names DEF TypeOK, MirrorInv, MakingInv,
       DiskInv, Quiet, Live, Exists, Up, Machine
  <1>9. WorkInv'
    BY <1>1, <1>2, <1>3, <1>4, Names DEF TypeOK, MirrorInv, MakingInv,
       WorkInv, Quiet, Live, Exists, Up, Machine
  <1> QED
    BY <1>5, <1>6, <1>7, <1>8, <1>9

\* The agent has stopped: the worktree is next, or the objective is cancelled.
LEMMA StoppingAgent ==
    ASSUME IInv, NEW h \in Handlers, AbandonStopped(h)
    PROVE  IInv'
  <1> USE DEF IInv
  <1>1. Up /\ UNCHANGED <<server, setupRuns, disk, making, odd, crashes>>
    BY DEF AbandonStopped, At
  <1>2. req' \in [Handlers -> Pending]
    BY Handling DEF AbandonStopped, Steps
  <1>3. /\ row \in Row
        /\ snapshot \in Machine
        /\ actor \in Machine
        /\ work \in BOOLEAN
    BY DEF TypeOK
  <1>4. /\ row' \in Row /\ snapshot' \in Machine /\ actor' \in Machine
        /\ work' \in BOOLEAN
        /\ \/ /\ row'.status = row.status /\ snapshot' = snapshot
              /\ actor' = actor /\ work' = work
           \/ /\ Live /\ Exists /\ row'.status \in Terminal
              /\ snapshot'.state = row'.status
              /\ actor'.state \in {"none", row'.status}
        /\ row'.path = row.path
    BY <1>3, Sent DEF AbandonStopped
  <1>5. TypeOK'
    BY <1>1, <1>2, <1>3, <1>4, Names DEF TypeOK, Quiet, Live, Exists, Up
  <1>6. MirrorInv'
    BY <1>1, <1>2, <1>3, <1>4, Names DEF TypeOK, MirrorInv, MakingInv, Quiet,
       Live, Exists, Up
  <1>7. MakingInv'
    BY <1>1, <1>2, <1>3, <1>4, Names DEF TypeOK, MirrorInv, MakingInv, Quiet,
       Live, Exists, Up
  <1>8. DiskInv'
    BY <1>1, <1>2, <1>3, <1>4, Names DEF TypeOK, MirrorInv, MakingInv,
       DiskInv, Quiet, Live, Exists, Up
  <1>9. WorkInv'
    BY <1>1, <1>2, <1>3, <1>4, Names DEF TypeOK, MirrorInv, MakingInv,
       WorkInv, Quiet, Live, Exists, Up
  <1> QED
    BY <1>5, <1>6, <1>7, <1>8, <1>9

\* Deletion halts the actor first.
LEMMA Deleting ==
    ASSUME IInv, NEW h \in Handlers, Delete(h)
    PROVE  IInv'
  <1> USE DEF IInv
  <1>1. /\ Up
        /\ Exists
        /\ UNCHANGED <<server, row, setupRuns, snapshot, disk, making, crashes>>
    BY DEF Delete, At
  <1>2. req' \in [Handlers -> Pending]
    BY Handling DEF Delete, Steps
  <1>3. /\ actor' = NoMachine /\ NoMachine \in Machine
        /\ NoMachine.state = "none" /\ work' = FALSE
    BY DEF Delete, NoMachine, Machine
  <1>4. odd' = odd \cup Early \cup Crossed(h) \cup {"halted"}
        /\ Early \subseteq {"early"} /\ Crossed(h) \subseteq {"crossed"}
    BY DEF Delete, Early, Crossed
  <1>5. TypeOK'
    BY <1>1, <1>2, <1>3, <1>4, Names DEF TypeOK, Quiet, Live, Exists, Up
  <1>6. MirrorInv'
    BY <1>1, <1>2, <1>3, <1>4, Names DEF TypeOK, MirrorInv, MakingInv, Quiet,
       Live, Exists, Up
  <1>7. MakingInv'
    BY <1>1, <1>2, <1>3, <1>4, Names DEF TypeOK, MirrorInv, MakingInv, Quiet,
       Live, Exists, Up
  <1>8. DiskInv'
    BY <1>1, <1>2, <1>3, <1>4, Names DEF TypeOK, MirrorInv, MakingInv,
       DiskInv, Quiet, Live, Exists, Up
  <1>9. WorkInv'
    BY <1>1, <1>2, <1>3, <1>4, Names DEF TypeOK, MirrorInv, MakingInv,
       WorkInv, Quiet, Live, Exists, Up
  <1> QED
    BY <1>5, <1>6, <1>7, <1>8, <1>9

\* The rows go together, or not at all.
LEMMA DeletingRows ==
    ASSUME IInv, NEW h \in Handlers, DeleteRows(h)
    PROVE  IInv'
  <1> USE DEF IInv
  <1>1. UNCHANGED <<server, actor, work, making, odd, crashes>>
    BY DEF DeleteRows
  <1>2. req' \in [Handlers -> Pending]
    BY Handling DEF DeleteRows, Steps
  <1>3. /\ disk' \in Disk
        /\ \/ RowsDeleted /\ (disk'.dir => disk.dir)
           \/ disk.dir /\ UNCHANGED <<row, setupRuns, snapshot>>
    BY Removing DEF DeleteRows, TypeOK
  <1>4. /\ NoRow \in Row
        /\ NoMachine \in Machine
        /\ NoRow.status = "none"
        /\ NoMachine.state = "none"
    BY DEF NoRow, NoMachine, Row, Machine
  <1>5. TypeOK'
    BY <1>1, <1>2, <1>3, <1>4, Names DEF TypeOK, Quiet, Live, Exists, Up,
       RowsDeleted
  <1>6. MirrorInv'
    BY <1>1, <1>2, <1>3, <1>4, Names DEF TypeOK, MirrorInv, MakingInv, Quiet,
       Live, Exists, Up, RowsDeleted
  <1>7. MakingInv'
    BY <1>1, <1>2, <1>3, <1>4, Names DEF TypeOK, MirrorInv, MakingInv, Quiet,
       Live, Exists, Up, RowsDeleted
  <1>8. DiskInv'
    BY <1>1, <1>2, <1>3, <1>4, Names DEF TypeOK, MirrorInv, MakingInv,
       DiskInv, Quiet, Live, Exists, Up, RowsDeleted
  <1>9. WorkInv'
    BY <1>1, <1>2, <1>3, <1>4, Names DEF TypeOK, MirrorInv, MakingInv,
       WorkInv, Quiet, Live, Exists, Up, RowsDeleted
  <1> QED
    BY <1>5, <1>6, <1>7, <1>8, <1>9

\* A release only reads.
LEMMA Releasing ==
    ASSUME IInv, NEW h \in Handlers, Release(h)
    PROVE  IInv'
  <1> USE DEF IInv
  <1>1. /\ UNCHANGED <<server, row, setupRuns, snapshot, actor, work, making,
             crashes>>
        /\ disk' = disk
        /\ odd' = odd \cup Crossed(h) /\ Crossed(h) \subseteq {"crossed"}
    BY DEF Release, NoteCrossed, Crossed
  <1>2. (row.status \in Gated) \in BOOLEAN
    OBVIOUS
  <1>3. req' = [req EXCEPT ![h] = [Idle EXCEPT !.step = "release",
          !.path = row.path, !.gated = (row.status \in Gated)]]
    BY DEF Release
  <1>4. PICK g \in BOOLEAN :
          req' = [req EXCEPT ![h] = [Idle EXCEPT !.step = "release",
          !.path = row.path, !.gated = g]]
    BY <1>2, <1>3, Zenon
  <1>5. Idle \in Pending /\ row.path \in BOOLEAN
    BY DEF Idle, Pending, Steps, TypeOK, Row
  <1>6. [Idle EXCEPT !.step = "release", !.path = row.path,
          !.gated = g] \in Pending
    BY <1>5 DEF Pending, Steps
  <1>7. req' \in [Handlers -> Pending]
    BY <1>4, <1>6 DEF TypeOK
  <1>8. TypeOK'
    BY <1>1, <1>2, <1>3, <1>4, <1>5, <1>6, <1>7, Names DEF TypeOK, Quiet,
       Live, Exists, Up
  <1>9. MirrorInv'
    BY <1>1, <1>2, <1>3, <1>4, <1>5, <1>6, <1>7, Names DEF TypeOK, MirrorInv,
       MakingInv, Quiet, Live, Exists, Up
  <1>10. MakingInv'
    BY <1>1, <1>2, <1>3, <1>4, <1>5, <1>6, <1>7, Names DEF TypeOK, MirrorInv,
       MakingInv, Quiet, Live, Exists, Up
  <1>11. DiskInv'
    BY <1>1, <1>2, <1>3, <1>4, <1>5, <1>6, <1>7, Names DEF TypeOK, MirrorInv,
       MakingInv, DiskInv, Quiet, Live, Exists, Up
  <1>12. WorkInv'
    BY <1>1, <1>2, <1>3, <1>4, <1>5, <1>6, <1>7, Names DEF TypeOK, MirrorInv,
       MakingInv, WorkInv, Quiet, Live, Exists, Up
  <1> QED
    BY <1>8, <1>9, <1>10, <1>11, <1>12

\* A claim is given up only on a directory that is not there.
LEMMA ReadingStrays ==
    ASSUME IInv, NEW h \in Handlers, ReadStrays(h)
    PROVE  IInv'
  <1> USE DEF IInv
  <1>1. UNCHANGED <<server, setupRuns, snapshot, actor, work, disk, making,
          odd, crashes>>
    BY DEF ReadStrays
  <1>2. req' \in [Handlers -> Pending]
    BY Handling DEF ReadStrays, Steps
  <1>3. row' = row \/ (row' = Discarded /\ ~disk.dir)
    BY DEF ReadStrays
  <1>4. /\ row' \in Row
        /\ row'.status = row.status
        /\ (row'.path # row.path => ~disk.dir)
    BY <1>3, Forgetting DEF TypeOK
  <1>5. TypeOK'
    BY <1>1, <1>2, <1>3, <1>4, Names DEF TypeOK, Quiet, Live, Exists, Up
  <1>6. MirrorInv'
    BY <1>1, <1>2, <1>3, <1>4, Names DEF TypeOK, MirrorInv, MakingInv, Quiet,
       Live, Exists, Up
  <1>7. MakingInv'
    BY <1>1, <1>2, <1>3, <1>4, Names DEF TypeOK, MirrorInv, MakingInv, Quiet,
       Live, Exists, Up
  <1>8. DiskInv'
    BY <1>1, <1>2, <1>3, <1>4, Names DEF TypeOK, MirrorInv, MakingInv,
       DiskInv, Quiet, Live, Exists, Up
  <1>9. WorkInv'
    BY <1>1, <1>2, <1>3, <1>4, Names DEF TypeOK, MirrorInv, MakingInv,
       WorkInv, Quiet, Live, Exists, Up
  <1> QED
    BY <1>5, <1>6, <1>7, <1>8, <1>9

\* A claim is given up only once the directory is gone.
LEMMA RemovingStray ==
    ASSUME IInv, NEW h \in Handlers, RemoveStray(h)
    PROVE  IInv'
  <1> USE DEF IInv
  <1>1. UNCHANGED <<server, setupRuns, snapshot, actor, work, making, odd,
          crashes>>
    BY DEF RemoveStray
  <1>2. req' \in [Handlers -> Pending]
    BY Handling DEF RemoveStray, Steps
  <1>3. disk' \in Disk /\ (disk'.dir => disk.dir)
    BY DEF RemoveStray, TypeOK, Disk
  <1>4. row' = row \/ (row' = Discarded /\ ~disk'.dir)
    BY DEF RemoveStray, DirIsGone
  <1>5. /\ row' \in Row
        /\ row'.status = row.status
        /\ (row'.path # row.path => ~disk'.dir)
    BY <1>4, Forgetting DEF TypeOK
  <1>6. TypeOK'
    BY <1>1, <1>2, <1>3, <1>4, <1>5, Names DEF TypeOK, Quiet, Live, Exists, Up
  <1>7. MirrorInv'
    BY <1>1, <1>2, <1>3, <1>4, <1>5, Names DEF TypeOK, MirrorInv, MakingInv,
       Quiet, Live, Exists, Up
  <1>8. MakingInv'
    BY <1>1, <1>2, <1>3, <1>4, <1>5, Names DEF TypeOK, MirrorInv, MakingInv,
       Quiet, Live, Exists, Up
  <1>9. DiskInv'
    BY <1>1, <1>2, <1>3, <1>4, <1>5, Names DEF TypeOK, MirrorInv, MakingInv,
       DiskInv, Quiet, Live, Exists, Up
  <1>10. WorkInv'
    BY <1>1, <1>2, <1>3, <1>4, <1>5, Names DEF TypeOK, MirrorInv, MakingInv,
       WorkInv, Quiet, Live, Exists, Up
  <1> QED
    BY <1>6, <1>7, <1>8, <1>9, <1>10

\* A crash takes the actor, the handlers and the creation under way.
LEMMA Crashing ==
    ASSUME IInv, Crash
    PROVE  IInv'
  <1> USE DEF IInv
  <1>1. /\ server' = "down" /\ actor' = NoMachine /\ work' = FALSE
        /\ making' = (IF making = "unborn" THEN making ELSE "no")
        /\ NoMachine \in Machine /\ NoMachine.state = "none"
    BY DEF Crash, ProcessGone, NoMachine, Machine
  <1>2. /\ req' \in [Handlers -> Pending]
        /\ crashes' \in Nat /\ UNCHANGED <<row, setupRuns, snapshot, odd>>
    BY DEF Crash, ProcessGone, TypeOK, Idle, Pending, Steps
  <1>3. Added \in Disk
    BY DEF Added, Disk
  <1>4. \/ disk' = disk
        \/ disk' = Added /\ making = "adding"
        \/ \E h \in Handlers : disk' \in UnderWay(h)
    BY DEF Crash
  <1>5. /\ disk' \in Disk
        /\ (disk'.dir => disk.dir \/ making = "adding")
    BY <1>3, <1>4, Interrupted DEF TypeOK
  <1>6. TypeOK'
    BY <1>1, <1>2, <1>3, <1>4, <1>5, Names DEF TypeOK, Quiet, Live, Exists, Up
  <1>7. MirrorInv'
    BY <1>1, <1>2, <1>3, <1>4, <1>5, Names DEF TypeOK, MirrorInv, MakingInv,
       Quiet, Live, Exists, Up
  <1>8. MakingInv'
    BY <1>1, <1>2, <1>3, <1>4, <1>5, Names DEF TypeOK, MirrorInv, MakingInv,
       Quiet, Live, Exists, Up
  <1>9. DiskInv'
    BY <1>1, <1>2, <1>3, <1>4, <1>5, Names DEF TypeOK, MirrorInv, MakingInv,
       DiskInv, Quiet, Live, Exists, Up
  <1>10. WorkInv'
    BY <1>1, <1>2, <1>3, <1>4, <1>5, Names DEF TypeOK, MirrorInv, MakingInv,
       WorkInv, Quiet, Live, Exists, Up
  <1> QED
    BY <1>6, <1>7, <1>8, <1>9, <1>10

\* An actor whose rows are gone takes the process with it.
LEMMA Refused ==
    ASSUME IInv, UncaughtTransition
    PROVE  IInv'
  <1> USE DEF IInv
  <1>1. /\ server' = "down" /\ actor' = NoMachine /\ work' = FALSE
        /\ making' = (IF making = "unborn" THEN making ELSE "no")
        /\ NoMachine \in Machine /\ NoMachine.state = "none"
    BY DEF UncaughtTransition, ProcessGone, NoMachine, Machine
  <1>2. /\ req' \in [Handlers -> Pending]
        /\ UNCHANGED <<row, setupRuns, snapshot, odd, crashes>>
    BY DEF UncaughtTransition, ProcessGone, TypeOK, Idle, Pending, Steps
  <1>3. disk' \in Disk /\ (disk'.dir => disk.dir)
    BY Interrupted DEF UncaughtTransition, TypeOK
  <1>4. TypeOK'
    BY <1>1, <1>2, <1>3, Names DEF TypeOK, Quiet, Live, Exists, Up
  <1>5. MirrorInv'
    BY <1>1, <1>2, <1>3, Names DEF TypeOK, MirrorInv, MakingInv, Quiet, Live,
       Exists, Up
  <1>6. MakingInv'
    BY <1>1, <1>2, <1>3, Names DEF TypeOK, MirrorInv, MakingInv, Quiet, Live,
       Exists, Up
  <1>7. DiskInv'
    BY <1>1, <1>2, <1>3, Names DEF TypeOK, MirrorInv, MakingInv, DiskInv,
       Quiet, Live, Exists, Up
  <1>8. WorkInv'
    BY <1>1, <1>2, <1>3, Names DEF TypeOK, MirrorInv, MakingInv, WorkInv,
       Quiet, Live, Exists, Up
  <1> QED
    BY <1>4, <1>5, <1>6, <1>7, <1>8

\* The process starts.
LEMMA Booting ==
    ASSUME IInv, Boot
    PROVE  IInv'
  <1> USE DEF IInv
  <1>1. TypeOK'
    BY Names DEF TypeOK, Quiet, Live, Exists, Up, Boot
  <1>2. MirrorInv'
    BY Names DEF TypeOK, MirrorInv, MakingInv, Quiet, Live, Exists, Up, Boot
  <1>3. MakingInv'
    BY Names DEF TypeOK, MirrorInv, MakingInv, Quiet, Live, Exists, Up, Boot
  <1>4. DiskInv'
    BY Names DEF TypeOK, MirrorInv, MakingInv, DiskInv, Quiet, Live, Exists,
       Up, Boot
  <1>5. WorkInv'
    BY Names DEF TypeOK, MirrorInv, MakingInv, WorkInv, Quiet, Live, Exists,
       Up, Boot
  <1> QED
    BY <1>1, <1>2, <1>3, <1>4, <1>5

\* The sweep cannot delete a row another refers to.
LEMMA FailingSweep ==
    ASSUME IInv, SweepFails
    PROVE  IInv'
  <1> USE DEF IInv
  <1>1. disk' \in Disk /\ (disk'.dir => disk.dir)
    BY Removing DEF SweepFails, TypeOK, Disk
  <1>2. TypeOK'
    BY <1>1, Names DEF TypeOK, Quiet, Live, Exists, Up, SweepFails
  <1>3. MirrorInv'
    BY <1>1, Names DEF TypeOK, MirrorInv, MakingInv, Quiet, Live, Exists, Up,
       SweepFails
  <1>4. MakingInv'
    BY <1>1, Names DEF TypeOK, MirrorInv, MakingInv, Quiet, Live, Exists, Up,
       SweepFails
  <1>5. DiskInv'
    BY <1>1, Names DEF TypeOK, MirrorInv, MakingInv, DiskInv, Quiet, Live,
       Exists, Up, SweepFails
  <1>6. WorkInv'
    BY <1>1, Names DEF TypeOK, MirrorInv, MakingInv, WorkInv, Quiet, Live,
       Exists, Up, SweepFails
  <1> QED
    BY <1>2, <1>3, <1>4, <1>5, <1>6

\* The sweep takes an unfinished creation away.
LEMMA Sweeping ==
    ASSUME IInv, SweepRow
    PROVE  IInv'
  <1> USE DEF IInv
  <1>1. disk' \in Disk /\ (disk'.dir => disk.dir) /\ row' = NoRow
    BY Removing DEF SweepRow, Sweep, TypeOK, Disk
  <1>2. /\ NoRow \in Row
        /\ NoRow.status = "none"
        /\ setupRuns = 0
        /\ snapshot.state = "none"
    BY DEF NoRow, Row, SweepRow, ReferredTo, TypeOK
  <1>3. making = "no" \/ making = "unborn"
    BY DEF SweepRow, MakingInv, Up, TypeOK
  <1>4. TypeOK'
    BY <1>1, <1>2, <1>3, Names DEF TypeOK, Quiet, Live, Exists, Up, SweepRow
  <1>5. MirrorInv'
    BY <1>1, <1>2, <1>3, Names DEF TypeOK, MirrorInv, MakingInv, Quiet, Live,
       Exists, Up, SweepRow
  <1>6. MakingInv'
    BY <1>1, <1>2, <1>3, Names DEF TypeOK, MirrorInv, MakingInv, Quiet, Live,
       Exists, Up, SweepRow
  <1>7. DiskInv'
    BY <1>1, <1>2, <1>3, Names DEF TypeOK, MirrorInv, MakingInv, DiskInv,
       Quiet, Live, Exists, Up, SweepRow
  <1>8. WorkInv'
    BY <1>1, <1>2, <1>3, Names DEF TypeOK, MirrorInv, MakingInv, WorkInv,
       Quiet, Live, Exists, Up, SweepRow
  <1> QED
    BY <1>4, <1>5, <1>6, <1>7, <1>8

\* There is nothing to sweep.
LEMMA SweepingNothing ==
    ASSUME IInv, NothingToSweep
    PROVE  IInv'
  <1> USE DEF IInv
  <1>1. TypeOK'
    BY Names DEF TypeOK, Quiet, Live, Exists, Up, NothingToSweep
  <1>2. MirrorInv'
    BY Names DEF TypeOK, MirrorInv, MakingInv, Quiet, Live, Exists, Up,
       NothingToSweep
  <1>3. MakingInv'
    BY Names DEF TypeOK, MirrorInv, MakingInv, Quiet, Live, Exists, Up,
       NothingToSweep
  <1>4. DiskInv'
    BY Names DEF TypeOK, MirrorInv, MakingInv, DiskInv, Quiet, Live, Exists,
       Up, NothingToSweep
  <1>5. WorkInv'
    BY Names DEF TypeOK, MirrorInv, MakingInv, WorkInv, Quiet, Live, Exists,
       Up, NothingToSweep
  <1> QED
    BY <1>1, <1>2, <1>3, <1>4, <1>5

\* An actor resumes where the snapshot says, or pauses where a turn died.
LEMMA Rehydrating ==
    ASSUME IInv, Rehydrate
    PROVE  IInv'
  <1> USE DEF IInv
  <1>1. /\ server = "rehydrating" /\ server' = "up"
        /\ UNCHANGED <<setupRuns, disk, making, req, odd, crashes>>
    BY DEF Rehydrate
  <1>2. ~Live /\ making \in {"no", "unborn"}
    BY <1>1 DEF MirrorInv, MakingInv, TypeOK, Up
  <1>3. /\ Resumed \in Machine /\ Resumed.state = snapshot.state
        /\ [Resumed EXCEPT !.state = "paused"] \in Machine
        /\ [Resumed EXCEPT !.state = "paused"].state = "paused" /\ row \in Row
    BY Finding, Names DEF Machine, TypeOK
  <1>4. \/ /\ row.status \in Open
                /\ snapshot.state # "none" /\ snapshot.state \in MidTurn
           /\ CommitTransition([Resumed EXCEPT !.state = "paused"], row)
        \/ /\ row.status \in Open
                /\ snapshot.state # "none" /\ snapshot.state \notin MidTurn
           /\ actor' = Resumed /\ UNCHANGED <<row, snapshot, work>>
        \/ /\ row.status \notin Open
                \/ snapshot.state = "none"
           /\ UNCHANGED <<row, snapshot, actor, work>>
    BY <1>3 DEF Rehydrate, PausesAfterCrash
  <1>5. \/ /\ row.status \in Open /\ snapshot.state # "none"
           /\ row' \in Row /\ row'.status = "paused" /\ row'.path = row.path
           /\ snapshot' \in Machine /\ snapshot'.state = "paused"
           /\ actor' \in Machine /\ actor'.state = "paused" /\ work' \in BOOLEAN
        \/ /\ row.status \in Open
                /\ snapshot.state # "none" /\ snapshot.state \notin MidTurn
           /\ actor' \in Machine /\ actor'.state = snapshot.state
                /\ UNCHANGED <<row, snapshot, work>>
        \/ /\ row.status \notin Open
                \/ snapshot.state = "none"
           /\ UNCHANGED <<row, snapshot, actor, work>>
    BY <1>3, <1>4, Transition, Names
  <1>6. /\ row.status \in Open => row.status \in MachineStates \cup {"setup_failed"}
        /\ row.status \in MachineStates \ Terminal => row.status \in Open
    BY DEF Open
  <1>7. TypeOK'
    BY <1>1, <1>2, <1>3, <1>4, <1>5, <1>6, Names DEF TypeOK, Quiet, Live, Exists,
       Up, Machine
  <1>8. MirrorInv'
    BY <1>1, <1>2, <1>3, <1>4, <1>5, <1>6, Names DEF TypeOK, MirrorInv, MakingInv,
       Quiet, Live, Exists, Up, Machine
  <1>9. MakingInv'
    BY <1>1, <1>2, <1>3, <1>4, <1>5, <1>6, Names DEF TypeOK, MirrorInv, MakingInv,
       Quiet, Live, Exists, Up, Machine
  <1>10. DiskInv'
    BY <1>1, <1>2, <1>3, <1>4, <1>5, <1>6, Names DEF TypeOK, MirrorInv, MakingInv,
       DiskInv, Quiet, Live, Exists, Up, Machine
  <1>11. WorkInv'
    BY <1>1, <1>2, <1>3, <1>4, <1>5, <1>6, Names DEF TypeOK, MirrorInv, MakingInv,
       WorkInv, Quiet, Live, Exists, Up, Machine
  <1> QED
    BY <1>7, <1>8, <1>9, <1>10, <1>11

\* Nothing happens.
LEMMA Stuttering ==
    ASSUME IInv, UNCHANGED vars
    PROVE  IInv'
  BY DEF vars, IInv, TypeOK, MirrorInv, MakingInv, DiskInv, WorkInv, Quiet,
         Live, Exists, Up

\* Every step keeps the invariant.
LEMMA StepIInv == IInv /\ [Next]_vars => IInv'
  <1> SUFFICES ASSUME IInv, [Next]_vars PROVE IInv'
    OBVIOUS
  <1>1. CASE InsertRow \/ Creation
    BY <1>1, Inserting, AddingWorktree, RefusingWorktree, RunningSetup,
       ThrowingSetup DEF Creation
  <1>2. CASE Command \/ RefusedCommand \/ WorkReports \/ SetLowEnergy
    BY <1>2, Commanding, Refusing, Reporting, SettingMode
  <1>3. ASSUME NEW h \in Handlers, Request(h) PROVE IInv'
    BY <1>3, IntegratingAtOnce, IntegratingCommit, IntegratingDiscard,
       Abandoning, Deleting, Releasing DEF Request
  <1>4. ASSUME NEW h \in Handlers, Handle(h) PROVE IInv'
    BY <1>4, Squashing, Committing, RemovingSquashed, Discarding,
       StoppingAgent, AbandoningWorktree, DeletingRows, ReadingStrays,
       RemovingStray DEF Handle
  <1>5. CASE Crash \/ UncaughtTransition
    BY <1>5, Crashing, Refused
  <1>6. CASE BootStep
    BY <1>6, Booting, Sweeping, FailingSweep, SweepingNothing, Rehydrating
       DEF BootStep
  <1>7. CASE UNCHANGED vars
    BY <1>7, Stuttering
  <1> QED
    BY <1>1, <1>2, <1>3, <1>4, <1>5, <1>6, <1>7 DEF Next

\* The invariant holds throughout.
LEMMA Inductive == Spec => []IInv
  BY InitIInv, StepIInv, PTL DEF Spec

-----------------------------------------------------------------------------
(* The theorems.                                                           *)

\* The objective's row, snapshot, actor and worktree are well typed, whatever
\* is under way and whenever the process dies.
THEOREM LifecycleTypeCorrect == Spec => []TypeOK
  BY Inductive, PTL DEF IInv

\* Row, snapshot and actor name the same state, with any number of requests
\* under way and any number of crashes (store.ts:38-52).
THEOREM StatusTrue == Spec => []StatusMirrorsMachine
  <1>1. IInv => StatusMirrorsMachine
    BY Names DEF IInv, TypeOK, Machine, MirrorInv, StatusMirrorsMachine, Quiet,
                 Live, Exists
  <1> QED
    BY <1>1, Inductive, PTL

\* A row that names no worktree has none on disk, whichever teardowns, repairs
\* and crashes met on the way (git-manager.ts:96-114).
THEOREM NullTrue == Spec => []NullMeansGone
  <1>1. IInv => NullMeansGone
    BY DEF IInv, DiskInv, NullMeansGone, Quiet
  <1> QED
    BY <1>1, Inductive, PTL

\* No restart leaves a task waiting for a turn that died with the process
\* (rehydrate.ts:23-27).
THEOREM NobodyWaits == Spec => []NobodyWaitsAfterCrash
  <1>1. IInv => NobodyWaitsAfterCrash
    BY DEF IInv, WorkInv, NobodyWaitsAfterCrash
  <1> QED
    BY <1>1, Inductive, PTL

-----------------------------------------------------------------------------
(* What an integration leaves on the branch.                               *)

\* No command came too early, and no request while another was under way.
Alone == {"early", "crossed"} \cap odd = {}
Worked == "worked" \in odd
OnBranch == disk.tip \in {"work", "squash"}

\* The steps at which a handler is about to take the worktree apart; at some
\* of them it has committed itself to the path it read.
Tearing == {"squash", "commit", "remove", "discard", "stopping", "abandon",
            "delete"}
Active(h) == req[h].step # "none"
Holds(h) == \/ req[h].step \in {"squash", "commit", "remove", "discard",
                                "abandon"}
            \/ req[h].step \in {"stopping", "delete"} /\ req[h].path

\* What the row claims, and how far creation is when a handler is under way.
ClaimInv ==
    /\ ~Exists => ~row.branch
    /\ making \in {"unborn", "adding"} => ~row.path
    /\ \A h \in Handlers :
         /\ req[h].step \in {"release", "rm"} => making \notin {"unborn", "adding"}
         /\ req[h].step = "rm" => ~disk.registered
         /\ Quiet /\ req[h].step \in Tearing => making = "no"

\* The path a handler holds is still the row's.
HoldInv ==
    Alone =>
        /\ \A g, h \in Handlers : Active(g) /\ Active(h) => g = h
        /\ \A h \in Handlers : Holds(h) /\ Exists => row.path

\* Where the work is: on the branch, or in the index of a squash that has not
\* been committed; once the worktree is let go, on the branch.
WhereWorkIs ==
    /\ disk.registered => OnBranch \/ disk.staged
    /\ \A h \in Handlers : req[h].step = "commit" => OnBranch \/ disk.staged
    /\ \A h \in Handlers : req[h].step = "remove" => OnBranch
    /\ row.branch /\ ~row.path => OnBranch

LandInv ==
    /\ Quiet /\ (making # "no" \/ row.status = "creating") => ~Worked
    /\ Alone /\ Worked => WhereWorkIs

TeardownInv == ClaimInv /\ HoldInv /\ LandInv

\* What most steps do to all this: nothing.
Bystanding ==
    /\ disk' = disk /\ req' = req /\ making' \in {making, "no"}
    /\ row'.path = row.path /\ row'.branch = row.branch
    /\ row'.status = "none" <=> row.status = "none"
    /\ row'.status = "creating" => row.status = "creating"
    /\ odd \subseteq odd' /\ (Worked' => Worked)

\* Such a step keeps the three.
LEMMA Bystanders ==
    ASSUME IInv, TeardownInv, Bystanding
    PROVE  TeardownInv'
  <1> USE DEF Bystanding, TeardownInv
  <1>1. /\ Exists' <=> Exists
        /\ Quiet' => Quiet
        /\ Alone' => Alone
    BY DEF Exists, Quiet, Alone
  <1>2. \A h \in Handlers : /\ req'[h] = req[h]
                            /\ Active(h)' <=> Active(h)
                            /\ Holds(h)' <=> Holds(h)
    BY DEF Active, Holds
  <1>3. ClaimInv'
    BY <1>1, <1>2 DEF ClaimInv
  <1>4. HoldInv'
    BY <1>1, <1>2 DEF HoldInv
  <1>5. LandInv'
    BY <1>1, <1>2 DEF LandInv, WhereWorkIs, OnBranch
  <1> QED
    BY <1>3, <1>4, <1>5

\* Setup commands, the user's commands and a boot leave worktree and handlers
\* alone.
LEMMA Watching ==
    ASSUME IInv, TeardownInv,
           \/ SetupCommandRan \/ SetupThrows
           \/ Command \/ RefusedCommand \/ SetLowEnergy
           \/ \E h \in Handlers : IntegrateAtOnce(h)
           \/ Boot \/ NothingToSweep \/ Rehydrate
           \/ UNCHANGED vars
    PROVE  TeardownInv'
  <1> USE DEF IInv
  <1>1. row \in Row /\ "done" \in MachineStates \ {"none", "creating"}
    BY Names DEF TypeOK
  <1>2. CASE SetupCommandRan
    <2>1. row' \in {row, [row EXCEPT !.status = "idle"],
                    [row EXCEPT !.status = "setup_failed"]}
      BY <1>2 DEF SetupCommandRan, SetupOutcomes
    <2> QED
      BY <1>1, <1>2, <2>1, Bystanders DEF SetupCommandRan, Bystanding, Exists,
         Row, Worked
  <1>3. CASE SetupThrows
    BY <1>3, Bystanders DEF SetupThrows, Bystanding, Worked
  <1>4. CASE Command
    <2>1. PICK to \in Targets(Ensured) :
             CommitTransition(Moved(Ensured, to), row)
      BY <1>4 DEF Command
    <2>2. to \in MachineStates \ {"none", "creating"}
      BY Names DEF Targets
    <2>3. /\ Moved(Ensured, to) \in Machine
          /\ Moved(Ensured, to).state = to
      BY <2>2, Finding, Moving
    <2>4. /\ row'.status = to /\ row'.path = row.path
          /\ row'.branch = row.branch
      BY <1>1, <2>1, <2>2, <2>3, Transition
    <2> QED
      BY <1>4, <2>2, <2>4, Bystanders DEF Command, NoteEarly, Early, Bystanding,
         Exists, Worked
  <1>5. CASE RefusedCommand
    <2>1. /\ Exists /\ row'.path = row.path /\ row'.branch = row.branch
          /\ row' = row \/ row'.status = "idle"
      BY <1>5, Ensuring DEF RefusedCommand
    <2> QED
      BY <1>5, <2>1, Bystanders DEF RefusedCommand, NoteEarly, Early,
         Bystanding, Exists, Worked
  <1>6. CASE SetLowEnergy
    <2>1. /\ row'.path = row.path /\ row'.branch = row.branch
          /\ row'.status = row.status
      BY <1>1, <1>6 DEF SetLowEnergy, Row
    <2> QED
      BY <1>6, <2>1, Bystanders DEF SetLowEnergy, Bystanding, Worked
  <1>7. ASSUME NEW h \in Handlers, IntegrateAtOnce(h) PROVE TeardownInv'
    <2>1. /\ Exists
          /\ CommitTransition([Ensured EXCEPT !.state = "done"], row)
      BY <1>7 DEF IntegrateAtOnce, MayBegin, SendIntegrate
    <2>2. /\ [Ensured EXCEPT !.state = "done"] \in Machine
          /\ [Ensured EXCEPT !.state = "done"].state = "done"
      BY <1>1, Finding DEF Machine
    <2>3. /\ row'.status = "done" /\ row'.path = row.path
          /\ row'.branch = row.branch
      BY <1>1, <2>1, <2>2, Transition
    <2> QED
      BY <1>7, <2>1, <2>3, Bystanders DEF IntegrateAtOnce, Bystanding, Exists,
         Worked
  <1>8. CASE Boot \/ NothingToSweep
    BY <1>8, Bystanders DEF Boot, NothingToSweep, Bystanding, Worked
  <1>9. CASE Rehydrate
    <2>1. CASE UNCHANGED row
      BY <1>9, <2>1, Bystanders DEF Rehydrate, Bystanding, Worked
    <2>2. CASE CommitTransition([Resumed EXCEPT !.state = "paused"], row)
      <3>1. /\ [Resumed EXCEPT !.state = "paused"] \in Machine
            /\ [Resumed EXCEPT !.state = "paused"].state = "paused"
        BY Names, Finding DEF Machine
      <3>2. /\ row'.status = "paused" /\ row'.path = row.path
            /\ row'.branch = row.branch
        BY <1>1, <2>2, <3>1, Transition
      <3>3. Exists \/ row' = row
        BY <1>9, Names DEF Rehydrate, Open, Exists
      <3> QED
        BY <1>9, <3>2, <3>3, Bystanders DEF Rehydrate, Bystanding, Exists,
           Worked
    <2> QED
      BY <1>9, <2>1, <2>2 DEF Rehydrate
  <1>10. CASE UNCHANGED vars
    BY <1>10, Bystanders DEF vars, Bystanding, Worked
  <1> QED
    BY <1>2, <1>3, <1>4, <1>5, <1>6, <1>7, <1>8, <1>9, <1>10

\* Creation makes the claim and the worktree together, before there is work.
LEMMA Creating ==
    ASSUME IInv, TeardownInv, InsertRow \/ WorktreeAdded \/ WorktreeRefused
    PROVE  TeardownInv'
  <1> USE DEF TeardownInv
  <1>1. /\ making \in {"unborn", "adding"} /\ making' \in {"adding", "setup", "no"}
        /\ UNCHANGED <<req, odd>>
        /\ disk'.registered => disk.registered \/ making' # "adding"
    BY DEF InsertRow, WorktreeAdded, WorktreeRefused, AfterAdding
  <1>2. \A h \in Handlers : Quiet => ~Holds(h) /\ req[h].step \notin Tearing
    BY <1>1 DEF ClaimInv, Holds, Tearing
  <1>3. \A h \in Handlers : req[h].step \notin {"release", "rm"}
    BY <1>1 DEF ClaimInv
  <1>4. /\ ~Exists' => ~row'.branch
        /\ making' = "adding" => ~row'.path
        /\ row \in Row
    <2>1. row \in Row
      BY DEF IInv, TypeOK
    <2>2. CASE InsertRow
      BY <2>1, <2>2 DEF InsertRow, NoRow, Exists
    <2>3. CASE WorktreeAdded
      <3>1. CASE Exists
        BY <2>1, <2>3, <3>1 DEF WorktreeAdded, AfterAdding, Exists, Row
      <3>2. CASE ~Exists
        BY <2>1, <2>3, <3>2 DEF WorktreeAdded, AfterAdding, Exists, ClaimInv
      <3> QED
        BY <3>1, <3>2
    <2>4. CASE WorktreeRefused
      <3>1. (row' = row \/ row' = NoRow) /\ making' = "no"
        BY <2>4 DEF WorktreeRefused
      <3> QED
        BY <2>1, <3>1 DEF ClaimInv, Exists, NoRow
    <2> QED
      BY <2>1, <2>2, <2>3, <2>4
  <1>5. ClaimInv'
    BY <1>1, <1>2, <1>3, <1>4 DEF ClaimInv, Quiet, Tearing
  <1>6. HoldInv'
    BY <1>1, <1>2 DEF HoldInv, Alone, Quiet, Holds, Active
  <1>7. LandInv'
    BY <1>1 DEF LandInv, Alone, Quiet, Worked
  <1> QED
    BY <1>5, <1>6, <1>7

\* Work that is reported is on the branch.
LEMMA Landing ==
    ASSUME IInv, TeardownInv, WorkReports
    PROVE  TeardownInv'
  <1> USE DEF TeardownInv
  <1>1. PICK to \in MachineStates : CommitTransition(Moved(actor, to), row)
    BY DEF WorkReports
  <1>2. /\ Moved(actor, to) \in Machine /\ Moved(actor, to).state = to
        /\ row \in Row /\ to \notin {"none", "creating"}
    BY <1>1, Names, Moving DEF IInv, TypeOK
  <1>3. /\ row'.status = to /\ row'.path = row.path /\ row'.branch = row.branch
    BY <1>1, <1>2, Transition
  <1>4. /\ Up /\ Live /\ Exists /\ UNCHANGED <<making, req>>
        /\ Alone' <=> Alone
        /\ Quiet' <=> Quiet
        /\ \/ disk' = disk /\ odd' = odd
           \/ disk' = [disk EXCEPT !.tip = "work"]
    BY DEF WorkReports, Alone, Quiet
  <1>5. /\ disk'.registered = disk.registered /\ disk'.staged = disk.staged
        /\ \/ OnBranch'
           \/ (Worked' => Worked) /\ (OnBranch => OnBranch')
    <2>1. disk \in Disk
      BY DEF IInv, TypeOK
    <2>2. CASE disk' = disk /\ odd' = odd
      BY <2>2 DEF OnBranch, Worked
    <2>3. CASE disk' = [disk EXCEPT !.tip = "work"]
      BY <2>1, <2>3 DEF OnBranch, Disk
    <2> QED
      BY <1>4, <2>2, <2>3
  <1>6. ClaimInv'
    BY <1>2, <1>3, <1>4, <1>5 DEF ClaimInv, Exists
  <1>7. HoldInv'
    BY <1>2, <1>3, <1>4 DEF HoldInv, Exists, Holds, Active
  <1>8. LandInv'
    <2>1. Quiet => making = "no"
      BY <1>4 DEF IInv, MakingInv
    <2>2. Alone' /\ Worked' => WhereWorkIs'
      BY <1>3, <1>4, <1>5 DEF LandInv, WhereWorkIs
    <2> QED
      BY <1>2, <1>3, <1>4, <2>1, <2>2 DEF LandInv
  <1> QED
    BY <1>6, <1>7, <1>8

\* What is swept away was never worked on.
LEMMA SweepingAway ==
    ASSUME IInv, TeardownInv, SweepRow \/ SweepFails
    PROVE  TeardownInv'
  <1> USE DEF TeardownInv
  <1>1. /\ row.status = "creating" /\ UNCHANGED <<making, req, odd>>
        /\ disk'.registered => disk.registered
        /\ row' \in {NoRow, row}
    BY DEF SweepRow, SweepFails, Sweep, RemovalSucceeds, RemovalFails, Removed,
           Stranded, DropBranch, IInv, TypeOK, Disk
  <1>2. /\ ~NoRow.path /\ ~NoRow.branch /\ NoRow.status = "none"
    BY DEF NoRow
  <1>3. ClaimInv'
    BY <1>1, <1>2 DEF ClaimInv, Exists, Quiet
  <1>4. HoldInv'
    BY <1>1, <1>2 DEF HoldInv, Exists, Holds, Active, Alone
  <1>5. LandInv'
    BY <1>1 DEF LandInv, Quiet, Alone, Worked
  <1> QED
    BY <1>3, <1>4, <1>5

\* A request that begins has read the claim, and knows when it is not alone.
LEMMA Beginning ==
    ASSUME IInv, TeardownInv, NEW h \in Handlers, NEW r,
           ~Active(h), req' = [req EXCEPT ![h] = r],
           disk' = disk, making' = making, Exists, Exists',
           row'.path = row.path, row'.branch = row.branch,
           row'.status = "creating" => row.status = "creating",
           odd \cup Crossed(h) \subseteq odd', Worked' => Worked,
           r.step \in {"squash", "discard", "stopping", "delete", "release"},
           r.step \in Tearing /\ Quiet' => making = "no",
           r.path => row.path,
           r.step \in {"squash", "discard", "release"} => row.path
    PROVE  TeardownInv'
  <1> USE DEF TeardownInv
  <1>1. /\ \A g \in Handlers \ {h} : req'[g] = req[g]
        /\ req'[h] = r
    BY DEF IInv, TypeOK
  <1>2. (Alone' => Alone) /\ (Quiet' => Quiet)
    BY DEF Alone, Quiet
  <1>3. ASSUME Alone', NEW g \in Handlers, g # h PROVE ~Active(g)
    BY <1>3 DEF Alone, Crossed, Active
  <1>4. ClaimInv'
    BY <1>1, <1>2 DEF ClaimInv, Tearing
  <1>5. HoldInv'
    BY <1>1, <1>3 DEF HoldInv, Active, Holds
  <1>6. LandInv'
    <2>1. Alone' /\ Worked' => WhereWorkIs'
      BY <1>1, <1>2 DEF LandInv, WhereWorkIs, OnBranch
    <2> QED
      BY <1>2, <2>1 DEF LandInv
  <1> QED
    BY <1>4, <1>5, <1>6

\* The five requests that go on past an await.
LEMMA Requesting ==
    ASSUME IInv, TeardownInv, NEW h \in Handlers,
           IntegrateCommit(h) \/ IntegrateDiscard(h) \/ Abandon(h) \/ Delete(h)
             \/ Release(h)
    PROVE  TeardownInv'
  <1> DEFINE Reading(step) == [Idle EXCEPT !.step = step, !.path = row.path,
                                           !.branch = row.branch]
  <1>1. row \in Row /\ ~Active(h) /\ Exists /\ disk' = disk /\ making' = making
    BY DEF IInv, TypeOK, IntegrateCommit, IntegrateDiscard, Abandon, Delete,
           Release, MayBegin, At, Active
  <1>2. \A step \in Steps : /\ Reading(step).step = step
                            /\ Reading(step).path = row.path
    BY DEF Idle
  <1>3. odd \cup Crossed(h) \subseteq odd' /\ (Worked' => Worked)
    BY DEF IntegrateCommit, IntegrateDiscard, Abandon, Delete, Release,
           NoteCrossed, Crossed, Early, Worked
  <1>4. /\ Exists' /\ row'.path = row.path /\ row'.branch = row.branch
        /\ row'.status = "creating" => row.status = "creating"
    <2>1. CASE EnsureOnly
      <3>1. /\ row'.path = row.path /\ row'.branch = row.branch
            /\ row' = row \/ row'.status = "idle"
        BY <1>1, <2>1, Ensuring DEF IInv
      <3> QED
        BY <1>1, <3>1 DEF Exists
    <2>2. CASE row' = row
      BY <1>1, <2>2 DEF Exists
    <2> QED
      BY <2>1, <2>2 DEF IntegrateCommit, IntegrateDiscard, Abandon, Delete,
         Release
  <1>5. ASSUME NEW step \in {"squash", "discard"},
               MayBegin(h), row.path, EnsureOnly, Begin(h, step)
        PROVE  TeardownInv'
    <2>1. Quiet' => making = "no"
      <3>1. Ensured.state = "integrating"
        BY <1>5 DEF MayBegin
      <3>2. Live \/ snapshot.state # "none"
        BY <3>1, Finding DEF IInv
      <3> QED
        BY <1>3, <3>2 DEF IInv, MakingInv, Quiet
    <2>2. req' = [req EXCEPT ![h] = Reading(step)]
      BY <1>5 DEF Begin
    <2> HIDE DEF Reading
    <2> QED
      BY <1>1, <1>2, <1>3, <1>4, <1>5, <2>1, <2>2, Beginning DEF Steps
  <1>6. ASSUME NEW step \in {"stopping", "delete"},
               Begin(h, step), Early \subseteq odd'
        PROVE  TeardownInv'
    <2>1. Quiet' => making = "no"
      BY <1>6 DEF Early, Quiet
    <2>2. req' = [req EXCEPT ![h] = Reading(step)]
      BY <1>6 DEF Begin
    <2> HIDE DEF Reading
    <2> QED
      BY <1>1, <1>2, <1>3, <1>4, <1>6, <2>1, <2>2, Beginning DEF Steps
  <1>7. CASE Release(h)
    <2> DEFINE gate == row.status \in Gated
               r == [Idle EXCEPT !.step = "release", !.path = row.path,
                                 !.gated = gate]
    <2>1. row.path /\ req' = [req EXCEPT ![h] = r]
      BY <1>7 DEF Release
    <2> HIDE DEF gate
    <2>2. r.step = "release" /\ (r.path => row.path)
      BY DEF Idle
    <2> HIDE DEF r
    <2> QED
      BY <1>1, <1>3, <1>4, <2>1, <2>2, Beginning DEF Tearing
  <1>8. CASE IntegrateCommit(h)
    BY <1>5, <1>8 DEF IntegrateCommit
  <1>9. CASE IntegrateDiscard(h)
    BY <1>5, <1>9 DEF IntegrateDiscard
  <1>10. CASE Abandon(h)
    BY <1>6, <1>10 DEF Abandon
  <1>11. CASE Delete(h)
    BY <1>6, <1>11 DEF Delete
  <1> QED
    BY <1>7, <1>8, <1>9, <1>10, <1>11

\* A handler that goes on, or ends, has the worktree to itself; what it does
\* to the claim and to the branch has to fit the step it is at.
LEMMA GoingOn ==
    ASSUME IInv, TeardownInv, NEW h \in Handlers, NEW r,
           Active(h), req' = [req EXCEPT ![h] = r],
           making' = making, odd' = odd,
           Exists' => Exists, row'.path => row.path,
           ~Exists' => ~row'.branch,
           row'.status = "creating" => row.status = "creating",
           disk'.registered => disk.registered,
           r.step \in Tearing => req[h].step \in Tearing,
           r.step # "release",
           r.step = "rm" => req[h].step = "release" /\ ~disk'.registered,
           r.step # "none" => row'.path = row.path,
           Holds(h)' => Holds(h),
           Alone /\ Worked => /\ disk'.registered => OnBranch' \/ disk'.staged
                              /\ r.step = "commit" => OnBranch' \/ disk'.staged
                              /\ r.step = "remove" => OnBranch'
                              /\ row'.branch /\ ~row'.path => OnBranch'
    PROVE  TeardownInv'
  <1> USE DEF TeardownInv
  <1>1. /\ \A g \in Handlers \ {h} : req'[g] = req[g]
        /\ req'[h] = r
    BY DEF IInv, TypeOK
  <1>2. (Alone' <=> Alone) /\ (Quiet' <=> Quiet) /\ (Worked' <=> Worked)
    BY DEF Alone, Quiet, Worked
  <1>3. ASSUME Alone, NEW g \in Handlers, g # h PROVE ~Active(g)
    BY <1>3 DEF HoldInv
  <1>4. ClaimInv'
    BY <1>1, <1>2 DEF ClaimInv
  <1>5. HoldInv'
    <2>1. ASSUME Alone, NEW g \in Handlers, Holds(g)', Exists'
          PROVE  row'.path
      <3>1. g = h
        BY <1>1, <1>3, <2>1 DEF Active, Holds
      <3>2. r.step # "none"
        BY <1>1, <2>1, <3>1 DEF Holds
      <3> QED
        BY <2>1, <3>1, <3>2 DEF HoldInv
    <2>2. ASSUME Alone, NEW f \in Handlers, NEW g \in Handlers,
                 Active(f)', Active(g)'
          PROVE  f = g
      BY <1>1, <1>3, <2>2 DEF Active
    <2> QED
      BY <1>2, <2>1, <2>2 DEF HoldInv
  <1>6. LandInv'
    <2>1. ASSUME Alone, Worked PROVE WhereWorkIs'
      BY <1>1, <1>3, <2>1 DEF WhereWorkIs, Active
    <2> QED
      BY <1>2, <2>1 DEF LandInv
  <1> QED
    BY <1>4, <1>5, <1>6

\* The end of an integration or an abandonment: the claim as it was left, and
\* a status the machine gave it or the old one.
LEMMA SentClaim ==
    ASSUME IInv, NEW r \in Row, r.status = row.status,
           SendIntegrate(actor, r) \/ SendCancel(r)
    PROVE  /\ row'.path = r.path /\ row'.branch = r.branch
           /\ Exists' <=> Exists
           /\ row'.status = "creating" => row.status = "creating"
  <1>1. /\ row'.path = r.path /\ row'.branch = r.branch
        /\ row' = r \/ (Exists /\ row'.status \in Terminal)
    BY Sent
  <1> QED
    BY <1>1 DEF Exists, Terminal

\* What removing does to the branch, which it may take along.
LEMMA RemovalOnDisk ==
    ASSUME IInv, NEW drop \in BOOLEAN
    PROVE  /\ RemovalSucceeds(drop) => ~disk'.registered
           /\ RemovalFails(drop) => disk.dir /\ (~disk'.registered \/ disk' = disk)
           /\ RemovalSucceeds(FALSE) \/ RemovalFails(FALSE)
                => disk'.tip = disk.tip
  BY DEF IInv, TypeOK, Disk, Removed, Stranded, DropBranch, RemovalSucceeds,
         RemovalFails

\* A handler that held the path and forgets branch and path, or changes
\* nothing, leaves no branch behind that lost its work.
LEMMA TakingBranch ==
    ASSUME IInv, TeardownInv, NEW h \in Handlers, Holds(h), Up,
           Ends(h), making' = making, odd' = odd,
           \/ RemovalSucceeds(TRUE) /\ ~row'.branch /\ (row'.path => row.path)
                /\ (Exists' => Exists)
                /\ (row'.status = "creating" => row.status = "creating")
           \/ RemovalFails(TRUE) /\ row' = row
    PROVE  TeardownInv'
  <1>1. Idle.step = "none" /\ Active(h) /\ ~Holds(h)'
    BY DEF Idle, Active, Holds, Ends, IInv, TypeOK
  <1>2. CASE RemovalSucceeds(TRUE) /\ ~row'.branch /\ (row'.path => row.path)
             /\ (Exists' => Exists)
             /\ (row'.status = "creating" => row.status = "creating")
    BY <1>1, <1>2, RemovalOnDisk, GoingOn DEF Ends, Tearing
  <1>3. CASE RemovalFails(TRUE) /\ row' = row
    <2>1. disk'.registered => disk' = disk
      BY <1>3, RemovalOnDisk
    <2>2. Alone /\ row.branch => row.path
      BY DEF TeardownInv, HoldInv, ClaimInv
    <2>3. Alone /\ Worked =>
            /\ disk'.registered => OnBranch' \/ disk'.staged
            /\ row'.branch /\ ~row'.path => OnBranch'
      BY <1>3, <2>1, <2>2 DEF TeardownInv, LandInv, WhereWorkIs, OnBranch
    <2>4. ~Exists' => ~row'.branch
      BY <1>3 DEF TeardownInv, ClaimInv, Exists
    <2> QED
      BY <1>1, <1>3, <2>1, <2>3, <2>4, GoingOn DEF Ends, Tearing, Exists
  <1> QED
    BY <1>2, <1>3

\* The squash: the work is in the index between its two halves.
LEMMA SquashHalves ==
    ASSUME IInv, TeardownInv, NEW h \in Handlers,
           SquashSteps(h) \/ CommitSquash(h)
    PROVE  TeardownInv'
  <1> DEFINE To(step) == [req[h] EXCEPT !.step = step]
  <1>1. /\ Active(h) /\ Holds(h) /\ req[h].step \in {"squash", "commit"}
        /\ UNCHANGED <<row, making, odd>>
        /\ disk \in Disk /\ disk'.registered = disk.registered
    BY DEF SquashSteps, CommitSquash, At, Active, Holds, IInv, TypeOK, Disk
  <1>2. /\ ~Exists' => ~row'.branch
        /\ row'.status = "creating" => row.status = "creating"
        /\ Exists' => Exists
    BY <1>1 DEF TeardownInv, ClaimInv, Exists
  <1>3. Alone /\ row.branch => row.path
    BY <1>1 DEF TeardownInv, HoldInv, ClaimInv
  <1>4. ASSUME NEW step \in {"commit", "remove"}, GoTo(h, step),
               Alone /\ Worked => /\ disk.registered => OnBranch' \/ disk'.staged
                                  /\ step = "commit" => OnBranch' \/ disk'.staged
                                  /\ step = "remove" => OnBranch'
        PROVE  TeardownInv'
    <2>1. To(step).step = step /\ req' = [req EXCEPT ![h] = To(step)]
      BY <1>4 DEF GoTo, IInv, TypeOK, Pending
    <2> HIDE DEF To
    <2>2. To(step).step \in Tearing /\ req[h].step \in Tearing
      BY <1>1, <2>1 DEF Tearing
    <2> QED
      BY <1>1, <1>2, <1>3, <1>4, <2>1, <2>2, GoingOn
  <1>5. CASE Ends(h) /\ UNCHANGED disk
    <2>1. Idle.step = "none" /\ ~Holds(h)'
      BY <1>5 DEF Idle, Holds, Ends, IInv, TypeOK
    <2>2. Alone /\ Worked => (disk.registered => OnBranch \/ disk.staged)
      BY DEF TeardownInv, LandInv, WhereWorkIs
    <2> QED
      BY <1>1, <1>2, <1>3, <1>5, <2>1, <2>2, GoingOn DEF Ends, Tearing, OnBranch
  <1>6. CASE /\ req[h].step = "squash" /\ GoTo(h, "commit") /\ disk.registered
             /\ disk' = [disk EXCEPT !.staged = @ \/ disk.tip # "base",
                                     !.tip = "base"]
    <2>1. Alone /\ Worked => disk'.staged
      BY <1>1, <1>6 DEF TeardownInv, LandInv, WhereWorkIs, OnBranch, Disk
    <2> QED
      BY <1>4, <1>6, <2>1
  <1>7. CASE /\ req[h].step = "commit" /\ GoTo(h, "remove")
             /\ disk' = IF disk.staged
                          THEN [disk EXCEPT !.tip = "squash", !.staged = FALSE]
                          ELSE disk
    <2>1. Alone /\ Worked => OnBranch'
      BY <1>1, <1>7 DEF TeardownInv, LandInv, WhereWorkIs, OnBranch, Disk
    <2> QED
      BY <1>4, <1>7, <2>1
  <1> QED
    BY <1>5, <1>6, <1>7 DEF SquashSteps, CommitSquash, At

\* The squashed worktree goes; the branch stays, with the work.
LEMMA LettingGo ==
    ASSUME IInv, TeardownInv, NEW h \in Handlers, RemoveSquashed(h)
    PROVE  TeardownInv'
  <1>1. /\ req[h].step = "remove" /\ Active(h) /\ Ends(h)
        /\ UNCHANGED <<making, odd>> /\ row \in Row
        /\ Idle.step = "none" /\ ~Holds(h)'
    BY DEF RemoveSquashed, At, Active, Ends, Idle, Holds, IInv, TypeOK
  <1>2. /\ disk'.tip = disk.tip
        /\ ~disk'.registered \/ disk' = disk
    BY RemovalOnDisk DEF RemoveSquashed
  <1>3. /\ row'.path => row.path
        /\ ~Exists' => ~row'.branch
        /\ row'.status = "creating" => row.status = "creating"
        /\ Exists' => Exists
    <2>1. CASE SendIntegrate(actor, Unlinked)
      <3>1. /\ row'.path = Unlinked.path /\ row'.branch = row.branch
            /\ Exists' <=> Exists
            /\ row'.status = "creating" => row.status = "creating"
        BY <2>1, Forgetting, SentClaim DEF IInv
      <3> QED
        BY <3>1, Forgetting DEF IInv, TeardownInv, ClaimInv
    <2>2. CASE row' = row
      BY <2>2 DEF TeardownInv, ClaimInv, Exists
    <2> QED
      BY <2>1, <2>2 DEF RemoveSquashed
  <1>4. Alone /\ Worked => OnBranch'
    BY <1>1, <1>2 DEF TeardownInv, LandInv, WhereWorkIs, OnBranch
  <1> QED
    BY <1>1, <1>2, <1>3, <1>4, GoingOn DEF Ends, Tearing

\* A discard, an abandonment and a deletion take the branch from the row too.
LEMMA Discards ==
    ASSUME IInv, TeardownInv, NEW h \in Handlers,
           DiscardWorktree(h) \/ AbandonWorktree(h)
    PROVE  TeardownInv'
  <1>1. /\ Holds(h) /\ Up /\ Ends(h) /\ UNCHANGED <<making, odd>>
    BY DEF DiscardWorktree, AbandonWorktree, At, Holds
  <1>2. CASE RemovalSucceeds(TRUE)
             /\ (SendIntegrate(actor, Discarded) \/ SendCancel(Discarded))
    <2>1. /\ row'.path = Discarded.path /\ row'.branch = Discarded.branch
          /\ Exists' <=> Exists
          /\ row'.status = "creating" => row.status = "creating"
      BY <1>2, Forgetting, SentClaim DEF IInv
    <2>2. ~row'.branch /\ (row'.path => row.path)
      BY <2>1, Forgetting DEF IInv, TeardownInv, ClaimInv
    <2> QED
      BY <1>1, <1>2, <2>1, <2>2, TakingBranch
  <1>3. CASE RemovalFails(TRUE) /\ UNCHANGED row
    BY <1>1, <1>3, TakingBranch
  <1> QED
    BY <1>2, <1>3 DEF DiscardWorktree, AbandonWorktree

\* A deletion takes the row, or fails and leaves it.
LEMMA Deletes ==
    ASSUME IInv, TeardownInv, NEW h \in Handlers, DeleteRows(h)
    PROVE  TeardownInv'
  <1>1. /\ req[h].step = "delete" /\ Active(h) /\ Up /\ Ends(h)
        /\ UNCHANGED <<making, odd>>
        /\ Idle.step = "none" /\ ~Holds(h)'
        /\ ~NoRow.path /\ ~NoRow.branch /\ NoRow.status = "none"
    BY DEF DeleteRows, At, Active, Ends, Idle, Holds, NoRow, IInv, TypeOK
  <1>2. CASE /\ req[h].path
             /\ \/ RowsDeleted /\ RemovalSucceeds(TRUE)
                \/ row' = row /\ RemovalFails(TRUE)
    <2>1. Holds(h)
      BY <1>1, <1>2 DEF Holds
    <2> QED
      BY <1>1, <1>2, <2>1, TakingBranch DEF RowsDeleted, Exists
  <1>3. CASE RowsDeleted /\ (UNCHANGED disk \/ RemovalSucceeds(TRUE))
    <2>1. ~disk'.registered \/ disk' = disk
      BY <1>3, RemovalOnDisk
    <2>2. Alone /\ Worked => (disk'.registered => OnBranch' \/ disk'.staged)
      BY <2>1 DEF TeardownInv, LandInv, WhereWorkIs, OnBranch
    <2> QED
      BY <1>1, <1>3, <2>1, <2>2, GoingOn DEF RowsDeleted, Ends, Tearing, Exists
  <1> QED
    BY <1>2, <1>3 DEF DeleteRows

\* An abandonment goes on to the worktree it read of, if it read of one.
LEMMA Stopping ==
    ASSUME IInv, TeardownInv, NEW h \in Handlers, AbandonStopped(h)
    PROVE  TeardownInv'
  <1>1. /\ req[h].step = "stopping" /\ Active(h) /\ UNCHANGED <<disk, making, odd>>
        /\ row \in Row
    BY DEF AbandonStopped, At, Active, IInv, TypeOK
  <1>2. Alone /\ Worked => /\ disk.registered => OnBranch \/ disk.staged
                           /\ row.branch /\ ~row.path => OnBranch
    BY DEF TeardownInv, LandInv, WhereWorkIs
  <1>3. ~Exists => ~row.branch
    BY DEF TeardownInv, ClaimInv
  <1>4. CASE req[h].path /\ GoTo(h, "abandon") /\ row' = row
    <2> DEFINE r == [req[h] EXCEPT !.step = "abandon"]
    <2>1. /\ req' = [req EXCEPT ![h] = r] /\ r.step = "abandon"
          /\ Holds(h)
      BY <1>1, <1>4 DEF GoTo, Holds, IInv, TypeOK, Pending
    <2> HIDE DEF r
    <2> QED
      BY <1>1, <1>2, <1>3, <1>4, <2>1, GoingOn DEF Tearing, Exists, OnBranch
  <1>5. CASE SendCancel(row) /\ Ends(h)
    <2>1. /\ row'.path = row.path /\ row'.branch = row.branch
          /\ Exists' <=> Exists
          /\ row'.status = "creating" => row.status = "creating"
      BY <1>1, <1>5, SentClaim
    <2>2. Idle.step = "none" /\ ~Holds(h)'
      BY <1>5 DEF Idle, Holds, Ends, IInv, TypeOK
    <2> QED
      BY <1>1, <1>2, <1>3, <1>5, <2>1, <2>2, GoingOn DEF Ends, Tearing, OnBranch
  <1> QED
    BY <1>4, <1>5 DEF AbandonStopped

\* A stray directory is deleted only where git knows of no worktree, and so
\* takes no squash with it that is still to be committed.
LEMMA Repairing ==
    ASSUME IInv, TeardownInv, NEW h \in Handlers,
           ReadStrays(h) \/ RemoveStray(h)
    PROVE  TeardownInv'
  <1>1. /\ req[h].step \in {"release", "rm"} /\ Active(h)
        /\ UNCHANGED <<making, odd>> /\ row \in Row /\ disk \in Disk
        /\ row' \in {row, Discarded}
        /\ \/ disk' = disk
           \/ /\ disk' = [disk EXCEPT !.dir = FALSE, !.staged = FALSE]
              /\ req[h].step = "rm"
    <2>1. row \in Row /\ disk \in Disk
      BY DEF IInv, TypeOK
    <2>2. CASE ReadStrays(h)
      BY <2>1, <2>2 DEF ReadStrays, At, Active
    <2>3. CASE RemoveStray(h)
      BY <2>1, <2>3 DEF RemoveStray, At, Active
    <2> QED
      BY <2>2, <2>3
  <1>2. /\ row'.path => row.path
        /\ ~Exists' => ~row'.branch
        /\ row'.branch => row' = row
        /\ row'.status = row.status
    BY <1>1, Forgetting DEF IInv, TeardownInv, ClaimInv, Exists
  <1>3. disk'.registered = disk.registered /\ disk'.tip = disk.tip
    BY <1>1 DEF Disk
  <1>4. Alone /\ Worked => /\ disk'.registered => OnBranch' \/ disk'.staged
                           /\ row'.branch /\ ~row'.path => OnBranch'
    BY <1>1, <1>2, <1>3 DEF TeardownInv, LandInv, WhereWorkIs, ClaimInv, OnBranch
  <1>5. CASE Ends(h)
    <2>1. Idle.step = "none" /\ ~Holds(h)'
      BY <1>5 DEF Idle, Holds, Ends, IInv, TypeOK
    <2> QED
      BY <1>1, <1>2, <1>3, <1>4, <1>5, <2>1, GoingOn DEF Ends, Tearing, Exists
  <1>6. CASE /\ req[h].step = "release" /\ GoTo(h, "rm")
             /\ ~disk.registered /\ row' = row
    <2> DEFINE r == [req[h] EXCEPT !.step = "rm"]
    <2>1. /\ req' = [req EXCEPT ![h] = r] /\ r.step = "rm"
          /\ ~Holds(h)'
      BY <1>1, <1>6 DEF GoTo, Holds, IInv, TypeOK, Pending
    <2> HIDE DEF r
    <2> QED
      BY <1>1, <1>2, <1>3, <1>4, <1>6, <2>1, GoingOn DEF Tearing, Exists
  <1> QED
    BY <1>5, <1>6 DEF ReadStrays, RemoveStray, At

\* A process that dies leaves git's command done or not done, and no handler.
LEMMA Dying ==
    ASSUME IInv, TeardownInv, Crash \/ UncaughtTransition
    PROVE  TeardownInv'
  <1>1. /\ making' = (IF making = "unborn" THEN making ELSE "no")
        /\ \A h \in Handlers : req'[h].step = "none"
        /\ UNCHANGED <<row, odd>> /\ disk \in Disk
        /\ \/ disk' = disk
           \/ disk' = Added /\ making = "adding"
           \/ \E h \in Handlers : disk' \in UnderWay(h)
    BY DEF Crash, UncaughtTransition, ProcessGone, Idle, IInv, TypeOK
  <1>2. /\ Exists' <=> Exists
        /\ Alone' <=> Alone
        /\ Quiet' <=> Quiet
        /\ Worked' <=> Worked
    BY <1>1 DEF Exists, Alone, Quiet, Worked
  <1>3. ClaimInv' /\ HoldInv'
    BY <1>1, <1>2 DEF TeardownInv, ClaimInv, HoldInv, Active, Holds, Tearing
  <1>4. ASSUME Alone, Worked, NEW h \in Handlers, disk' \in UnderWay(h)
        PROVE  /\ disk'.registered => OnBranch' \/ disk'.staged
               /\ row.branch /\ ~row.path => OnBranch'
    <2>1. /\ disk.registered => OnBranch \/ disk.staged
          /\ row.branch /\ ~row.path => OnBranch
      BY <1>4 DEF TeardownInv, LandInv, WhereWorkIs
    <2>2. Holds(h) /\ row.branch => row.path
      BY <1>4 DEF TeardownInv, HoldInv, ClaimInv
    <2>3. CASE req[h].step = "squash"
      BY <1>1, <1>4, <2>1, <2>2, <2>3 DEF UnderWay, Holds, OnBranch, Disk
    <2>4. CASE req[h].step = "commit"
      BY <1>1, <1>4, <2>4 DEF UnderWay, OnBranch, Disk
    <2>5. CASE req[h].step = "remove"
      BY <1>1, <1>4, <2>1, <2>5 DEF UnderWay, Removed, DropBranch, OnBranch, Disk
    <2>6. CASE req[h].step \in {"discard", "abandon", "delete"}
      <3>1. disk' = Removed(disk, TRUE) /\ Holds(h)
        BY <1>4, <2>6 DEF UnderWay, Holds
      <3>2. ~disk'.registered
        BY <1>1, <3>1 DEF Removed, DropBranch, Disk
      <3> QED
        BY <2>2, <3>1, <3>2
    <2>7. CASE req[h].step = "rm"
      <3>1. ~disk.registered
        BY <2>7 DEF TeardownInv, ClaimInv
      <3> QED
        BY <1>1, <1>4, <2>1, <2>7, <3>1 DEF UnderWay, OnBranch, Disk
    <2>8. CASE req[h].step \in {"none", "stopping", "release"}
      BY <1>4, <2>8 DEF UnderWay
    <2>9. req[h].step \in Steps
      BY DEF IInv, TypeOK, Pending
    <2> QED
      BY <2>3, <2>4, <2>5, <2>6, <2>7, <2>8, <2>9 DEF Steps
  <1>5. ASSUME Alone, Worked PROVE WhereWorkIs'
    <2>1. making # "adding"
      BY <1>5 DEF TeardownInv, LandInv, Alone, Quiet
    <2>2. CASE disk' = disk
      BY <1>1, <1>5, <2>2 DEF TeardownInv, LandInv, WhereWorkIs, OnBranch
    <2>3. CASE \E h \in Handlers : disk' \in UnderWay(h)
      BY <1>1, <1>4, <1>5, <2>3 DEF WhereWorkIs
    <2> QED
      BY <1>1, <2>1, <2>2, <2>3
  <1>6. LandInv'
    BY <1>1, <1>2, <1>5 DEF TeardownInv, LandInv
  <1> QED
    BY <1>3, <1>6 DEF TeardownInv

\* Nothing exists yet, and no handler.
LEMMA InitTeardown == Init => TeardownInv
  BY DEF Init, TeardownInv, ClaimInv, HoldInv, LandInv, NoRow, NoDisk, Idle,
         Worked, Active, Holds, Exists, Tearing

\* Every step keeps the three.
LEMMA StepTeardown == IInv /\ TeardownInv /\ [Next]_vars => TeardownInv'
  <1> SUFFICES ASSUME IInv, TeardownInv, [Next]_vars PROVE TeardownInv'
    OBVIOUS
  <1>1. CASE InsertRow \/ Creation
    BY <1>1, Creating, Watching DEF Creation
  <1>2. CASE Command \/ RefusedCommand \/ WorkReports \/ SetLowEnergy
    BY <1>2, Watching, Landing
  <1>3. ASSUME NEW h \in Handlers, Request(h) PROVE TeardownInv'
    BY <1>3, Watching, Requesting DEF Request
  <1>4. ASSUME NEW h \in Handlers, Handle(h) PROVE TeardownInv'
    BY <1>4, SquashHalves, LettingGo, Discards, Stopping, Deletes, Repairing
       DEF Handle
  <1>5. CASE Crash \/ UncaughtTransition
    BY <1>5, Dying
  <1>6. CASE BootStep
    BY <1>6, Watching, SweepingAway DEF BootStep
  <1>7. CASE UNCHANGED vars
    BY <1>7, Watching
  <1> QED
    BY <1>1, <1>2, <1>3, <1>4, <1>5, <1>6, <1>7 DEF Next

\* An objective that is done has its work on its branch, for any number of
\* requests, unless two of them were under way together, and whatever died on
\* the way (integrate.ts:71-76).
THEOREM DoneLanded == Spec => []DoneMeansLanded
  <1>1. TeardownInv => DoneMeansLanded
    BY DEF TeardownInv, LandInv, WhereWorkIs, DoneMeansLanded, Alone, Worked,
           OnBranch
  <1> QED
    BY <1>1, Inductive, InitTeardown, StepTeardown, PTL DEF Spec
=============================================================================
