--------------------------- MODULE Claims_proofs ---------------------------
(***************************************************************************)
(* What an agent claims, heard in full and not taken at its word.          *)
(*                                                                         *)
(* Verification: a complete evidence set was earned, for every repository, *)
(* override, denylist and diff: whatever the spec lists, however its       *)
(* commands end and whenever the user stops them.                          *)
(*                                                                         *)
(* Contract: a turn's text is reported in full, for every set of values,   *)
(* however many segments the agent writes and however its text is cut into *)
(* chunks.  The proof follows the scanner through the text: after every    *)
(* atom it is where the text is, or the agent left a block open (Sync).    *)
(***************************************************************************)
EXTENDS Verification, Contract, SequenceTheorems, WellFoundedInduction, TLAPS

-----------------------------------------------------------------------------
(* The inductive invariant.                                                *)

(* The spec judged is the one the objective was created with: ids name one  *)
(* command each, and no check.                                              *)
Sound(s) ==
    /\ UniqueIds(s.commands)
    /\ {c.id : c \in s.commands} \cap s.checks = {}

SpecSound == Sound(spec)

(* Past the gate, what is run was authored, found, or the investigation's   *)
(* own: a broken config is refused.                                         *)
Sourced ==
    /\ repo \in Repos
    /\ phase \notin {"new", "refused"} =>
         mode = "investigation" \/ repo.config \notin BrokenConfigs

(* The commands to come have left no row yet.                               *)
Pending == left \cup ({current} \ {NoCommand})
QueueInv ==
    /\ left \subseteq spec.commands
    /\ current # NoCommand =>
         phase = "running" /\ current \in spec.commands \ left
    /\ \A c \in Pending : c.id \notin DOMAIN rows
    /\ phase \in {"new", "ready"} =>
         left = {} /\ DOMAIN rows = {} /\ DOMAIN judged = {}

(* A row says what became of the command, and was never written for an      *)
(* abort; the agent's own are of checks.                                    *)
RowsInv ==
    /\ DOMAIN rows \subseteq DOMAIN fate
    /\ \A id \in DOMAIN rows :
         /\ rows[id] \in {"pass", "warn"} => fate[id] = "exit 0"
         /\ rows[id] = "fail" => fate[id] # "aborted"
    /\ DOMAIN judged \subseteq spec.checks

RiskInv == phase = "judged" => risk \in {"high", ClassifyTaskRisk(diff)}

(* A shell exits or is signalled; it is never itself an abort.              *)
LeaderInv == leader # "aborted"

VerificationInv ==
    SpecSound /\ Sourced /\ QueueInv /\ RowsInv /\ RiskInv /\ LeaderInv

-----------------------------------------------------------------------------
(* Where the spec comes from.                                              *)

(* A merged leaf is the override's opinion, or the base's.                  *)
LEMMA MergedLeaf ==
    ASSUME NEW base, NEW override \in Overrides, NEW leaf \in Leaves
    PROVE  \/ Merged(base, override)[leaf] = base[leaf]
           \/ Merged(base, override)[leaf] \in Opinions(leaf)
  BY DEF Merged, Opinions

(* What is detected is named after its directory and its kind.              *)
LEMMA DetectedIds ==
    ASSUME NEW dirs, NEW c \in Detected(dirs).commands
    PROVE  \E d \in DOMAIN dirs, n \in {"test", "lint", "build"} :
             c = Command(<<d, n>>, n # "build")
<1> DEFINE Commands(d) == {Command(<<d, n>>, n # "build") : n \in DetectIn(dirs[d])}
<1>1. Detected(dirs).commands = UNION {Commands(d) : d \in DOMAIN dirs \ Skipped}
  BY DEF Detected, Bare
<1>2. PICK d \in DOMAIN dirs : c \in Commands(d)
  BY <1>1
<1>3. PICK n \in DetectIn(dirs[d]) : c = Command(<<d, n>>, n # "build")
  BY <1>2
<1>4. n \in {"test", "lint", "build"}
  BY <1>3 DEF DetectIn, NameOf
<1> QED
  BY <1>3, <1>4

(* Ids found are of a directory and a name each.                            *)
LEMMA DetectedUnique ==
    ASSUME NEW dirs
    PROVE  UniqueIds(Detected(dirs).commands)
<1> SUFFICES ASSUME NEW c \in Detected(dirs).commands,
                    NEW e \in Detected(dirs).commands, c.id = e.id
             PROVE  c = e
  BY DEF UniqueIds
<1>1. PICK d \in DOMAIN dirs, n \in {"test", "lint", "build"} :
        c = Command(<<d, n>>, n # "build")
  BY DetectedIds
<1>2. PICK f \in DOMAIN dirs, m \in {"test", "lint", "build"} :
        e = Command(<<f, m>>, m # "build")
  BY DetectedIds
<1>3. <<d, n>> = <<f, m>>
  BY <1>1, <1>2 DEF Command
<1>4. d = f /\ n = m
  BY <1>3
<1> QED
  BY <1>1, <1>2, <1>4

(* What an authored or found spec may list.                                 *)
LEMMA MergedSound ==
    ASSUME NEW base, NEW override \in Overrides,
           UniqueIds(base.commands),
           base.checks = {} \/ base.checks \in CheckLists,
           \A c \in base.commands :
             \/ c \in UNION CommandLists
             \/ \E r \in Repos : \E d \in DOMAIN r.dirs,
                  n \in {"test", "lint", "build"} : c.id = <<d, n>>
    PROVE  Sound(Merged(base, override))
<1> DEFINE m == Merged(base, override)
<1>1. m.commands = base.commands \/ m.commands \in CommandLists
  BY MergedLeaf DEF Leaves, CommandLists
<1>2. m.checks = {} \/ m.checks \in CheckLists
  BY MergedLeaf DEF Leaves, CheckLists
<1>3. UniqueIds(m.commands)
  BY <1>1, VerificationAssumption
<1>4. ASSUME NEW c \in m.commands PROVE c.id \notin m.checks
  <2>1. c.id \in m.checks => c.id \in UNION CheckLists
    BY <1>2
  <2>2. \/ c \in UNION CommandLists
        \/ \E r \in Repos : \E d \in DOMAIN r.dirs,
             n \in {"test", "lint", "build"} : c.id = <<d, n>>
    BY <1>1, <1>4
  <2> QED
    BY <2>1, <2>2, VerificationAssumption
<1> QED
  BY <1>3, <1>4 DEF Sound

(* null lists nothing.                                                      *)
LEMMA NoSpecSound == Sound(NoSpec)
  BY DEF Sound, NoSpec, Bare, UniqueIds

(* Whatever is resolved, ids name one command each; and a broken config      *)
(* resolves nothing but an investigation.                                   *)
LEMMA ResolutionFacts ==
    ASSUME NEW r \in Repos, NEW m, NEW override \in Overrides
    PROVE  LET resolution == Resolution(r, m, override)
           IN /\ Sound(resolution.spec)
              /\ \/ resolution.kind = "invalid"
                 \/ m = "investigation" \/ r.config \notin BrokenConfigs
<1>1. /\ \A s : Resolved(s).spec = s /\ Resolved(s).kind = "resolved"
      /\ \A k : Unresolved(k).spec = NoSpec /\ Unresolved(k).kind = k
  BY DEF Resolved, Unresolved
<1>2. CASE m = "investigation"
  <2>1. Sound(Merged(InvestigationSpec, override))
    <3>1. /\ InvestigationSpec.commands = {} /\ InvestigationSpec.checks = {CheckId}
          /\ {CheckId} \in CheckLists
      BY DEF InvestigationSpec, Bare, CheckLists
    <3>2. UniqueIds(InvestigationSpec.commands)
      BY <3>1 DEF UniqueIds
    <3> QED
      BY <3>1, <3>2, MergedSound
  <2> QED
    BY <1>1, <1>2, <2>1 DEF Resolution
<1>3. CASE m # "investigation" /\ r.config = "absent"
  <2>1. Sound(Merged(Detected(r.dirs), override))
    <3>1. Detected(r.dirs).checks = {}
      BY DEF Detected, Bare
    <3>2. ASSUME NEW c \in Detected(r.dirs).commands
          PROVE  \E d \in DOMAIN r.dirs, n \in {"test", "lint", "build"} :
                   c.id = <<d, n>>
      BY DetectedIds DEF Command
    <3> QED
      BY <3>1, <3>2, DetectedUnique, MergedSound
  <2>2. r.config \notin BrokenConfigs
    BY <1>3 DEF BrokenConfigs
  <2> QED
    BY <1>1, <1>3, <2>1, <2>2, NoSpecSound DEF Resolution, FromDetection
<1>4. CASE m # "investigation" /\ r.config # "absent"
  <2>1. Sound(Merged(r.authored, override))
    <3>1. r.authored.commands \in CommandLists /\ r.authored.checks \in CheckLists
      BY DEF CommandLists, CheckLists
    <3> QED
      BY <3>1, MergedSound, VerificationAssumption
  <2> QED
    BY <1>1, <1>4, <2>1, NoSpecSound DEF Resolution, FromConfig
<1> QED
  BY <1>2, <1>3, <1>4

-----------------------------------------------------------------------------
(* The steps.                                                              *)

(* An objective that has not been created.                                  *)
LEMMA InvInit == Init => VerificationInv
  BY NoSpecSound DEF Init, VerificationInv, SpecSound, Sound, Sourced,
     QueueInv, Pending, RowsInv, RiskInv, LeaderInv

(* The gate: what passes it is sound and has a source.                      *)
LEMMA CreateStep == VerificationInv /\ Create => VerificationInv'
<1> SUFFICES ASSUME VerificationInv, Create PROVE VerificationInv'
  OBVIOUS
<1> USE DEF VerificationInv
<1>1. PICK override \in Overrides :
        LET resolution == Resolution(repo, mode, override)
        IN IF \/ resolution.kind = "invalid"
              \/ resolution.kind = "resolved" /\ ~SpecAllowed(resolution.spec)
           THEN phase' = "refused" /\ UNCHANGED spec
           ELSE phase' = "ready" /\ spec' = resolution.spec
  BY DEF Create
<1>2. /\ Sound(Resolution(repo, mode, override).spec)
      /\ \/ Resolution(repo, mode, override).kind = "invalid"
         \/ mode = "investigation" \/ repo.config \notin BrokenConfigs
  BY ResolutionFacts DEF Sourced
<1>3. SpecSound'
  BY <1>1, <1>2 DEF SpecSound, Sound
<1>4. Sourced'
  BY <1>1, <1>2 DEF Create, Sourced
<1>5. /\ phase = "new" /\ left = {} /\ DOMAIN rows = {} /\ DOMAIN judged = {}
      /\ current = NoCommand /\ phase' \in {"refused", "ready"}
      /\ UNCHANGED <<left, current, leader, rows, judged, fate, diff, risk>>
  BY <1>1 DEF Create, QueueInv, process
<1>6. QueueInv'
  BY <1>5 DEF QueueInv, Pending
<1>7. RowsInv' /\ RiskInv' /\ LeaderInv'
  BY <1>5 DEF RowsInv, RiskInv, LeaderInv
<1> QED
  BY <1>3, <1>4, <1>6, <1>7

(* A run starts on a null spec or on all of the commands.                   *)
LEMMA BeginStep == VerificationInv /\ Begin => VerificationInv'
<1> SUFFICES ASSUME VerificationInv, Begin PROVE VerificationInv'
  OBVIOUS
<1> USE DEF VerificationInv
<1>1. /\ phase = "ready" /\ phase' \in {"failed", "running"}
      /\ left' \in {{}, spec.commands}
      /\ DOMAIN rows = {} /\ current = NoCommand
      /\ UNCHANGED <<repo, mode, spec, current, leader, rows, judged, fate>>
  BY DEF Begin, QueueInv, origin, process
<1>2. SpecSound' /\ Sourced'
  BY <1>1 DEF SpecSound, Sound, Sourced
<1>3. QueueInv'
  BY <1>1 DEF QueueInv, Pending
<1>4. RowsInv' /\ RiskInv' /\ LeaderInv'
  BY <1>1 DEF RowsInv, RiskInv, LeaderInv
<1> QED
  BY <1>2, <1>3, <1>4

(* Nothing but the process group, its timers and the signal moves.          *)
LEMMA ProcessStep ==
    ASSUME VerificationInv,
           UNCHANGED <<repo, mode, spec, phase, left, current, rows, judged, fate,
                       diff, risk>>,
           leader' \in {leader, "exit 0", "exit 1", "signalled"}
    PROVE  VerificationInv'
<1>1. SpecSound' /\ Sourced' /\ RowsInv'
  BY DEF VerificationInv, SpecSound, Sound, Sourced, RowsInv
<1>2. QueueInv'
  BY DEF VerificationInv, QueueInv, Pending
<1>3. RiskInv' /\ LeaderInv'
  BY DEF VerificationInv, RiskInv, ClassifyTaskRisk, LeaderInv
<1> QED
  BY <1>1, <1>2, <1>3 DEF VerificationInv

(* A row of a command that left none, or none for want of a database.       *)
LEMMA RecordRows ==
    ASSUME RowsInv, NEW c, NEW end, c.id \notin DOMAIN rows, Record(c, end),
           ~ aborted, end # "aborted", UNCHANGED <<spec, judged>>
    PROVE  /\ RowsInv'
           /\ DOMAIN rows' \subseteq DOMAIN rows \cup {c.id}
           /\ phase' \in {phase, "failed"}
<1>1. fate' = Put(fate, c.id, end)
  BY DEF Record
<1>2. DOMAIN fate' = DOMAIN fate \cup {c.id} /\ fate'[c.id] = end
      /\ \A k \in DOMAIN fate \ {c.id} : fate'[k] = fate[k]
  BY <1>1 DEF Put
<1>3. CASE phase' = "failed" /\ UNCHANGED rows
  BY <1>2, <1>3 DEF RowsInv
<1>4. CASE /\ \E warned \in BOOLEAN : rows' = Put(rows, c.id, StatusOf(end, warned))
           /\ UNCHANGED phase
  <2>1. PICK warned \in BOOLEAN : rows' = Put(rows, c.id, StatusOf(end, warned))
    BY <1>4
  <2>2. /\ DOMAIN rows' = DOMAIN rows \cup {c.id}
        /\ rows'[c.id] = StatusOf(end, warned)
        /\ \A k \in DOMAIN rows \ {c.id} : rows'[k] = rows[k]
    BY <2>1 DEF Put
  <2>3. StatusOf(end, warned) \in {"pass", "warn"} => end = "exit 0"
    BY DEF StatusOf
  <2>4. DOMAIN rows' \subseteq DOMAIN fate'
    BY <1>2, <2>2 DEF RowsInv
  <2>5. ASSUME NEW id \in DOMAIN rows'
        PROVE  /\ rows'[id] \in {"pass", "warn"} => fate'[id] = "exit 0"
               /\ rows'[id] = "fail" => fate'[id] # "aborted"
    <3>1. CASE id = c.id
      BY <1>2, <2>2, <2>3, <3>1
    <3>2. CASE id # c.id
      <4>1. id \in DOMAIN rows /\ id \in DOMAIN fate
        BY <2>2, <3>2 DEF RowsInv
      <4>2. rows'[id] = rows[id] /\ fate'[id] = fate[id]
        BY <1>2, <2>2, <3>2, <4>1
      <4> QED
        BY <4>1, <4>2 DEF RowsInv
    <3> QED
      BY <3>1, <3>2
  <2>6. DOMAIN judged' \subseteq spec'.checks
    BY DEF RowsInv
  <2> QED
    BY <1>4, <2>2, <2>4, <2>5, <2>6 DEF RowsInv
<1> QED
  BY <1>3, <1>4 DEF Record

(* What a step past the gate leaves of the spec's own parts.                *)
LEMMA SpecKept ==
    ASSUME SpecSound, Sourced, phase \notin {"new", "refused"},
           UNCHANGED <<repo, mode, spec>>
    PROVE  SpecSound' /\ Sourced'
  BY DEF SpecSound, Sound, Sourced

(* A command leaves the queue for a row, or for a process group.            *)
LEMMA NextCommandStep == VerificationInv /\ NextCommand => VerificationInv'
<1> SUFFICES ASSUME VerificationInv, NextCommand PROVE VerificationInv'
  OBVIOUS
<1> USE DEF VerificationInv
<1>1. /\ phase = "running" /\ current = NoCommand /\ ~ aborted
      /\ UNCHANGED <<repo, mode, spec, judged, diff, risk>>
  BY DEF NextCommand, Between, origin
<1>2. PICK c \in left :
        /\ left' = left \ {c}
        /\ \/ Record(c, "refused") /\ UNCHANGED process
           \/ Record(c, "could not run") /\ UNCHANGED process
           \/ /\ current' = c /\ leader' = "up"
              /\ UNCHANGED <<phase, rows, fate>>
  BY Zenon DEF NextCommand
<1>3. SpecSound' /\ Sourced' /\ LeaderInv'
  BY <1>1, <1>2, SpecKept DEF LeaderInv, process
<1>4. c \in spec.commands /\ c.id \notin DOMAIN rows
  BY <1>2 DEF QueueInv, Pending
<1>5. \A d \in left \ {c} : d.id # c.id /\ d.id \notin DOMAIN rows
  BY <1>4 DEF QueueInv, Pending, SpecSound, Sound, UniqueIds
<1>6. CASE (Record(c, "refused") \/ Record(c, "could not run")) /\ UNCHANGED process
  <2>1. /\ RowsInv' /\ DOMAIN rows' \subseteq DOMAIN rows \cup {c.id}
        /\ phase' \in {"running", "failed"} /\ current' = NoCommand
    <3>1. PICK end \in {"refused", "could not run"} : Record(c, end)
      BY <1>6
    <3>2. end # "aborted"
      BY <3>1
    <3>3. /\ RowsInv' /\ DOMAIN rows' \subseteq DOMAIN rows \cup {c.id}
          /\ phase' \in {phase, "failed"}
      BY <1>1, <1>4, <3>1, <3>2, RecordRows
    <3> QED
      BY <1>1, <1>6, <3>3 DEF process
  <2>2. QueueInv'
    BY <1>1, <1>2, <1>5, <2>1 DEF QueueInv, Pending
  <2> QED
    BY <1>3, <2>1, <2>2 DEF RiskInv
<1>7. CASE current' = c /\ UNCHANGED <<phase, rows, fate>>
  <2>1. QueueInv'
    BY <1>1, <1>2, <1>4, <1>5, <1>7 DEF QueueInv, Pending
  <2>2. RowsInv' /\ RiskInv'
    BY <1>1, <1>7 DEF RowsInv, RiskInv
  <2> QED
    BY <1>3, <2>1, <2>2
<1> QED
  BY <1>2, <1>6, <1>7

(* Nothing is recorded where a run ends.                                    *)
LEMMA AllRunStep == VerificationInv /\ AllRun => VerificationInv'
<1> SUFFICES ASSUME VerificationInv, AllRun PROVE VerificationInv'
  OBVIOUS
<1> USE DEF VerificationInv
<1>1. /\ phase = "running" /\ phase' \in {"stopped", "collected"}
      /\ current = NoCommand
      /\ UNCHANGED <<repo, mode, spec, left, current, leader, rows, judged, fate>>
  BY DEF AllRun, Between, origin, process
<1>2. SpecSound' /\ Sourced' /\ LeaderInv'
  BY <1>1, SpecKept DEF LeaderInv
<1>3. QueueInv' /\ RowsInv' /\ RiskInv'
  BY <1>1 DEF QueueInv, Pending, RowsInv, RiskInv
<1> QED
  BY <1>2, <1>3

(* A command that was aborted leaves no row.                                *)
LEMMA SettlesStep == VerificationInv /\ Settles => VerificationInv'
<1> SUFFICES ASSUME VerificationInv, Settles PROVE VerificationInv'
  OBVIOUS
<1> USE DEF VerificationInv
<1>1. /\ phase = "running" /\ current # NoCommand /\ leader # "up"
      /\ current \in spec.commands \ left
      /\ current' = NoCommand /\ leader' = "none"
      /\ UNCHANGED <<repo, mode, spec, left, aborted, judged>>
  BY DEF Settles, Idle, QueueInv, origin
<1>2. SpecSound' /\ Sourced' /\ LeaderInv'
  BY <1>1, SpecKept DEF LeaderInv
<1>3. current.id \notin DOMAIN rows
  BY <1>1 DEF QueueInv, Pending
<1>4. \A d \in left : d.id # current.id /\ d.id \notin DOMAIN rows
  BY <1>1 DEF QueueInv, Pending, SpecSound, Sound, UniqueIds
<1>5. CASE aborted
  <2>1. /\ phase' = "stopped" /\ UNCHANGED rows
        /\ fate' = Put(fate, current.id, "aborted")
    BY <1>5 DEF Settles
  <2>2. /\ DOMAIN fate' = DOMAIN fate \cup {current.id}
        /\ \A k \in DOMAIN fate \ {current.id} : fate'[k] = fate[k]
    BY <2>1 DEF Put
  <2>3. RowsInv'
    BY <1>1, <1>3, <2>1, <2>2 DEF RowsInv
  <2>4. QueueInv' /\ RiskInv'
    BY <1>1, <1>4, <2>1 DEF QueueInv, Pending, RiskInv
  <2> QED
    BY <1>2, <2>3, <2>4
<1>6. CASE ~ aborted
  <2>1. Record(current, leader)
    BY <1>6 DEF Settles
  <2>2. leader # "aborted"
    BY DEF LeaderInv
  <2>3. /\ RowsInv' /\ DOMAIN rows' \subseteq DOMAIN rows \cup {current.id}
        /\ phase' \in {"running", "failed"}
    BY <1>1, <1>3, <1>6, <2>1, <2>2, RecordRows
  <2>4. QueueInv' /\ RiskInv'
    BY <1>1, <1>4, <2>3 DEF QueueInv, Pending, RiskInv
  <2> QED
    BY <1>2, <2>3, <2>4
<1> QED
  BY <1>5, <1>6

(* The risk is judged of the diff it is stored with.                        *)
LEMMA JudgeStep == VerificationInv /\ Judge => VerificationInv'
<1> SUFFICES ASSUME VerificationInv, Judge PROVE VerificationInv'
  OBVIOUS
<1> USE DEF VerificationInv
<1>1. /\ phase = "collected" /\ phase' = "judged"
      /\ risk' \in {"high", ClassifyTaskRisk(diff')}
      /\ UNCHANGED <<repo, mode, spec, left, current, leader, rows, judged, fate>>
  BY DEF Judge, origin, process
<1>2. SpecSound' /\ Sourced' /\ LeaderInv'
  BY <1>1, SpecKept DEF LeaderInv
<1>3. QueueInv' /\ RowsInv'
  BY <1>1 DEF QueueInv, Pending, RowsInv
<1>4. RiskInv'
  BY <1>1 DEF RiskInv, ClassifyTaskRisk
<1> QED
  BY <1>2, <1>3, <1>4

(* The agent's rows are of checks.                                          *)
LEMMA AgentReportsStep == VerificationInv /\ AgentReports => VerificationInv'
<1> SUFFICES ASSUME VerificationInv, AgentReports PROVE VerificationInv'
  OBVIOUS
<1> USE DEF VerificationInv
<1>1. /\ phase = "judged"
      /\ UNCHANGED <<repo, mode, spec, phase, left, current, leader, fate, diff, risk>>
  BY DEF AgentReports, origin, process
<1>2. PICK id \in spec.checks, status \in {"pass", "fail"} :
        judged' = Put(judged, id, status) /\ UNCHANGED rows
  BY DEF AgentReports, Linked
<1>3. DOMAIN judged' = DOMAIN judged \cup {id}
  BY <1>2 DEF Put
<1>4. SpecSound' /\ Sourced' /\ LeaderInv'
  BY <1>1, SpecKept DEF LeaderInv
<1>5. QueueInv' /\ RowsInv'
  BY <1>1, <1>2, <1>3 DEF QueueInv, Pending, RowsInv
<1>6. RiskInv'
  BY <1>1 DEF RiskInv, ClassifyTaskRisk
<1> QED
  BY <1>4, <1>5, <1>6

(* Every step.                                                              *)
LEMMA InvStep == VerificationInv /\ [Next]_vars => VerificationInv'
<1> SUFFICES ASSUME VerificationInv, [Next]_vars PROVE VerificationInv'
  OBVIOUS
<1>1. CASE Create
  BY <1>1, CreateStep
<1>2. CASE Begin
  BY <1>2, BeginStep
<1>3. CASE NextCommand
  BY <1>3, NextCommandStep
<1>4. CASE AllRun
  BY <1>4, AllRunStep
<1>5. CASE LeaderExits
  BY <1>5, ProcessStep DEF LeaderExits, origin
<1>6. CASE HelperExits
  BY <1>6, ProcessStep DEF HelperExits, origin
<1>7. CASE TimerFires
  BY <1>7, ProcessStep DEF TimerFires, origin, Stop, KillGroup
<1>8. CASE GraceOver
  BY <1>8, ProcessStep DEF GraceOver, origin, KillGroup
<1>9. CASE Abort
  BY <1>9, ProcessStep DEF Abort, origin, Stop, KillGroup
<1>10. CASE Settles
  BY <1>10, SettlesStep
<1>11. CASE Judge
  BY <1>11, JudgeStep
<1>12. CASE AgentReports
  BY <1>12, AgentReportsStep
<1>13. CASE UNCHANGED vars
  BY <1>13, ProcessStep DEF vars, origin, process
<1> QED
  BY <1>1, <1>2, <1>3, <1>4, <1>5, <1>6, <1>7, <1>8, <1>9, <1>10, <1>11, <1>12,
     <1>13 DEF Next

-----------------------------------------------------------------------------
(* The guard.                                                              *)

(* What the guard's yes says of each required command and of the set.       *)
LEMMA CompleteMeans ==
    ASSUME Complete
    PROVE  /\ phase = "judged"
           /\ Required \cup spec.checks # {}
           /\ \A c \in Required :
                \/ CurrentItems[c] = "pass"
                \/ CurrentItems[c] = "warn" /\ c \in MayWarn
<1>1. /\ phase = "judged"
      /\ Guard(Required, spec.checks, MayWarn)!EvidenceComplete(CurrentItems, {})
  BY DEF Complete
<1>2. /\ Guard(Required, spec.checks, MayWarn)!Ids # {}
      /\ \A c \in Required :
           Guard(Required, spec.checks, MayWarn)!CommandSatisfied(CurrentItems, {}, c)
  BY <1>1 DEF Guard!EvidenceComplete
<1>3. Required \cup spec.checks # {}
  BY <1>2 DEF Guard!Ids
<1>4. \A c \in Required : \/ CurrentItems[c] = "pass"
                          \/ CurrentItems[c] = "warn" /\ c \in MayWarn
  BY <1>2 DEF Guard!CommandSatisfied
<1> QED
  BY <1>1, <1>3, <1>4

(* A required command the guard takes is one whose own row passed or may     *)
(* warn: no check, and so nothing the agent said, bears its id.             *)
LEMMA RequiredRow ==
    ASSUME VerificationInv, Complete, NEW c \in spec.commands, c.required
    PROVE  /\ fate[c.id] = "exit 0"
           /\ rows[c.id] = "warn" => c.allowWarn
<1>1. c.id \in Required
  BY DEF Required
<1>2. \/ CurrentItems[c.id] = "pass"
      \/ CurrentItems[c.id] = "warn" /\ c.id \in MayWarn
  BY <1>1, CompleteMeans
<1>3. c.id \notin DOMAIN judged
  BY DEF VerificationInv, SpecSound, Sound, RowsInv
<1>4. c.id \in DOMAIN rows /\ CurrentItems[c.id] = rows[c.id]
  BY <1>1, <1>2, <1>3 DEF CurrentItems
<1>5. fate[c.id] = "exit 0"
  BY <1>2, <1>4 DEF VerificationInv, RowsInv
<1>6. ASSUME rows[c.id] = "warn" PROVE c.allowWarn
  <2>1. c.id \in MayWarn
    BY <1>2, <1>4, <1>6
  <2>2. PICK d \in spec.commands : d.id = c.id /\ d.allowWarn
    BY <2>1 DEF MayWarn
  <2>3. d = c
    BY <2>2 DEF VerificationInv, SpecSound, Sound, UniqueIds
  <2> QED
    BY <2>2, <2>3
<1> QED
  BY <1>5, <1>6

(* A low risk is the classifier's, and that looked for the protected files. *)
LEMMA LowRiskIsWhole ==
    ASSUME VerificationInv, phase = "judged", risk = "low"
    PROVE  Protected(diff.files, spec.protected) = {}
<1>1. ClassifyTaskRisk(diff) = "low"
  BY DEF VerificationInv, RiskInv
<1>2. Protected(diff.files, DefaultProtected \cup spec.protected) = {}
  BY <1>1 DEF ClassifyTaskRisk
<1> QED
  BY <1>2 DEF Protected

(* The evidence behind an approval was earned: something to prove, from a    *)
(* config that reads; every required command exited 0 by itself in this run; *)
(* no pause counted as a failure; a low risk hides no protected file        *)
(* (verification/collector.ts:53-122, machine/guards.ts, risk-policy.ts).   *)
THEOREM ApprovalEarned == Spec => []ApprovalIsEarned
<1>1. VerificationInv => ApprovalIsEarned
  <2> SUFFICES ASSUME VerificationInv PROVE ApprovalIsEarned
    OBVIOUS
  <2>1. ASSUME Complete
        PROVE  /\ spec.commands \cup spec.checks # {}
               /\ mode = "investigation" \/ repo.config \notin BrokenConfigs
               /\ \A c \in spec.commands : c.required =>
                    fate[c.id] = "exit 0" /\ (rows[c.id] = "warn" => c.allowWarn)
               /\ risk = "low" => Protected(diff.files, spec.protected) = {}
    <3>1. phase = "judged" /\ Required \cup spec.checks # {}
      BY <2>1, CompleteMeans
    <3>2. spec.commands \cup spec.checks # {}
      BY <3>1 DEF Required
    <3>3. mode = "investigation" \/ repo.config \notin BrokenConfigs
      BY <3>1 DEF VerificationInv, Sourced
    <3>4. \A c \in spec.commands : c.required =>
            fate[c.id] = "exit 0" /\ (rows[c.id] = "warn" => c.allowWarn)
      BY <2>1, RequiredRow
    <3>5. risk = "low" => Protected(diff.files, spec.protected) = {}
      BY <3>1, LowRiskIsWhole
    <3> QED
      BY <3>2, <3>3, <3>4, <3>5
  <2>2. \A id \in DOMAIN rows : rows[id] = "fail" => fate[id] # "aborted"
    BY DEF VerificationInv, RowsInv
  <2> QED
    BY <2>1, <2>2 DEF ApprovalIsEarned
<1> QED
  BY InvInit, InvStep, <1>1, PTL DEF Spec

-----------------------------------------------------------------------------
(* Sequences: what the recursive functions of the model compute.            *)

(* Every set of numbers that is not empty has a least one.                  *)
LEMMA Least ==
    ASSUME NEW S \in SUBSET Nat, S # {}
    PROVE  \E x \in S : \A y \in S : x <= y
<1>1. PICK x \in S : \A y \in S : ~(<<y, x>> \in OpToRel(<, Nat))
  BY NatLessThanWellFounded, WFMin
<1>2. \A y \in S : <<y, x>> \in OpToRel(<, Nat) <=> y < x
  BY DEF OpToRel
<1>3. \A y \in S : ~(y < x)
  BY <1>1, <1>2
<1> QED
  BY <1>3

(* The function FlattenSeq recurs with.                                     *)
Flats(f, ss) ==
    \A i \in 1..Len(ss) : f[i] = IF i = 1 THEN ss[i] ELSE f[i - 1] \o ss[i]

LEMMA FlatsPrefixExists ==
    ASSUME NEW ss, NEW n \in Nat
    PROVE  \E f : f = [i \in 1..n |-> IF i = 1 THEN ss[i] ELSE f[i - 1] \o ss[i]]
<1> DEFINE Has(k) ==
             \E f : f = [i \in 1..k |-> IF i = 1 THEN ss[i] ELSE f[i - 1] \o ss[i]]
           Without == {k \in Nat : ~Has(k)}
<1> SUFFICES ASSUME Without # {} PROVE FALSE
  OBVIOUS
<1>1. PICK k \in Without : \A y \in Without : k <= y
  BY Least
<1>2. Has(0)
  <2> DEFINE g == [i \in 1..0 |-> <<>>]
  <2>1. g = [i \in 1..0 |-> IF i = 1 THEN ss[i] ELSE g[i - 1] \o ss[i]]
    OBVIOUS
  <2> QED
    BY <2>1
<1> HIDE DEF Has
<1>3. k \in Nat \ {0} /\ k - 1 \in Nat /\ k - 1 \notin Without
  BY <1>1, <1>2
<1>3a. Has(k - 1)
  BY <1>3
<1>4. PICK f : f = [i \in 1..(k - 1) |-> IF i = 1 THEN ss[i] ELSE f[i - 1] \o ss[i]]
  BY <1>3a DEF Has
<1> DEFINE g == [i \in 1..k |-> IF i < k THEN f[i]
                                ELSE IF i = 1 THEN ss[i] ELSE f[i - 1] \o ss[i]]
<1>5. ASSUME NEW i \in 1..k
      PROVE  g[i] = IF i = 1 THEN ss[i] ELSE g[i - 1] \o ss[i]
  <2>1. i # 1 => i - 1 \in 1..k /\ i - 1 < k
    BY <1>3
  <2>2. i # 1 => g[i - 1] = f[i - 1]
    BY <2>1
  <2>3. i < k => i \in 1..(k - 1)
    BY <1>3
  <2>4. CASE i < k
    <3>1. g[i] = f[i]
      BY <2>4
    <3>2. f[i] = IF i = 1 THEN ss[i] ELSE f[i - 1] \o ss[i]
      BY <1>4, <2>3, <2>4
    <3> QED
      BY <3>1, <3>2, <2>2
  <2>5. CASE ~(i < k)
    BY <2>5, <2>2
  <2> QED
    BY <2>4, <2>5
<1>6. g = [i \in 1..k |-> IF i = 1 THEN ss[i] ELSE g[i - 1] \o ss[i]]
  <2> HIDE DEF g
  <2>1. g = [i \in 1..k |-> g[i]]
    BY DEF g
  <2> QED
    BY <2>1, <1>5
<1>7. Has(k)
  BY <1>6 DEF Has
<1> QED
  BY <1>1, <1>7

LEMMA FlattenIs ==
    ASSUME NEW ss, Len(ss) \in Nat \ {0}
    PROVE  \E f : Flats(f, ss) /\ FlattenSeq(ss) = f[Len(ss)]
<1> DEFINE F == CHOOSE f : f = [i \in 1..Len(ss) |->
                                  IF i = 1 THEN ss[i] ELSE f[i - 1] \o ss[i]]
<1>1. \E f : f = [i \in 1..Len(ss) |-> IF i = 1 THEN ss[i] ELSE f[i - 1] \o ss[i]]
  BY FlatsPrefixExists
<1>2. F = [i \in 1..Len(ss) |-> IF i = 1 THEN ss[i] ELSE F[i - 1] \o ss[i]]
  BY <1>1
<1>3. FlattenSeq(ss) = F[Len(ss)]
  BY Zenon DEF FlattenSeq
<1> HIDE DEF F
<1>4. ASSUME NEW i \in 1..Len(ss)
      PROVE  F[i] = IF i = 1 THEN ss[i] ELSE F[i - 1] \o ss[i]
  BY <1>2
<1> QED
  BY <1>3, <1>4 DEF Flats

(* Its values are sequences, and depend on what comes before only.          *)
LEMMA FlatsType ==
    ASSUME NEW S, NEW ss \in Seq(Seq(S)), NEW f, Flats(f, ss)
    PROVE  \A i \in 1..Len(ss) : f[i] \in Seq(S)
<1> DEFINE Bad == {i \in 1..Len(ss) : f[i] \notin Seq(S)}
<1> SUFFICES ASSUME Bad # {} PROVE FALSE
  OBVIOUS
<1>0. Len(ss) \in Nat /\ \A i \in 1..Len(ss) : ss[i] \in Seq(S)
  BY ElementOfSeq, LenProperties
<1>1. PICK i \in Bad : \A y \in Bad : i <= y
  <2>1. Bad \in SUBSET Nat
    BY <1>0
  <2> QED
    BY <2>1, Least
<1>2. f[i] = IF i = 1 THEN ss[i] ELSE f[i - 1] \o ss[i]
  BY DEF Flats
<1>3. i # 1 => i - 1 \in 1..Len(ss) /\ f[i - 1] \in Seq(S)
  BY <1>0, <1>1
<1>4. f[i] \in Seq(S)
  BY <1>0, <1>2, <1>3, ConcatProperties
<1> QED
  BY <1>1, <1>4

LEMMA FlatsAgree ==
    ASSUME NEW ss, NEW tt, Len(ss) \in Nat, Len(tt) = Len(ss) + 1,
           \A i \in 1..Len(ss) : ss[i] = tt[i],
           NEW f, NEW g, Flats(f, ss), Flats(g, tt)
    PROVE  \A i \in 1..Len(ss) : f[i] = g[i]
<1> DEFINE Bad == {i \in 1..Len(ss) : f[i] # g[i]}
<1> SUFFICES ASSUME Bad # {} PROVE FALSE
  OBVIOUS
<1>1. PICK i \in Bad : \A y \in Bad : i <= y
  <2>1. Bad \in SUBSET Nat
    OBVIOUS
  <2> QED
    BY <2>1, Least
<1>2. f[i] = IF i = 1 THEN ss[i] ELSE f[i - 1] \o ss[i]
  BY DEF Flats
<1>3. g[i] = IF i = 1 THEN tt[i] ELSE g[i - 1] \o tt[i]
  BY DEF Flats
<1>4. i # 1 => i - 1 \in 1..Len(ss) /\ f[i - 1] = g[i - 1]
  BY <1>1
<1> QED
  BY <1>1, <1>2, <1>3, <1>4

(* To flatten nothing, one more, and one sequence after another.            *)
LEMMA FlattenType ==
    ASSUME NEW S, NEW ss \in Seq(Seq(S))
    PROVE  FlattenSeq(ss) \in Seq(S)
<1>1. Len(ss) \in Nat
  BY LenProperties
<1>2. CASE ss = <<>>
  BY <1>2 DEF FlattenSeq
<1>3. CASE ss # <<>>
  <2>1. Len(ss) \in Nat \ {0}
    BY <1>3, EmptySeq
  <2>2. PICK f : Flats(f, ss) /\ FlattenSeq(ss) = f[Len(ss)]
    BY <2>1, FlattenIs
  <2> QED
    BY <2>1, <2>2, FlatsType
<1> QED
  BY <1>2, <1>3

LEMMA FlattenNothing == FlattenSeq(<<>>) = <<>>
  BY DEF FlattenSeq

LEMMA FlattenOneMore ==
    ASSUME NEW T, NEW ss \in Seq(T), NEW s \in T, ss # <<>>
    PROVE  FlattenSeq(Append(ss, s)) = FlattenSeq(ss) \o s
<1> DEFINE tt == Append(ss, s)
           n == Len(ss)
<1>1. /\ n \in Nat \ {0} /\ Len(tt) = n + 1 /\ tt[n + 1] = s
      /\ \A i \in 1..n : tt[i] = ss[i]
  BY AppendProperties, EmptySeq
<1>2. PICK g : Flats(g, tt) /\ FlattenSeq(tt) = g[n + 1]
  <2>1. Len(tt) \in Nat \ {0}
    BY <1>1
  <2> HIDE DEF tt
  <2> QED
    BY <1>1, <2>1, FlattenIs
<1>3. PICK f : Flats(f, ss) /\ FlattenSeq(ss) = f[n]
  BY <1>1, FlattenIs
<1>4. \A i \in 1..n : f[i] = g[i]
  <2>1. /\ Len(ss) \in Nat /\ Len(tt) = Len(ss) + 1
        /\ \A i \in 1..Len(ss) : ss[i] = tt[i]
    BY <1>1
  <2> HIDE DEF tt
  <2> QED
    BY <1>2, <1>3, <2>1, FlatsAgree
<1> HIDE DEF tt, n
<1>5. g[n + 1] = g[n] \o s
  <2>1. n + 1 \in 1..Len(tt) /\ n + 1 # 1 /\ (n + 1) - 1 = n
    BY <1>1
  <2>2. g[n + 1] = IF n + 1 = 1 THEN tt[n + 1] ELSE g[(n + 1) - 1] \o tt[n + 1]
    BY <1>2, <2>1 DEF Flats
  <2> QED
    BY <1>1, <2>1, <2>2
<1>6. f[n] = g[n]
  BY <1>1, <1>4
<1> QED
  BY <1>2, <1>3, <1>5, <1>6 DEF tt

LEMMA FlattenAppend ==
    ASSUME NEW S, NEW ss \in Seq(Seq(S)), NEW s \in Seq(S)
    PROVE  FlattenSeq(Append(ss, s)) = FlattenSeq(ss) \o s
<1>1. CASE ss # <<>>
  BY <1>1, FlattenOneMore
<1>2. CASE ss = <<>>
  <2>1. Append(<<>>, s) = <<s>> /\ FlattenSeq(<<s>>) = s
    <3>1. /\ Len(<<s>>) = 1 /\ <<s>>[1] = s /\ Append(<<>>, s) = <<s>>
      OBVIOUS
    <3>2. PICK f : Flats(f, <<s>>) /\ FlattenSeq(<<s>>) = f[1]
      <4> DEFINE tt == <<s>>
      <4>1. Len(tt) \in Nat \ {0} /\ Len(tt) = 1
        BY <3>1
      <4> HIDE DEF tt
      <4>2. \E f : Flats(f, tt) /\ FlattenSeq(tt) = f[1]
        BY <4>1, FlattenIs
      <4> QED
        BY <4>2 DEF tt
    <3> QED
      BY <3>1, <3>2 DEF Flats
  <2> QED
    BY <1>2, <2>1, FlattenNothing, ConcatEmptySeq
<1> QED
  BY <1>1, <1>2

LEMMA ConcatAppend ==
    ASSUME NEW S, NEW a \in Seq(S), NEW b \in Seq(S), NEW e \in S
    PROVE  /\ a \o Append(b, e) = Append(a \o b, e)
           /\ Append(a \o b, e) = (a \o b) \o <<e>>
           /\ (a \o b) \o <<e>> = a \o (b \o <<e>>)
<1>1. <<e>> \in Seq(S) /\ a \o b \in Seq(S)
  BY ConcatProperties
<1>2. (a \o b) \o <<e>> = a \o (b \o <<e>>)
  BY <1>1, ConcatAssociative
<1>3. Append(b, e) = b \o <<e>> /\ Append(a \o b, e) = (a \o b) \o <<e>>
  BY <1>1, AppendIsConcat
<1> QED
  BY <1>2, <1>3

LEMMA FlattenConcat ==
    ASSUME NEW S, NEW ss \in Seq(Seq(S)), NEW tt \in Seq(Seq(S))
    PROVE  FlattenSeq(ss \o tt) = FlattenSeq(ss) \o FlattenSeq(tt)
<1> DEFINE To(n) == SubSeq(tt, 1, n)
           Bad == {n \in 0..Len(tt) :
                     FlattenSeq(ss \o To(n)) # FlattenSeq(ss) \o FlattenSeq(To(n))}
<1>0. Len(tt) \in Nat /\ To(Len(tt)) = tt
  BY LenProperties, SubSeqFull
<1> HIDE DEF To
<1> SUFFICES ASSUME Bad # {} PROVE FALSE
  <2>1. Len(tt) \notin Bad => FlattenSeq(ss \o To(Len(tt))) = FlattenSeq(ss) \o FlattenSeq(To(Len(tt)))
    BY <1>0
  <2> QED
    BY <1>0, <2>1
<1>1. PICK n \in Bad : \A y \in Bad : n <= y
  <2>1. Bad \in SUBSET Nat
    OBVIOUS
  <2> QED
    BY <2>1, Least
<1>1a. n \in 0..Len(tt)
  OBVIOUS
<1>2. n # 0
  <2>1. To(0) = <<>>
    BY SubSeqEmpty DEF To
  <2>2. FlattenSeq(ss) \in Seq(S)
    BY FlattenType
  <2>3. ss \o To(0) = ss /\ FlattenSeq(ss) \o <<>> = FlattenSeq(ss)
    BY <2>1, <2>2, ConcatEmptySeq
  <2> QED
    BY <1>1, <2>1, <2>3, FlattenNothing
<1>3. n \in 1..Len(tt) /\ n - 1 \in 0..Len(tt) /\ n - 1 \notin Bad
  <2>1. n \in 1..Len(tt) /\ n - 1 \in 0..Len(tt) /\ ~(n <= n - 1)
    BY <1>0, <1>1a, <1>2
  <2> HIDE DEF Bad
  <2> QED
    BY <1>1, <2>1
<1>3a. FlattenSeq(ss \o To(n - 1)) = FlattenSeq(ss) \o FlattenSeq(To(n - 1))
  BY <1>3
<1>3b. FlattenSeq(ss \o To(n)) # FlattenSeq(ss) \o FlattenSeq(To(n))
  OBVIOUS
<1> HIDE DEF Bad
<1>4. To(n - 1) \in Seq(Seq(S)) /\ tt[n] \in Seq(S)
  <2>1. \A i \in 1..(n - 1) : tt[i] \in Seq(S)
    BY <1>3, ElementOfSeq
  <2> QED
    BY <2>1, <1>3, SubSeqProperties, ElementOfSeq DEF To
<1>5. To(n) = Append(To(n - 1), tt[n])
  <2>1. To(n) = To(n - 1) \o <<tt[n]>>
    <3>1. 1 \in 1..Len(tt) /\ n \in 1..Len(tt)
      BY <1>0, <1>3
    <3> QED
      BY <3>1, SubSeqRecursiveSecond DEF To
  <2> QED
    BY <2>1, <1>4, AppendIsConcat
<1>6. ss \o To(n) = Append(ss \o To(n - 1), tt[n])
  <2> DEFINE b == To(n - 1)  e == tt[n]  T == Seq(S)
  <2>1. ss \in Seq(T) /\ b \in Seq(T) /\ e \in T
    BY <1>4
  <2> HIDE DEF b, e, T
  <2>2. ss \o Append(b, e) = Append(ss \o b, e)
    BY <2>1, ConcatAppend
  <2> QED
    BY <2>2, <1>5 DEF b, e
<1>7. FlattenSeq(ss \o To(n)) = FlattenSeq(ss \o To(n - 1)) \o tt[n]
  BY <1>4, <1>6, FlattenAppend, ConcatProperties
<1>8. FlattenSeq(To(n)) = FlattenSeq(To(n - 1)) \o tt[n]
  BY <1>4, <1>5, FlattenAppend
<1>10. FlattenSeq(ss) \in Seq(S) /\ FlattenSeq(To(n - 1)) \in Seq(S)
  BY <1>4, FlattenType
<1>11. FlattenSeq(ss \o To(n)) = FlattenSeq(ss) \o FlattenSeq(To(n))
  <2> DEFINE a == FlattenSeq(ss)  b == FlattenSeq(To(n - 1))  c == tt[n]
  <2>1. a \in Seq(S) /\ b \in Seq(S) /\ c \in Seq(S)
    BY <1>4, <1>10
  <2>2. FlattenSeq(ss \o To(n)) = (a \o b) \o c /\ FlattenSeq(To(n)) = b \o c
    BY <1>7, <1>8, <1>3a
  <2> HIDE DEF a, b, c
  <2>3. (a \o b) \o c = a \o (b \o c)
    BY <2>1, ConcatAssociative
  <2> QED
    BY <2>2, <2>3 DEF a
<1> QED
  BY <1>3b, <1>11
LEMMA FlattenOne ==
    ASSUME NEW S, NEW s \in Seq(S)
    PROVE  FlattenSeq(<<s>>) = s
<1>1. Append(<<>>, s) = <<s>> /\ <<>> \in Seq(Seq(S)) /\ <<>> \o s = s
  BY ConcatEmptySeq
<1> QED
  BY <1>1, FlattenAppend, FlattenNothing

LEMMA FlattenTwo ==
    ASSUME NEW S, NEW s \in Seq(S), NEW t \in Seq(S)
    PROVE  FlattenSeq(<<s, t>>) = s \o t
<1>1. Append(<<s>>, t) = <<s, t>> /\ <<s>> \in Seq(Seq(S))
  <2> DEFINE T == Seq(S)
  <2>1. s \in T /\ t \in T
    OBVIOUS
  <2> HIDE DEF T
  <2>2. <<s>> \in Seq(T)
    BY <2>1
  <2>3. Append(<<s>>, t) = <<s, t>>
    <3>1. <<s, t>> \in Seq(T) /\ Len(<<s, t>>) = 2 /\ <<s, t>>[1] = s /\ <<s, t>>[2] = t
      BY <2>1
    <3>2. /\ Append(<<s>>, t) \in Seq(T) /\ Len(Append(<<s>>, t)) = 2
          /\ Append(<<s>>, t)[1] = s /\ Append(<<s>>, t)[2] = t
      BY <2>1, <2>2, AppendProperties
    <3>3. \A i \in 1..2 : Append(<<s>>, t)[i] = <<s, t>>[i]
      <4> TAKE i \in 1..2
      <4>1. i = 1 \/ i = 2
        OBVIOUS
      <4> QED
        BY <4>1, <3>1, <3>2
    <3> HIDE DEF T
    <3> QED
      BY <3>1, <3>2, <3>3, SeqEqual
  <2> QED
    BY <2>2, <2>3 DEF T
<1> QED
  BY <1>1, FlattenAppend, FlattenOne

(* The images of a sequence's members, which the model flattens.            *)
Images(F, a) == [i \in 1..Len(a) |-> F[a[i]]]
Maps(F, D, T) == F \in [D -> T]

LEMMA ImagesType ==
    ASSUME NEW D, NEW T, NEW F, Maps(F, D, T), NEW a \in Seq(D)
    PROVE  /\ Images(F, a) \in Seq(T) /\ Len(Images(F, a)) = Len(a)
           /\ \A i \in 1..Len(a) : Images(F, a)[i] = F[a[i]]
<1>1. Len(a) \in Nat /\ \A i \in 1..Len(a) : a[i] \in D
  BY LenProperties, ElementOfSeq
<1>2. Images(F, a) \in [1..Len(a) -> T]
  BY <1>1 DEF Images, Maps
<1>3. Images(F, a) \in Seq(T)
  BY <1>1, <1>2, SeqDef
<1>4. Len(Images(F, a)) = Len(a)
  BY <1>1 DEF Images
<1> QED
  BY <1>3, <1>4 DEF Images

LEMMA ImagesConcat ==
    ASSUME NEW D, NEW T, NEW F, Maps(F, D, T), NEW a \in Seq(D), NEW b \in Seq(D)
    PROVE  Images(F, a \o b) = Images(F, a) \o Images(F, b)
<1> DEFINE na == Len(a)  nb == Len(b)
           x == Images(F, a)  y == Images(F, b)  z == Images(F, a \o b)
<1>1. /\ na \in Nat /\ nb \in Nat /\ Len(a \o b) = na + nb /\ a \o b \in Seq(D)
      /\ \A i \in 1..(na + nb) : (a \o b)[i] = IF i <= na THEN a[i] ELSE b[i - na]
  BY ConcatProperties, LenProperties
<1>2. /\ x \in Seq(T) /\ Len(x) = na /\ \A i \in 1..na : x[i] = F[a[i]]
      /\ y \in Seq(T) /\ Len(y) = nb /\ \A i \in 1..nb : y[i] = F[b[i]]
      /\ z \in Seq(T) /\ Len(z) = na + nb
      /\ \A i \in 1..(na + nb) : z[i] = F[(a \o b)[i]]
  <2>1. /\ x \in Seq(T) /\ Len(x) = Len(a) /\ \A i \in 1..Len(a) : x[i] = F[a[i]]
    BY ImagesType
  <2>2. /\ y \in Seq(T) /\ Len(y) = Len(b) /\ \A i \in 1..Len(b) : y[i] = F[b[i]]
    BY ImagesType
  <2>3. /\ z \in Seq(T) /\ Len(z) = Len(a \o b)
        /\ \A i \in 1..Len(a \o b) : z[i] = F[(a \o b)[i]]
    <3> DEFINE c == a \o b
    <3>1. c \in Seq(D)
      BY <1>1
    <3> HIDE DEF c
    <3>2. /\ Images(F, c) \in Seq(T) /\ Len(Images(F, c)) = Len(c)
          /\ \A i \in 1..Len(c) : Images(F, c)[i] = F[c[i]]
      BY <3>1, ImagesType
    <3> QED
      BY <3>2 DEF c
  <2> HIDE DEF x, y, z
  <2> QED
    BY <1>1, <2>1, <2>2, <2>3
<1> HIDE DEF na, nb, x, y, z
<1>3. /\ x \o y \in Seq(T) /\ Len(x \o y) = na + nb
      /\ \A i \in 1..(na + nb) : (x \o y)[i] = IF i <= na THEN x[i] ELSE y[i - na]
  BY <1>2, ConcatProperties
<1>4. ASSUME NEW i \in 1..(na + nb) PROVE z[i] = (x \o y)[i]
  <2>1. z[i] = F[(a \o b)[i]]
    BY <1>2
  <2>2. CASE i <= na
    <3>1. i \in 1..na /\ (a \o b)[i] = a[i] /\ (x \o y)[i] = x[i]
      BY <1>1, <1>3, <2>2
    <3> QED
      BY <1>2, <2>1, <3>1
  <2>3. CASE ~(i <= na)
    <3>1. /\ i - na \in 1..nb /\ (a \o b)[i] = b[i - na]
          /\ (x \o y)[i] = y[i - na]
      BY <1>1, <1>3, <2>3
    <3> QED
      BY <1>2, <2>1, <3>1
  <2> QED
    BY <2>2, <2>3
<1>5. z = x \o y
  BY <1>2, <1>3, <1>4, SeqEqual
<1> QED
  BY <1>5 DEF x, y, z

LEMMA ImagesFlatten ==
    ASSUME NEW D, NEW S, NEW F, Maps(F, D, Seq(S)), NEW a \in Seq(D), NEW b \in Seq(D)
    PROVE  /\ FlattenSeq(Images(F, a)) \in Seq(S)
           /\ FlattenSeq(Images(F, a \o b))
                = FlattenSeq(Images(F, a)) \o FlattenSeq(Images(F, b))
<1> DEFINE T == Seq(S)  x == Images(F, a)  y == Images(F, b)
<1>1. Maps(F, D, T)
  OBVIOUS
<1> HIDE DEF T
<1>2. x \in Seq(T) /\ y \in Seq(T) /\ Images(F, a \o b) = x \o y
  <2>1. x \in Seq(T)
    BY <1>1, ImagesType
  <2>2. y \in Seq(T)
    BY <1>1, ImagesType
  <2>3. Images(F, a \o b) = x \o y
    BY <1>1, ImagesConcat
  <2> QED
    BY <2>1, <2>2, <2>3
<1>3. x \in Seq(Seq(S)) /\ y \in Seq(Seq(S))
  BY <1>2 DEF T
<1> HIDE DEF x, y
<1>4. FlattenSeq(x) \in Seq(S) /\ FlattenSeq(x \o y) = FlattenSeq(x) \o FlattenSeq(y)
  BY <1>3, FlattenType, FlattenConcat
<1> QED
  BY <1>2, <1>4 DEF x, y

LEMMA ImagesFew ==
    ASSUME NEW D, NEW S, NEW F, Maps(F, D, Seq(S)), NEW e \in D
    PROVE  /\ FlattenSeq(Images(F, <<>>)) = <<>>
           /\ FlattenSeq(Images(F, <<e>>)) = F[e]
<1>1. Images(F, <<>>) = <<>>
  BY DEF Images
<1>2. Images(F, <<e>>) = <<F[e]>>
  <2>1. Len(<<e>>) = 1 /\ \A i \in 1..1 : <<e>>[i] = e
    OBVIOUS
  <2> QED
    BY <2>1 DEF Images
<1>3. F[e] \in Seq(S)
  BY DEF Maps
<1> QED
  BY <1>1, <1>2, <1>3, FlattenOne, FlattenNothing

LEMMA ImagesTwo ==
    ASSUME NEW D, NEW S, NEW F, Maps(F, D, Seq(S)), NEW e \in D, NEW d \in D
    PROVE  FlattenSeq(Images(F, <<e, d>>)) = F[e] \o F[d]
<1>1. Images(F, <<e, d>>) = <<F[e], F[d]>>
  <2>1. /\ Len(<<e, d>>) = 2 /\ <<e, d>>[1] = e /\ <<e, d>>[2] = d
        /\ \A i \in 1..2 : i = 1 \/ i = 2
    OBVIOUS
  <2> QED
    BY <2>1 DEF Images
<1>2. F[e] \in Seq(S) /\ F[d] \in Seq(S)
  BY DEF Maps
<1> QED
  BY <1>1, <1>2, FlattenTwo

-----------------------------------------------------------------------------
(* Emissions.                                                              *)

Words == {"task_result", "evidence", "failure", "status", "clarification",
          "invalid", "raw view", "fence_drift", "parse", "schema", "reply",
          "unexpected_type", "unterminated", "dangling_evidence_ref",
          "missing_expected"}
Emission == [kind : {"event", "violation"}, what : Words, extracted : BOOLEAN]

IsFenced(e) == e.kind = "event" /\ ~e.extracted /\ e.what # "raw view"
FencedOf(e) == IF IsFenced(e) THEN <<e.what>> ELSE <<>>
FencedFn == [e \in Emission |-> FencedOf(e)]

(* What a fenced block is turned into: no extraction, and no raw view.      *)
Said == {e \in Emission : e.kind = "event" => IsFenced(e)}

LEMMA FencedOfType ==
    ASSUME NEW e \in Emission
    PROVE  FencedOf(e) \in Seq(Words)
<1>1. e.what \in Words
  BY DEF Emission
<1>2. <<e.what>> \in Seq(Words) /\ <<>> \in Seq(Words)
  BY <1>1
<1> QED
  BY <1>2 DEF FencedOf

LEMMA FencedIs ==
    ASSUME NEW a \in Seq(Emission)
    PROVE  Fenced(a) = FlattenSeq(Images(FencedFn, a)) /\ Maps(FencedFn, Emission, Seq(Words))
<1>1. DOMAIN a = 1..Len(a) /\ \A i \in 1..Len(a) : a[i] \in Emission
  BY LenProperties, ElementOfSeq
<1>2. [i \in DOMAIN a |-> IF /\ a[i].kind = "event" /\ ~a[i].extracted
                             /\ a[i].what # "raw view"
                          THEN <<a[i].what>> ELSE <<>>]
        = Images(FencedFn, a)
  BY <1>1 DEF FencedFn, FencedOf, IsFenced, Images
<1>3. Maps(FencedFn, Emission, Seq(Words))
  BY FencedOfType DEF FencedFn, Maps
<1> QED
  BY <1>2, <1>3 DEF Fenced

LEMMA FencedConcat ==
    ASSUME NEW a \in Seq(Emission), NEW b \in Seq(Emission)
    PROVE  /\ Fenced(a) \in Seq(Words)
           /\ Fenced(a \o b) = Fenced(a) \o Fenced(b)
<1>1. a \o b \in Seq(Emission)
  BY ConcatProperties
<1>2. /\ Fenced(a) = FlattenSeq(Images(FencedFn, a))
      /\ Fenced(b) = FlattenSeq(Images(FencedFn, b))
      /\ Fenced(a \o b) = FlattenSeq(Images(FencedFn, a \o b))
      /\ Maps(FencedFn, Emission, Seq(Words))
  BY <1>1, FencedIs
<1>3. /\ FlattenSeq(Images(FencedFn, a)) \in Seq(Words)
      /\ FlattenSeq(Images(FencedFn, a \o b))
           = FlattenSeq(Images(FencedFn, a)) \o FlattenSeq(Images(FencedFn, b))
  <2>1. Maps(FencedFn, Emission, Seq(Words))
    BY <1>2
  <2>2. FlattenSeq(Images(FencedFn, a)) \in Seq(Words)
    BY <2>1, ImagesFlatten
  <2>3. FlattenSeq(Images(FencedFn, a \o b))
          = FlattenSeq(Images(FencedFn, a)) \o FlattenSeq(Images(FencedFn, b))
    BY <2>1, ImagesFlatten
  <2> QED
    BY <2>2, <2>3
<1> QED
  BY <1>2, <1>3

LEMMA FencedOne ==
    ASSUME NEW e \in Emission
    PROVE  Fenced(<<e>>) = FencedOf(e) /\ Fenced(<<>>) = <<>>
<1>1. <<e>> \in Seq(Emission) /\ <<>> \in Seq(Emission)
  OBVIOUS
<1>2. FencedFn[e] = FencedOf(e)
  BY DEF FencedFn
<1> QED
  BY <1>1, <1>2, FencedIs, ImagesFew

LEMMA FencedNothing == Fenced(<<>>) = <<>>
<1>1. [kind |-> "event", what |-> "status", extracted |-> FALSE] \in Emission
  BY DEF Emission, Words
<1> QED
  BY <1>1, FencedOne

LEMMA FencedAppend ==
    ASSUME NEW a \in Seq(Emission), NEW e \in Emission
    PROVE  Fenced(Append(a, e)) = Fenced(a) \o FencedOf(e)
<1>1. <<e>> \in Seq(Emission) /\ Append(a, e) = a \o <<e>>
  BY AppendIsConcat
<1> QED
  BY <1>1, FencedConcat, FencedOne

(* What a flattened sequence holds is what its members hold.                *)
LEMMA ToSetConcat ==
    ASSUME NEW S, NEW a \in Seq(S), NEW b \in Seq(S)
    PROVE  ToSet(a \o b) = ToSet(a) \cup ToSet(b)
<1>1. ToSet(a) = {a[i] : i \in 1..Len(a)} /\ ToSet(b) = {b[i] : i \in 1..Len(b)}
      /\ ToSet(a \o b) = {(a \o b)[i] : i \in 1..(Len(a) + Len(b))}
  BY LenProperties, ConcatProperties DEF ToSet
<1>2. Len(a) \in Nat /\ Len(b) \in Nat
      /\ \A i \in 1..(Len(a) + Len(b)) :
           (a \o b)[i] = IF i <= Len(a) THEN a[i] ELSE b[i - Len(a)]
  BY LenProperties, ConcatProperties
<1>3. ASSUME NEW i \in 1..Len(a) PROVE a[i] \in ToSet(a \o b)
  <2>1. i \in 1..(Len(a) + Len(b)) /\ i <= Len(a)
    BY <1>2
  <2> QED
    BY <1>1, <1>2, <2>1
<1>4. ASSUME NEW i \in 1..Len(b) PROVE b[i] \in ToSet(a \o b)
  <2>1. /\ Len(a) + i \in 1..(Len(a) + Len(b)) /\ ~(Len(a) + i <= Len(a))
        /\ (Len(a) + i) - Len(a) = i
    BY <1>2
  <2> QED
    BY <1>1, <1>2, <2>1
<1>5. ASSUME NEW i \in 1..(Len(a) + Len(b))
      PROVE  (a \o b)[i] \in ToSet(a) \cup ToSet(b)
  <2>1. i <= Len(a) => i \in 1..Len(a)
    BY <1>2
  <2>2. ~(i <= Len(a)) => i - Len(a) \in 1..Len(b)
    BY <1>2
  <2> QED
    BY <1>1, <1>2, <2>1, <2>2
<1> QED
  BY <1>1, <1>3, <1>4, <1>5

LEMMA ToSetFenced ==
    ASSUME NEW a \in Seq(Emission)
    PROVE  ToSet(Fenced(a)) = {a[i].what : i \in {j \in DOMAIN a : IsFenced(a[j])}}
<1> DEFINE To(n) == SubSeq(a, 1, n)
           Holds(s) == {s[i].what : i \in {j \in DOMAIN s : IsFenced(s[j])}}
           Bad == {n \in 0..Len(a) : ToSet(Fenced(To(n))) # Holds(To(n))}
<1>0. Len(a) \in Nat /\ To(Len(a)) = a
  BY LenProperties, SubSeqFull
<1> HIDE DEF To, Holds
<1> SUFFICES ASSUME Bad # {} PROVE FALSE
  <2>1. Len(a) \notin Bad => ToSet(Fenced(To(Len(a)))) = Holds(To(Len(a)))
    BY <1>0
  <2> QED
    BY <1>0, <2>1 DEF Holds
<1>1. PICK n \in Bad : \A y \in Bad : n <= y
  <2>1. Bad \in SUBSET Nat
    OBVIOUS
  <2> QED
    BY <2>1, Least
<1>2. n \in 0..Len(a) /\ ToSet(Fenced(To(n))) # Holds(To(n))
  OBVIOUS
<1>3. n # 0
  <2>1. To(0) = <<>>
    BY SubSeqEmpty DEF To
  <2>2. Holds(<<>>) = {} /\ ToSet(<<>>) = {}
    BY DEF Holds, ToSet
  <2> QED
    BY <1>2, <2>1, <2>2, FencedNothing
<1>4. n \in 1..Len(a) /\ n - 1 \in 0..Len(a) /\ ~(n <= n - 1) /\ 1 \in 1..Len(a)
  BY <1>0, <1>2, <1>3
<1>5. ToSet(Fenced(To(n - 1))) = Holds(To(n - 1))
  BY <1>1, <1>4
<1> HIDE DEF Bad
<1>6. To(n - 1) \in Seq(Emission) /\ a[n] \in Emission /\ Len(To(n - 1)) = n - 1
  <2>1. \A i \in 1..(n - 1) : a[i] \in Emission
    BY <1>4, ElementOfSeq
  <2> QED
    BY <2>1, <1>4, SubSeqProperties, ElementOfSeq DEF To
<1>7. To(n) = Append(To(n - 1), a[n])
  <2>1. To(n) = To(n - 1) \o <<a[n]>>
    BY <1>4, SubSeqRecursiveSecond DEF To
  <2> QED
    BY <2>1, <1>6, AppendIsConcat
<1>8. ToSet(Fenced(To(n))) = ToSet(Fenced(To(n - 1))) \cup ToSet(FencedOf(a[n]))
  <2>1. Fenced(To(n)) = Fenced(To(n - 1)) \o FencedOf(a[n])
    BY <1>6, <1>7, FencedAppend
  <2>2. Fenced(To(n - 1)) \in Seq(Words) /\ FencedOf(a[n]) \in Seq(Words)
    BY <1>6, FencedConcat, FencedOfType
  <2> QED
    BY <2>1, <2>2, ToSetConcat
<1>9. ToSet(FencedOf(a[n])) = IF IsFenced(a[n]) THEN {a[n].what} ELSE {}
  BY DEF FencedOf, ToSet
<1>10. Holds(To(n)) = Holds(To(n - 1)) \cup (IF IsFenced(a[n]) THEN {a[n].what} ELSE {})
  <2> DEFINE s == To(n - 1)  t == To(n)  k == n - 1
  <2>1. /\ k \in Nat /\ DOMAIN s = 1..k /\ DOMAIN t = 1..(k + 1) /\ t[k + 1] = a[n]
        /\ \A i \in 1..k : t[i] = s[i]
    BY <1>4, <1>6, <1>7, AppendProperties, LenProperties
  <2> HIDE DEF s, t, k
  <2>2. 1..(k + 1) = (1..k) \cup {k + 1}
    BY <2>1
  <2>3. Holds(t) = Holds(s) \cup (IF IsFenced(a[n]) THEN {a[n].what} ELSE {})
    BY <2>1, <2>2 DEF Holds
  <2> QED
    BY <2>3 DEF s, t
<1> QED
  BY <1>2, <1>5, <1>8, <1>9, <1>10

LEMMA SaidTypes ==
    ASSUME NEW a \in Seq(Said)
    PROVE  ToSet(Fenced(a)) = TypesIn(a) /\ a \in Seq(Emission)
<1>1. a \in Seq(Emission)
  BY SeqMonotonic DEF Said
<1>2. \A i \in DOMAIN a : a[i].kind = "event" <=> IsFenced(a[i])
  <2>1. DOMAIN a = 1..Len(a) /\ \A i \in 1..Len(a) : a[i] \in Said
    BY LenProperties, ElementOfSeq
  <2>2. \A e \in Said : e.kind = "event" <=> IsFenced(e)
    BY DEF Said, IsFenced
  <2> QED
    BY <2>1, <2>2
<1> QED
  BY <1>1, <1>2, ToSetFenced DEF TypesIn

LEMMA ReasonsConcat ==
    ASSUME NEW a \in Seq(Emission), NEW b \in Seq(Emission)
    PROVE  ReasonsIn(a \o b) = ReasonsIn(a) \cup ReasonsIn(b)
<1>1. ASSUME NEW s \in Seq(Emission), NEW w
      PROVE  w \in ReasonsIn(s) <=> \E e \in ToSet(s) : e.kind = "violation" /\ e.what = w
  BY DEF ReasonsIn, ToSet
<1>2. a \o b \in Seq(Emission) /\ ToSet(a \o b) = ToSet(a) \cup ToSet(b)
  BY ConcatProperties, ToSetConcat
<1>3. ASSUME NEW w
      PROVE  w \in ReasonsIn(a \o b) <=> w \in ReasonsIn(a) \cup ReasonsIn(b)
  BY <1>1, <1>2
<1> QED
  BY <1>3

-----------------------------------------------------------------------------
(* What a block turns into.                                                *)

Items == {"status", "task_result", "evidence", "failure", "invalid"}
NotJson == <<"not JSON">>
Shapes == {<<"status">>, <<"task_result">>, <<"evidence">>, <<"failure">>,
           <<"task_result", "evidence">>, <<"invalid">>, <<>>}

(* The events of the values a block holds.                                  *)
AcceptedOf(x) == IF x = "invalid" THEN <<>> ELSE <<x>>
AcceptedFn == [x \in Items |-> AcceptedOf(x)]
ItemFn == [x \in Items |-> EmissionsOfItem(x)]
Valid(body) == IF Parsed(body) = NotJson THEN <<>> ELSE Accepted(Parsed(body))

LEMMA ItemsOfShapes ==
    ASSUME NEW v \in DOMAIN ItemsOf
    PROVE  ItemsOf[v] \in Shapes /\ ItemsOf[v] # NotJson
<1>1. DOMAIN ItemsOf = {"status", "result", "evidence", "failure", "both", "bad", "empty"}
  BY DEF ItemsOf
<1>2. /\ ItemsOf["status"] = <<"status">> /\ ItemsOf["result"] = <<"task_result">>
      /\ ItemsOf["evidence"] = <<"evidence">> /\ ItemsOf["failure"] = <<"failure">>
      /\ ItemsOf["both"] = <<"task_result", "evidence">>
      /\ ItemsOf["bad"] = <<"invalid">> /\ ItemsOf["empty"] = <<>>
  BY DEF ItemsOf
<1>3. \A p \in Shapes : p # NotJson
  <2>1. Len(NotJson) = 1 /\ NotJson[1] = "not JSON"
    BY DEF NotJson
  <2>2. ASSUME NEW p \in Shapes PROVE Len(p) # 1 \/ p[1] # "not JSON"
    <3>1. \A x \in Items : <<x>>[1] # "not JSON"
      BY DEF Items
    <3>2. Len(<<"task_result", "evidence">>) = 2 /\ Len(<<>>) = 0
      OBVIOUS
    <3>3. \/ \E x \in Items : p = <<x>>
          \/ p = <<"task_result", "evidence">> \/ p = <<>>
      BY DEF Shapes, Items
    <3>4. CASE \E x \in Items : p = <<x>>
      BY <3>1, <3>4
    <3>5. CASE p = <<"task_result", "evidence">>
      BY <3>2, <3>5
    <3>6. CASE p = <<>>
      BY <3>2, <3>6
    <3> QED
      BY <3>3, <3>4, <3>5, <3>6
  <2> QED
    BY <2>1, <2>2
<1>4. ItemsOf[v] \in Shapes
  BY <1>1, <1>2 DEF Shapes
<1> QED
  BY <1>3, <1>4

LEMMA ShapesSeq ==
    ASSUME NEW p \in Shapes
    PROVE  p \in Seq(Items)
<1>1. /\ <<"status">> \in Seq(Items) /\ <<"task_result">> \in Seq(Items)
      /\ <<"evidence">> \in Seq(Items) /\ <<"failure">> \in Seq(Items)
      /\ <<"invalid">> \in Seq(Items)
  BY DEF Items
<1>2. <<"task_result", "evidence">> \in Seq(Items)
  BY DEF Items
<1>3. <<>> \in Seq(Items)
  OBVIOUS
<1> QED
  BY <1>1, <1>2, <1>3 DEF Shapes

LEMMA ParsedShapes ==
    ASSUME NEW body
    PROVE  Parsed(body) \in Shapes \cup {NotJson}
  BY ItemsOfShapes DEF Parsed, NotJson

LEMMA ItemSays ==
    ASSUME NEW x \in Items
    PROVE  /\ EmissionsOfItem(x) \in Seq(Said)
           /\ Fenced(EmissionsOfItem(x)) = AcceptedOf(x)
<1> DEFINE e == Event(x, FALSE)
<1>1. /\ Violation("schema") \in Said /\ Violation("unexpected_type") \in Said
      /\ FencedOf(Violation("schema")) = <<>>
      /\ FencedOf(Violation("unexpected_type")) = <<>>
  BY DEF Violation, Said, Emission, Words, IsFenced, FencedOf
<1>2. e \in Said /\ FencedOf(e) = <<x>>
  BY DEF Event, Said, Emission, Words, IsFenced, FencedOf, Items
<1>3. \A s \in Said : s \in Emission
  BY DEF Said
<1> HIDE DEF e
<1>4. CASE x = "invalid"
  <2>1. EmissionsOfItem(x) = <<Violation("schema")>>
    BY <1>4 DEF EmissionsOfItem
  <2> QED
    BY <2>1, <1>1, <1>3, <1>4, FencedOne DEF AcceptedOf
<1>5. CASE x # "invalid" /\ EmissionsOfItem(x) = <<e>>
  BY <1>2, <1>3, <1>5, FencedOne DEF AcceptedOf
<1>6. CASE x # "invalid" /\ EmissionsOfItem(x) = <<Violation("unexpected_type"), e>>
  <2> DEFINE w == Violation("unexpected_type")
  <2>1. w \in Said /\ FencedOf(w) = <<>>
    BY <1>1
  <2> HIDE DEF w
  <2>2. <<w, e>> = Append(<<w>>, e) /\ <<w>> \in Seq(Emission) /\ <<w, e>> \in Seq(Said)
    BY <1>2, <1>3, <2>1
  <2>3. Fenced(<<w, e>>) = <<>> \o <<x>>
    BY <1>2, <1>3, <2>1, <2>2, FencedAppend, FencedOne
  <2>4. <<>> \o <<x>> = <<x>>
    OBVIOUS
  <2> QED
    BY <1>6, <2>2, <2>3, <2>4 DEF w, AcceptedOf
<1>7. x = "invalid" \/ EmissionsOfItem(x) \in {<<e>>, <<Violation("unexpected_type"), e>>}
  BY DEF EmissionsOfItem, e
<1> QED
  BY <1>4, <1>5, <1>6, <1>7

(* The emissions of a value's items, and the events among them.             *)
LEMMA ShapeSays ==
    ASSUME NEW p \in Shapes
    PROVE  /\ FlattenSeq(Images(ItemFn, p)) \in Seq(Said)
           /\ Fenced(FlattenSeq(Images(ItemFn, p))) = Accepted(p)
           /\ Accepted(p) \in Seq(Words)
<1>1. Maps(ItemFn, Items, Seq(Said)) /\ Maps(AcceptedFn, Items, Seq(Words))
  <2>1. \A x \in Items : AcceptedOf(x) \in Seq(Words)
    <3> TAKE x \in Items
    <3>1. x \in Words
      BY DEF Items, Words
    <3>2. <<x>> \in Seq(Words) /\ <<>> \in Seq(Words)
      BY <3>1
    <3> QED
      BY <3>2 DEF AcceptedOf
  <2> QED
    BY <2>1, ItemSays DEF Maps, ItemFn, AcceptedFn
<1>2. p \in Seq(Items)
  BY ShapesSeq
<1>3. Accepted(p) = FlattenSeq(Images(AcceptedFn, p))
  <2>1. DOMAIN p = 1..Len(p) /\ \A i \in 1..Len(p) : p[i] \in Items
    BY <1>2, LenProperties, ElementOfSeq
  <2>2. [i \in DOMAIN p |-> IF p[i] = "invalid" THEN <<>> ELSE <<p[i]>>]
          = Images(AcceptedFn, p)
    BY <2>1 DEF AcceptedFn, AcceptedOf, Images
  <2> QED
    BY <2>2 DEF Accepted
<1>4. FlattenSeq(Images(ItemFn, p)) \in Seq(Said)
  BY <1>1, <1>2, ImagesFlatten
<1>5. FlattenSeq(Images(AcceptedFn, p)) \in Seq(Words)
  BY <1>1, <1>2, ImagesFlatten
<1>6. \A x \in Items : ItemFn[x] = EmissionsOfItem(x) /\ AcceptedFn[x] = AcceptedOf(x)
  BY DEF ItemFn, AcceptedFn
<1>7. p = <<>> \/ (\E x \in Items : p = <<x>>) \/ (\E x, y \in Items : p = <<x, y>>)
  BY DEF Shapes, Items
<1>8. CASE p = <<>>
  <2>1. "status" \in Items
    BY DEF Items
  <2>2. FlattenSeq(Images(ItemFn, <<>>)) = <<>> /\ FlattenSeq(Images(AcceptedFn, <<>>)) = <<>>
    BY <1>1, <2>1, ImagesFew
  <2> QED
    BY <1>3, <1>4, <1>5, <1>8, <2>2, FencedNothing
<1>9. ASSUME NEW x \in Items, p = <<x>>
      PROVE  Fenced(FlattenSeq(Images(ItemFn, p))) = Accepted(p)
  <2>1. FlattenSeq(Images(ItemFn, <<x>>)) = ItemFn[x]
    BY <1>1, ImagesFew
  <2>2. FlattenSeq(Images(AcceptedFn, <<x>>)) = AcceptedFn[x]
    BY <1>1, ImagesFew
  <2> QED
    BY <1>3, <1>6, <1>9, <2>1, <2>2, ItemSays
<1>10. ASSUME NEW x \in Items, NEW y \in Items, p = <<x, y>>
       PROVE  Fenced(FlattenSeq(Images(ItemFn, p))) = Accepted(p)
  <2>1. FlattenSeq(Images(ItemFn, <<x, y>>)) = ItemFn[x] \o ItemFn[y]
    BY <1>1, ImagesTwo
  <2>2. FlattenSeq(Images(AcceptedFn, <<x, y>>)) = AcceptedFn[x] \o AcceptedFn[y]
    BY <1>1, ImagesTwo
  <2>3. EmissionsOfItem(x) \in Seq(Emission) /\ EmissionsOfItem(y) \in Seq(Emission)
    BY ItemSays, SaidTypes
  <2> QED
    BY <1>3, <1>6, <1>10, <2>1, <2>2, <2>3, ItemSays, FencedConcat
<1> QED
  BY <1>3, <1>4, <1>5, <1>7, <1>8, <1>9, <1>10

Drift(b) == IF b.drift THEN <<Violation("fence_drift")>> ELSE <<>>
Content(b) ==
    IF Parsed(b.body) = NotJson THEN <<Violation("parse")>>
    ELSE IF Parsed(b.body) = <<>> THEN <<Violation("schema")>>
    ELSE FlattenSeq(Images(ItemFn, Parsed(b.body)))

LEMMA BlockIs ==
    ASSUME NEW b
    PROVE  EmissionsOfBlock(b) = Drift(b) \o Content(b)
<1> DEFINE p == Parsed(b.body)
<1>1. p \in Shapes => [i \in DOMAIN p |-> EmissionsOfItem(p[i])] = Images(ItemFn, p)
  <2> HAVE p \in Shapes
  <2> HIDE DEF p
  <2>1. p \in Seq(Items)
    BY ShapesSeq
  <2>2. DOMAIN p = 1..Len(p) /\ \A i \in 1..Len(p) : p[i] \in Items
    BY <2>1, LenProperties, ElementOfSeq
  <2> QED
    BY <2>2 DEF ItemFn, Images
<1>2. p \in Shapes \/ p = NotJson
  BY ParsedShapes
<1>3. <<>> # NotJson
  BY DEF NotJson
<1> QED
  BY <1>1, <1>2, <1>3 DEF EmissionsOfBlock, Drift, Content, NotJson

LEMMA BlockSays ==
    ASSUME NEW b
    PROVE  /\ EmissionsOfBlock(b) \in Seq(Said)
           /\ Fenced(EmissionsOfBlock(b)) = Valid(b.body)
           /\ Valid(b.body) \in Seq(Words)
           /\ b.drift => "fence_drift" \in ReasonsIn(EmissionsOfBlock(b))
           /\ Parsed(b.body) = NotJson => "parse" \in ReasonsIn(EmissionsOfBlock(b))
<1>1. \A w \in Words : /\ Violation(w) \in Said /\ Violation(w) \in Emission
                       /\ FencedOf(Violation(w)) = <<>>
                       /\ ReasonsIn(<<Violation(w)>>) = {w}
  <2> TAKE w \in Words
  <2>1. /\ Violation(w) \in Said /\ Violation(w) \in Emission
        /\ FencedOf(Violation(w)) = <<>>
    BY DEF Violation, Said, Emission, IsFenced, FencedOf
  <2>2. ReasonsIn(<<Violation(w)>>) = {w}
    <3> DEFINE s == <<Violation(w)>>
    <3>1. DOMAIN s = {1} /\ s[1] = Violation(w)
      OBVIOUS
    <3>2. Violation(w).kind = "violation" /\ Violation(w).what = w
      BY DEF Violation
    <3> HIDE DEF s
    <3>3. ReasonsIn(s) = {w}
      BY <3>1, <3>2 DEF ReasonsIn
    <3> QED
      BY <3>3 DEF s
  <2> QED
    BY <2>1, <2>2
<1>2. "fence_drift" \in Words /\ "parse" \in Words /\ "schema" \in Words
  BY DEF Words
<1>3. /\ Drift(b) \in Seq(Said) /\ Fenced(Drift(b)) = <<>>
      /\ b.drift => "fence_drift" \in ReasonsIn(Drift(b))
  <2>1. <<Violation("fence_drift")>> \in Seq(Said) /\ <<>> \in Seq(Said)
    <3>1. <<Violation("fence_drift")>> \in Seq(Said)
      <4> DEFINE w == Violation("fence_drift")
      <4>1. w \in Said
        BY <1>1, <1>2
      <4> HIDE DEF w
      <4>2. <<w>> \in Seq(Said)
        BY <4>1
      <4> QED
        BY <4>2 DEF w
    <3>2. <<>> \in Seq(Said)
      OBVIOUS
    <3> QED
      BY <3>1, <3>2
  <2>2. Fenced(<<Violation("fence_drift")>>) = <<>> /\ Fenced(<<>>) = <<>>
    BY <1>1, <1>2, FencedOne
  <2>3. "fence_drift" \in ReasonsIn(<<Violation("fence_drift")>>)
    BY <1>1, <1>2
  <2> QED
    BY <2>1, <2>2, <2>3 DEF Drift
<1>4. /\ Content(b) \in Seq(Said) /\ Fenced(Content(b)) = Valid(b.body)
      /\ Valid(b.body) \in Seq(Words)
      /\ Parsed(b.body) = NotJson => "parse" \in ReasonsIn(Content(b))
  <2>1. CASE Parsed(b.body) = NotJson
    <3>1. Content(b) = <<Violation("parse")>> /\ Valid(b.body) = <<>>
      BY <2>1 DEF Content, Valid
    <3>2. <<Violation("parse")>> \in Seq(Said) /\ Fenced(<<Violation("parse")>>) = <<>>
      BY <1>1, <1>2, FencedOne
    <3> QED
      BY <1>1, <1>2, <3>1, <3>2
  <2>2. CASE Parsed(b.body) = <<>> /\ Parsed(b.body) # NotJson
    <3>1. <<>> \in Shapes
      BY DEF Shapes
    <3>2. Accepted(<<>>) = <<>>
      <4>1. Images(ItemFn, <<>>) = <<>>
        BY DEF Images
      <4> QED
        BY <3>1, <4>1, ShapeSays, FlattenNothing, FencedNothing
    <3>3. Content(b) = <<Violation("schema")>> /\ Valid(b.body) = <<>>
      BY <2>2, <3>2 DEF Content, Valid
    <3>4. <<Violation("schema")>> \in Seq(Said) /\ Fenced(<<Violation("schema")>>) = <<>>
      BY <1>1, <1>2, FencedOne
    <3> QED
      BY <2>2, <3>3, <3>4
  <2>3. CASE Parsed(b.body) # <<>> /\ Parsed(b.body) # NotJson
    <3>1. Parsed(b.body) \in Shapes
      BY <2>3, ParsedShapes
    <3>2. /\ Content(b) = FlattenSeq(Images(ItemFn, Parsed(b.body)))
          /\ Valid(b.body) = Accepted(Parsed(b.body))
      BY <2>3 DEF Content, Valid
    <3> QED
      BY <2>3, <3>1, <3>2, ShapeSays
  <2> QED
    BY <2>1, <2>2, <2>3
<1> DEFINE d == Drift(b)  c == Content(b)
<1>5. d \in Seq(Emission) /\ c \in Seq(Emission) /\ d \o c \in Seq(Said)
  BY <1>3, <1>4, SaidTypes, ConcatProperties
<1> HIDE DEF d, c
<1>6. Fenced(d \o c) = Fenced(d) \o Fenced(c)
      /\ ReasonsIn(d \o c) = ReasonsIn(d) \cup ReasonsIn(c)
  BY <1>5, FencedConcat, ReasonsConcat
<1>7. <<>> \o Valid(b.body) = Valid(b.body)
  BY <1>4, ConcatEmptySeq
<1> QED
  BY <1>3, <1>4, <1>5, <1>6, <1>7, BlockIs DEF d, c

(* The emissions of blocks, one after another.                              *)
Text == Values \cup {Fence, Tag, Newline, "prose"}
Bodies == Seq(Seq(Text))
Block == [body : Bodies, drift : BOOLEAN]
BlockFn == [b \in Block |-> EmissionsOfBlock(b)]

LEMMA EmissionsAre ==
    ASSUME NEW bs \in Seq(Block)
    PROVE  /\ EmissionsOf(bs) = FlattenSeq(Images(BlockFn, bs))
           /\ Maps(BlockFn, Block, Seq(Said))
<1>1. DOMAIN bs = 1..Len(bs) /\ \A i \in 1..Len(bs) : bs[i] \in Block
  BY LenProperties, ElementOfSeq
<1>2. [i \in DOMAIN bs |-> EmissionsOfBlock(bs[i])] = Images(BlockFn, bs)
  BY <1>1 DEF BlockFn, Images
<1>3. \A b \in Block : EmissionsOfBlock(b) \in Seq(Said)
  BY BlockSays
<1>4. Maps(BlockFn, Block, Seq(Said))
  BY <1>3 DEF BlockFn, Maps
<1> QED
  BY <1>2, <1>4 DEF EmissionsOf

LEMMA EmissionsConcat ==
    ASSUME NEW bs \in Seq(Block), NEW cs \in Seq(Block)
    PROVE  /\ EmissionsOf(bs) \in Seq(Said)
           /\ EmissionsOf(bs \o cs) = EmissionsOf(bs) \o EmissionsOf(cs)
<1>1. bs \o cs \in Seq(Block)
  BY ConcatProperties
<1>2. /\ EmissionsOf(bs) = FlattenSeq(Images(BlockFn, bs))
      /\ EmissionsOf(cs) = FlattenSeq(Images(BlockFn, cs))
      /\ EmissionsOf(bs \o cs) = FlattenSeq(Images(BlockFn, bs \o cs))
      /\ Maps(BlockFn, Block, Seq(Said))
  BY <1>1, EmissionsAre
<1>3. Maps(BlockFn, Block, Seq(Said))
  BY <1>2
<1>4. FlattenSeq(Images(BlockFn, bs)) \in Seq(Said)
  BY <1>3, ImagesFlatten
<1>5. FlattenSeq(Images(BlockFn, bs \o cs))
        = FlattenSeq(Images(BlockFn, bs)) \o FlattenSeq(Images(BlockFn, cs))
  BY <1>3, ImagesFlatten
<1> QED
  BY <1>2, <1>4, <1>5

LEMMA EmissionsOne ==
    ASSUME NEW b \in Block
    PROVE  EmissionsOf(<<>>) = <<>> /\ EmissionsOf(<<b>>) = EmissionsOfBlock(b)
<1>1. <<>> \in Seq(Block)
  OBVIOUS
<1>1a. <<b>> \in Seq(Block)
  OBVIOUS
<1>2. /\ EmissionsOf(<<>>) = FlattenSeq(Images(BlockFn, <<>>))
      /\ EmissionsOf(<<b>>) = FlattenSeq(Images(BlockFn, <<b>>))
      /\ Maps(BlockFn, Block, Seq(Said))
  BY <1>1, <1>1a, EmissionsAre
<1>3. BlockFn[b] = EmissionsOfBlock(b)
  BY DEF BlockFn
<1>4. Maps(BlockFn, Block, Seq(Said))
  BY <1>2
<1>5. FlattenSeq(Images(BlockFn, <<>>)) = <<>>
  BY <1>4, ImagesFew
<1>6. FlattenSeq(Images(BlockFn, <<b>>)) = BlockFn[b]
  BY <1>4, ImagesFew
<1> QED
  BY <1>2, <1>3, <1>5, <1>6

LEMMA EmissionsNothing == EmissionsOf(<<>>) = <<>>
<1>1. <<>> \in Bodies
  BY EmptySeq DEF Bodies
<1>2. [body |-> <<>>, drift |-> FALSE] \in Block
  BY <1>1 DEF Block
<1> QED
  BY <1>2, EmissionsOne

(* One line that holds a value, and a body no value could be.               *)
LEMMA ValidLine ==
    ASSUME NEW s
    PROVE  Valid(<<<<s.value>>>>) = ItemsIn(s)
<1> DEFINE v == s.value
<1>1. FlattenSeq(<<<<v>>>>) = <<v>>
  <2>1. <<v>> \in Seq({v})
    OBVIOUS
  <2> QED
    BY <2>1, FlattenOne
<1>2. Len(<<v>>) = 1 /\ <<v>>[1] = v
  OBVIOUS
<1>3. Parsed(<<<<v>>>>) = IF v \in DOMAIN ItemsOf THEN ItemsOf[v] ELSE NotJson
  BY <1>1, <1>2 DEF Parsed, NotJson
<1> HIDE DEF v
<1>4. Valid(<<<<v>>>>) = IF v \in DOMAIN ItemsOf THEN Accepted(ItemsOf[v]) ELSE <<>>
  BY <1>3, ItemsOfShapes DEF Valid
<1> QED
  BY <1>4 DEF v, ItemsIn

Junk(body) == Len(FlattenSeq(body)) > 1

LEMMA JunkIsNotJson ==
    ASSUME NEW body \in Bodies, Junk(body)
    PROVE  Parsed(body) = NotJson /\ Valid(body) = <<>>
<1>1. FlattenSeq(body) \in Seq(Text)
  BY FlattenType DEF Bodies
<1>2. Len(FlattenSeq(body)) # 1
  <2> DEFINE flat == FlattenSeq(body)
  <2>1. Len(flat) \in Nat
    BY <1>1, LenProperties
  <2>2. Len(flat) > 1
    BY DEF Junk
  <2> DEFINE n == Len(flat)
  <2>3. n \in Nat /\ n > 1
    BY <2>1, <2>2
  <2> HIDE DEF n
  <2>4. n # 1
    BY <2>3
  <2> QED
    BY <2>4 DEF n
<1> QED
  BY <1>2 DEF Parsed, NotJson, Valid

LEMMA JunkStays ==
    ASSUME NEW body \in Bodies, NEW line \in Seq(Text), Junk(body)
    PROVE  Junk(Append(body, line))
<1>1. FlattenSeq(body) \in Seq(Text)
  BY FlattenType DEF Bodies
<1>2. FlattenSeq(Append(body, line)) = FlattenSeq(body) \o line
  BY FlattenAppend DEF Bodies
<1>3. /\ Len(FlattenSeq(body) \o line) = Len(FlattenSeq(body)) + Len(line)
      /\ Len(line) \in Nat /\ Len(FlattenSeq(body)) \in Nat
  BY <1>1, ConcatProperties, LenProperties
<1> QED
  BY <1>2, <1>3 DEF Junk

LEMMA JunkOfTwo ==
    ASSUME NEW u \in Text, NEW line \in Seq(Text), line # <<>>
    PROVE  Junk(Append(<<<<u>>>>, line))
<1>1. <<u>> \in Seq(Text) /\ Len(<<u>>) = 1
  OBVIOUS
<1>2. <<<<u>>>> \in Seq(Seq(Text))
  <2> DEFINE T == Seq(Text)  x == <<u>>
  <2>1. x \in T
    BY <1>1
  <2> HIDE DEF T, x
  <2>2. <<x>> \in Seq(T)
    BY <2>1
  <2> QED
    BY <2>2 DEF T, x
<1>3. FlattenSeq(Append(<<<<u>>>>, line)) = <<u>> \o line
  BY <1>1, <1>2, FlattenAppend, FlattenOne
<1>4. Len(line) \in Nat \ {0} /\ Len(<<u>> \o line) = 1 + Len(line)
  BY <1>1, EmptySeq, ConcatProperties
<1> QED
  BY <1>3, <1>4 DEF Junk

-----------------------------------------------------------------------------
(* The scanner.                                                            *)

Scanner == [pending : Seq(Text), inside : BOOLEAN, body : Bodies,
            weld : BOOLEAN, bare : BOOLEAN]
FoundSet == [scanner : Scanner, blocks : Seq(Block)]

(* A scanner outside any block, or in one, with what it has of a line.      *)
Outside(sc, p) == ~sc.inside /\ sc.pending = p
Inside(sc, p, b) == sc.inside /\ ~sc.bare /\ sc.pending = p /\ sc.body = b

(* A scanner, field by field, and its updates.                              *)
Fields(pending, inside, body, weld, bare) ==
    [pending |-> pending, inside |-> inside, body |-> body,
     weld |-> weld, bare |-> bare]

Shut(sc) == [sc EXCEPT !.inside = FALSE, !.body = <<>>, !.weld = FALSE]
Begun(sc, inside, body, weld, bare) ==
    [sc EXCEPT !.inside = inside, !.body = body, !.weld = weld, !.bare = bare]
Marked(sc, bare) == [sc EXCEPT !.bare = bare]
Grown(sc, line) == [sc EXCEPT !.body = Append(@, line)]
Awaiting(sc, p) == [sc EXCEPT !.pending = p]

LEMMA ShutIs ==
    ASSUME NEW p, NEW i, NEW b, NEW w, NEW a
    PROVE  Shut(Fields(p, i, b, w, a)) = Fields(p, FALSE, <<>>, FALSE, a)
<1> DEFINE no == FALSE  e == <<>>  f == Fields(p, i, b, w, a)
<1>1. Shut(f) = [[[f EXCEPT !.inside = no] EXCEPT !.body = e] EXCEPT !.weld = no]
  BY DEF Shut
<1> HIDE DEF no, e
<1>2. [f EXCEPT !.inside = no] = Fields(p, no, b, w, a)
  BY DEF Fields
<1>3. [Fields(p, no, b, w, a) EXCEPT !.body = e] = Fields(p, no, e, w, a)
  BY DEF Fields
<1>4. [Fields(p, no, e, w, a) EXCEPT !.weld = no] = Fields(p, no, e, no, a)
  BY DEF Fields
<1>5. Shut(f) = Fields(p, no, e, no, a)
  BY <1>1, <1>2, <1>3, <1>4
<1> QED
  BY <1>5 DEF no, e

LEMMA BegunIs ==
    ASSUME NEW p, NEW i, NEW b, NEW w, NEW a, NEW yes, NEW e, NEW x, NEW no
    PROVE  Begun(Fields(p, i, b, w, a), yes, e, x, no) = Fields(p, yes, e, x, no)
<1> DEFINE f == Fields(p, i, b, w, a)
<1>1. Begun(f, yes, e, x, no) = [[[[f EXCEPT !.inside = yes] EXCEPT !.body = e]
                      EXCEPT !.weld = x] EXCEPT !.bare = no]
  BY DEF Begun
<1>2. [f EXCEPT !.inside = yes] = Fields(p, yes, b, w, a)
  BY DEF Fields
<1>3. [Fields(p, yes, b, w, a) EXCEPT !.body = e] = Fields(p, yes, e, w, a)
  BY DEF Fields
<1>4. [Fields(p, yes, e, w, a) EXCEPT !.weld = x] = Fields(p, yes, e, x, a)
  BY DEF Fields
<1>5. [Fields(p, yes, e, x, a) EXCEPT !.bare = no] = Fields(p, yes, e, x, no)
  BY DEF Fields
<1> QED
  BY <1>1, <1>2, <1>3, <1>4, <1>5

LEMMA MarkedIs ==
    ASSUME NEW p, NEW i, NEW b, NEW w, NEW a, NEW x
    PROVE  Marked(Fields(p, i, b, w, a), x) = Fields(p, i, b, w, x)
  BY DEF Marked, Fields

LEMMA AwaitingIs ==
    ASSUME NEW p, NEW i, NEW b, NEW w, NEW a, NEW x
    PROVE  Awaiting(Fields(p, i, b, w, a), x) = Fields(x, i, b, w, a)
  BY DEF Awaiting, Fields

LEMMA GrownIs ==
    ASSUME NEW p, NEW i, NEW b, NEW w, NEW a, NEW x
    PROVE  Grown(Fields(p, i, b, w, a), x) = Fields(p, i, Append(b, x), w, a)
<1> DEFINE r == Append(b, x)  f == Fields(p, i, b, w, a)
<1>1. f.body = b
  BY DEF Fields
<1>2. Grown(f, x) = [f EXCEPT !.body = Append(f.body, x)]
  BY DEF Grown
<1>3. Grown(f, x) = [f EXCEPT !.body = r]
  BY <1>1, <1>2
<1> HIDE DEF r
<1>4. [f EXCEPT !.body = r] = Fields(p, i, r, w, a)
  BY DEF Fields
<1>5. Grown(f, x) = Fields(p, i, r, w, a)
  BY <1>3, <1>4
<1> QED
  BY <1>5 DEF r

LEMMA ScannerFields ==
    ASSUME NEW sc \in Scanner
    PROVE  /\ sc = Fields(sc.pending, sc.inside, sc.body, sc.weld, sc.bare)
           /\ sc.pending \in Seq(Text) /\ sc.inside \in BOOLEAN
           /\ sc.body \in Bodies /\ sc.weld \in BOOLEAN /\ sc.bare \in BOOLEAN
<1> DEFINE P == Seq(Text)  B == Bodies
<1>1. sc \in [pending : P, inside : BOOLEAN, body : B, weld : BOOLEAN,
              bare : BOOLEAN]
  BY DEF Scanner
<1> HIDE DEF P, B
<1>2. /\ sc = Fields(sc.pending, sc.inside, sc.body, sc.weld, sc.bare)
      /\ sc.pending \in P /\ sc.inside \in BOOLEAN /\ sc.body \in B
      /\ sc.weld \in BOOLEAN /\ sc.bare \in BOOLEAN
  BY <1>1 DEF Fields
<1> QED
  BY <1>2 DEF P, B

LEMMA FieldsScanner ==
    ASSUME NEW p \in Seq(Text), NEW i \in BOOLEAN, NEW b \in Bodies,
           NEW w \in BOOLEAN, NEW a \in BOOLEAN
    PROVE  Fields(p, i, b, w, a) \in Scanner
<1> DEFINE P == Seq(Text)  B == Bodies
<1>1. p \in P /\ b \in B
  OBVIOUS
<1>2. Scanner = [pending : P, inside : BOOLEAN, body : B, weld : BOOLEAN,
                 bare : BOOLEAN]
  BY DEF Scanner
<1> HIDE DEF P, B
<1> QED
  BY <1>1, <1>2 DEF Fields

LEMMA CloseIs ==
    ASSUME NEW f \in FoundSet, NEW rest \in Seq(Text)
    PROVE  /\ Close(f, rest) \in FoundSet
           /\ Outside(Close(f, rest).scanner, f.scanner.pending)
           /\ Close(f, rest).scanner.bare = f.scanner.bare
           /\ \E b \in Block : /\ Close(f, rest).blocks = Append(f.blocks, b)
                               /\ b.body = f.scanner.body
                               /\ rest # <<>> => b.drift
<1> DEFINE sc == f.scanner
           b == [body |-> sc.body, drift |-> sc.weld \/ rest # <<>>]
           z == Fields(sc.pending, FALSE, <<>>, FALSE, sc.bare)
<1>1. sc \in Scanner /\ f.blocks \in Seq(Block)
  BY DEF FoundSet
<1> HIDE DEF sc
<1>2. /\ sc = Fields(sc.pending, sc.inside, sc.body, sc.weld, sc.bare)
      /\ sc.pending \in Seq(Text) /\ sc.body \in Bodies /\ sc.bare \in BOOLEAN
      /\ sc.weld \in BOOLEAN
  BY <1>1, ScannerFields
<1>3. b \in Block /\ b.body = sc.body
  <2>1. (sc.weld \/ rest # <<>>) \in BOOLEAN
    OBVIOUS
  <2> QED
    BY <1>2, <2>1 DEF Block
<1>4. rest # <<>> => b.drift
  OBVIOUS
<1>5. z \in Scanner
  <2>1. <<>> \in Bodies
    BY EmptySeq DEF Bodies
  <2> QED
    BY <1>2, <2>1, FieldsScanner
<1>6. ~z.inside /\ z.pending = sc.pending
  BY DEF Fields
<1>7. z.bare = sc.bare
  BY DEF Fields
<1>8. Shut(sc) = z
  <2>1. sc = Fields(sc.pending, sc.inside, sc.body, sc.weld, sc.bare)
    BY <1>2
  <2> QED
    BY <2>1, ShutIs
<1>9. Close(f, rest) = [scanner |-> z, blocks |-> Append(f.blocks, b)]
  BY <1>8 DEF Close, Found, Shut, sc
<1> HIDE DEF b, z
<1>10. Append(f.blocks, b) \in Seq(Block)
  BY <1>1, <1>3, AppendProperties
<1>11. /\ Close(f, rest) \in FoundSet
       /\ Close(f, rest).scanner = z
       /\ Close(f, rest).blocks = Append(f.blocks, b)
  BY <1>5, <1>9, <1>10 DEF FoundSet
<1>12. Close(f, rest).scanner.bare = f.scanner.bare
  BY <1>7, <1>11, Zenon DEF sc
<1>13. Outside(Close(f, rest).scanner, f.scanner.pending)
  BY <1>6, <1>11 DEF Outside, sc
<1> QED
  BY <1>3, <1>4, <1>11, <1>12, <1>13 DEF sc

LEMMA OpenIs ==
    ASSUME NEW f \in FoundSet, NEW weld \in BOOLEAN
    PROVE  /\ Open(f, weld) \in FoundSet /\ Open(f, weld).blocks = f.blocks
           /\ Inside(Open(f, weld).scanner, f.scanner.pending, <<>>)
<1> DEFINE sc == f.scanner  z == Fields(sc.pending, TRUE, <<>>, weld, FALSE)
<1>1. sc \in Scanner /\ f.blocks \in Seq(Block)
  BY DEF FoundSet
<1> HIDE DEF sc
<1>2. /\ sc = Fields(sc.pending, sc.inside, sc.body, sc.weld, sc.bare)
      /\ sc.pending \in Seq(Text)
  BY <1>1, ScannerFields
<1>3. z \in Scanner
  <2>1. <<>> \in Bodies
    BY EmptySeq DEF Bodies
  <2> QED
    BY <1>2, <2>1, FieldsScanner
<1>4. z.inside /\ z.pending = sc.pending /\ ~z.bare /\ z.body = <<>>
  BY DEF Fields
<1> DEFINE yes == TRUE  no == FALSE  e == <<>>
<1> HIDE DEF yes, no, e
<1>5. Begun(sc, yes, e, weld, no) = Fields(sc.pending, yes, e, weld, no)
  <2>1. sc = Fields(sc.pending, sc.inside, sc.body, sc.weld, sc.bare)
    BY <1>2
  <2>2. Begun(Fields(sc.pending, sc.inside, sc.body, sc.weld, sc.bare),
              yes, e, weld, no) = Fields(sc.pending, yes, e, weld, no)
    BY BegunIs
  <2> QED
    BY <2>1, <2>2
<1>6. Open(f, weld) = [scanner |-> z, blocks |-> f.blocks]
  BY <1>5 DEF Open, Found, Begun, sc, yes, no, e
<1> HIDE DEF z
<1> QED
  BY <1>1, <1>3, <1>4, <1>6 DEF sc, FoundSet, Inside

(* The line is neither an opening nor a tag after a fence.                  *)
Unopened(f, bare) == Found(Marked(f.scanner, bare), f.blocks)

LEMMA UnopenedIs ==
    ASSUME NEW f, NEW line,
           ConsumeOutside(f, line)
             = Found([f.scanner EXCEPT !.bare = (line = <<Fence>>)], f.blocks)
    PROVE  \E u \in BOOLEAN : /\ u = (line = <<Fence>>)
                              /\ ConsumeOutside(f, line) = Unopened(f, u)
<1> DEFINE u == line = <<Fence>>
<1>1. ConsumeOutside(f, line) = Unopened(f, u)
  BY DEF Unopened, Marked
<1>2. u \in BOOLEAN
  OBVIOUS
<1> QED
  BY <1>1, <1>2, Zenon

LEMMA BareIs ==
    ASSUME NEW f \in FoundSet, NEW u \in BOOLEAN
    PROVE  /\ Unopened(f, u) \in FoundSet /\ Unopened(f, u).blocks = f.blocks
           /\ Unopened(f, u).scanner.pending = f.scanner.pending
           /\ Unopened(f, u).scanner.inside = f.scanner.inside
           /\ Unopened(f, u).scanner.bare = u
<1> DEFINE sc == f.scanner  z == Fields(sc.pending, sc.inside, sc.body, sc.weld, u)
           g == Unopened(f, u)
<1>1. sc \in Scanner /\ f.blocks \in Seq(Block)
  BY DEF FoundSet
<1> HIDE DEF sc
<1>2. /\ sc = Fields(sc.pending, sc.inside, sc.body, sc.weld, sc.bare)
      /\ sc.pending \in Seq(Text) /\ sc.inside \in BOOLEAN
      /\ sc.body \in Bodies /\ sc.weld \in BOOLEAN
  BY <1>1, ScannerFields
<1>3. z \in Scanner
  BY <1>2, FieldsScanner
<1>4. z.pending = sc.pending /\ z.inside = sc.inside
  BY DEF Fields
<1>5. z.bare = u
  BY DEF Fields
<1>6. Marked(sc, u) = z
  BY <1>2, MarkedIs
<1>7. g = [scanner |-> z, blocks |-> f.blocks]
  BY <1>6 DEF Unopened, Found, sc
<1> HIDE DEF z, g
<1>8. g.scanner = z /\ g.blocks = f.blocks /\ g \in FoundSet
  BY <1>1, <1>3, <1>7 DEF FoundSet
<1>9. g.scanner.inside = f.scanner.inside /\ g.scanner.bare = u
  BY <1>4, <1>5, <1>8, Zenon DEF sc
<1> QED
  BY <1>4, <1>8, <1>9 DEF g, sc

LEMMA OutsideIs ==
    ASSUME NEW f \in FoundSet, NEW line \in Seq(Text)
    PROVE  /\ ConsumeOutside(f, line) \in FoundSet
           /\ ConsumeOutside(f, line).blocks = f.blocks
           /\ ConsumeOutside(f, line).scanner.pending = f.scanner.pending
<1>1. CASE ConsumeOutside(f, line) \in {Open(f, FALSE), Open(f, TRUE)}
  BY <1>1, OpenIs DEF Inside
<1>2. CASE ConsumeOutside(f, line)
             = Found([f.scanner EXCEPT !.bare = (line = <<Fence>>)], f.blocks)
  <2>1. PICK u \in BOOLEAN : ConsumeOutside(f, line) = Unopened(f, u)
    BY <1>2, UnopenedIs, Zenon
  <2> QED
    BY <2>1, BareIs
<1> QED
  BY <1>1, <1>2 DEF ConsumeOutside

(* The lines that open a block.                                             *)
Welded == <<"prose", Fence, Tag>>

LEMMA WeldedOpens == WeldedOpening(Welded) /\ Welded # Opening /\ Welded # <<Tag>>
<1>1. /\ Len(Welded) = 3 /\ Welded[1] = "prose" /\ Welded[2] = Fence
      /\ Welded[3] = Tag /\ "prose" # Fence
      /\ Len(Opening) = 2 /\ Opening[1] = Fence /\ Opening[2] = Tag
  BY DEF Welded, Opening, Fence, Tag
<1>2. Opening \in Seq({Fence, Tag})
  BY DEF Opening
<1>3. \A i \in 1..3 : Welded[i] \in {"prose", Fence, Tag}
  BY <1>1
<1> HIDE DEF Welded, Opening
<1>4. SubSeq(Welded, 2, 3) = Opening
  <2> DEFINE S == {"prose", Fence, Tag}  u == SubSeq(Welded, 2, 3)
  <2>1. /\ u \in Seq(S) /\ Len(u) = 2
        /\ \A i \in 1..2 : u[i] = Welded[2 + i - 1]
    BY <1>3, SubSeqProperties
  <2>2. Opening \in Seq(S)
    BY <1>2, SeqMonotonic
  <2> HIDE DEF S, u
  <2>3. u[1] = Opening[1] /\ u[2] = Opening[2]
    BY <1>1, <2>1
  <2>4. \A i \in 1..Len(u) : u[i] = Opening[i]
    BY <2>1, <2>3
  <2>5. u = Opening
    BY <1>1, <2>1, <2>2, <2>4, SeqEqual
  <2> QED
    BY <2>5 DEF u
<1>5. SubSeq(Welded, 1, 2) # Opening
  <2> DEFINE S == {"prose", Fence, Tag}
  <2>1. \A i \in 1..(2 - 1 + 1) : SubSeq(Welded, 1, 2)[i] = Welded[1 + i - 1]
    <3>1. \A i \in 1..2 : Welded[i] \in S
      BY <1>3
    <3> QED
      BY <3>1, SubSeqProperties
  <2>2. SubSeq(Welded, 1, 2)[1] = Welded[1]
    BY <2>1
  <2> QED
    BY <1>1, <2>2
<1>6. \A i \in 1..(3 - 2) : SubSeq(Welded, i, i + 1) # Opening
  <2>1. \A i \in 1..(3 - 2) : i = 1 /\ i + 1 = 2
    OBVIOUS
  <2> QED
    BY <1>5, <2>1
<1>7. WeldedOpening(Welded)
  <2>1. Len(Welded) > 2 /\ Len(Welded) - 1 = 2 /\ Len(Welded) - 2 = 3 - 2
    BY <1>1
  <2> QED
    BY <1>1, <1>4, <1>6, <2>1 DEF WeldedOpening
<1>8. Len(<<Tag>>) = 1
  OBVIOUS
<1> QED
  BY <1>1, <1>7, <1>8

LEMMA OutsideOpens ==
    ASSUME NEW f \in FoundSet, NEW line \in Seq(Text),
           line = Opening \/ line = Welded \/ (f.scanner.bare /\ line = <<Tag>>)
    PROVE  /\ ConsumeOutside(f, line) \in FoundSet
           /\ ConsumeOutside(f, line).blocks = f.blocks
           /\ Inside(ConsumeOutside(f, line).scanner, f.scanner.pending, <<>>)
<1>1. ConsumeOutside(f, line) \in {Open(f, FALSE), Open(f, TRUE)}
  BY WeldedOpens DEF ConsumeOutside
<1> QED
  BY <1>1, OpenIs

LEMMA OutsideStays ==
    ASSUME NEW f \in FoundSet, NEW line \in Seq(Text), Len(line) <= 1,
           ~(f.scanner.bare /\ line = <<Tag>>), ~f.scanner.inside
    PROVE  /\ ConsumeOutside(f, line) \in FoundSet
           /\ ConsumeOutside(f, line).blocks = f.blocks
           /\ Outside(ConsumeOutside(f, line).scanner, f.scanner.pending)
           /\ ConsumeOutside(f, line).scanner.bare = (line = <<Fence>>)
<1>1. Len(line) \in Nat /\ Len(Opening) = 2
  BY LenProperties DEF Opening
<1>2. ~WeldedOpening(line) /\ line # Opening
  BY <1>1 DEF WeldedOpening
<1>3. ConsumeOutside(f, line)
        = Found([f.scanner EXCEPT !.bare = (line = <<Fence>>)], f.blocks)
  BY <1>2 DEF ConsumeOutside
<1>4. PICK u \in BOOLEAN : /\ u = (line = <<Fence>>)
                           /\ ConsumeOutside(f, line) = Unopened(f, u)
  BY <1>3, UnopenedIs, Zenon
<1>5. ConsumeOutside(f, line) = Unopened(f, u)
  BY <1>4
<1> DEFINE g == Unopened(f, u)
<1>6. /\ g \in FoundSet /\ g.blocks = f.blocks
      /\ g.scanner.pending = f.scanner.pending /\ g.scanner.inside = f.scanner.inside
  BY BareIs
<1>7. g.scanner.bare = u
  BY BareIs, Zenon
<1>8. g.scanner.bare = (line = <<Fence>>)
  BY <1>4, <1>7, Zenon
<1> HIDE DEF g
<1>9. Outside(g.scanner, f.scanner.pending)
  BY <1>6 DEF Outside
<1> QED
  BY <1>5, <1>6, <1>8, <1>9, Zenon DEF g

(* What follows the fence a line starts with.                               *)
LEMMA AfterFence ==
    ASSUME NEW rest \in Seq(Text)
    PROVE  /\ <<Fence>> \o rest \in Seq(Text) /\ <<Fence>> \o rest # <<>>
           /\ (<<Fence>> \o rest)[1] = Fence
           /\ Tail(<<Fence>> \o rest) = rest
           /\ rest # <<>> => <<Fence>> \o rest # <<Fence>>
<1> DEFINE h == <<Fence>>  line == h \o rest
<1>1. h \in Seq(Text) /\ Len(h) = 1 /\ h[1] = Fence
  BY DEF Text
<1> HIDE DEF h
<1>2. Len(rest) \in Nat
  BY LenProperties
<1>3. /\ line \in Seq(Text) /\ Len(line) = 1 + Len(rest)
      /\ \A i \in 1..(1 + Len(rest)) :
           line[i] = IF i <= 1 THEN h[i] ELSE rest[i - 1]
  <2>1. /\ line \in Seq(Text) /\ Len(line) = Len(h) + Len(rest)
        /\ \A i \in 1..(Len(h) + Len(rest)) :
             line[i] = IF i <= Len(h) THEN h[i] ELSE rest[i - Len(h)]
    BY <1>1, ConcatProperties
  <2> HIDE DEF line
  <2> QED
    BY <1>1, <2>1
<1> HIDE DEF line
<1>4. line # <<>> /\ line[1] = Fence
  <2>1. 1 \in 1..(1 + Len(rest))
    BY <1>2
  <2>2. Len(line) # 0
    BY <1>2, <1>3
  <2>3. line # <<>>
    BY <2>2, EmptySeq
  <2> QED
    BY <1>1, <1>3, <2>1, <2>3
<1>5. Tail(line) = rest
  <2> DEFINE t == Tail(line)
  <2>1. t \in Seq(Text) /\ Len(t) = Len(line) - 1
        /\ \A i \in 1..Len(t) : t[i] = line[i + 1]
    BY <1>3, <1>4, HeadTailProperties
  <2> HIDE DEF t
  <2>2. Len(t) = Len(rest)
    BY <1>2, <1>3, <2>1
  <2>3. \A i \in 1..Len(t) : t[i] = rest[i]
    <3> TAKE i \in 1..Len(t)
    <3>1. i + 1 \in 1..(1 + Len(rest)) /\ ~(i + 1 <= 1) /\ (i + 1) - 1 = i
      BY <1>2, <2>2
    <3> QED
      BY <1>3, <2>1, <3>1
  <2>4. t = rest
    BY <2>1, <2>2, <2>3, SeqEqual
  <2> QED
    BY <2>4 DEF t
<1>6. rest # <<>> => line # h
  <2> HAVE rest # <<>>
  <2>1. Len(rest) # 0
    BY EmptySeq
  <2>2. Len(line) # Len(h)
    BY <1>1, <1>2, <1>3, <2>1
  <2> QED
    BY <2>2
<1> QED
  BY <1>3, <1>4, <1>5, <1>6 DEF h, line

(* One more line inside a block.                                            *)
LEMMA GrowsIs ==
    ASSUME NEW f \in FoundSet, NEW line \in Seq(Text)
    PROVE  LET g == Found(Grown(f.scanner, line), f.blocks)
           IN /\ g \in FoundSet /\ g.blocks = f.blocks
              /\ g.scanner.pending = f.scanner.pending
              /\ g.scanner.inside = f.scanner.inside
              /\ g.scanner.bare = f.scanner.bare
              /\ g.scanner.body = Append(f.scanner.body, line)
<1> DEFINE sc == f.scanner  b == Append(sc.body, line)
           z == Fields(sc.pending, sc.inside, b, sc.weld, sc.bare)
           g == Found(Grown(f.scanner, line), f.blocks)
<1>1. sc \in Scanner /\ f.blocks \in Seq(Block)
  BY DEF FoundSet
<1> HIDE DEF sc
<1>2. /\ sc = Fields(sc.pending, sc.inside, sc.body, sc.weld, sc.bare)
      /\ sc.pending \in Seq(Text) /\ sc.inside \in BOOLEAN
      /\ sc.body \in Bodies /\ sc.weld \in BOOLEAN /\ sc.bare \in BOOLEAN
  BY <1>1, ScannerFields
<1>3. b \in Bodies
  <2> DEFINE T == Seq(Text)
  <2>1. sc.body \in Seq(T) /\ line \in T
    BY <1>2 DEF Bodies
  <2> HIDE DEF T
  <2>2. Append(sc.body, line) \in Seq(T)
    BY <2>1, AppendProperties
  <2> QED
    BY <2>2 DEF T, Bodies
<1>4. Grown(sc, line) = z
  <2>1. sc = Fields(sc.pending, sc.inside, sc.body, sc.weld, sc.bare)
    BY <1>2
  <2>2. Grown(Fields(sc.pending, sc.inside, sc.body, sc.weld, sc.bare), line) = z
    BY GrownIs
  <2> QED
    BY <2>1, <2>2
<1> HIDE DEF b
<1>5. z \in Scanner
  BY <1>2, <1>3, FieldsScanner
<1>6. z.pending = sc.pending /\ z.body = b
  BY DEF Fields
<1>7. z.inside = sc.inside
  BY DEF Fields
<1>8. z.bare = sc.bare
  BY DEF Fields
<1>9. g = [scanner |-> z, blocks |-> f.blocks]
  BY <1>4 DEF Found, sc
<1> HIDE DEF z, g
<1>10. g.scanner = z /\ g.blocks = f.blocks /\ g \in FoundSet
  BY <1>1, <1>5, <1>9 DEF FoundSet
<1>11. g.scanner.inside = f.scanner.inside /\ g.scanner.bare = f.scanner.bare
  BY <1>7, <1>8, <1>10, Zenon DEF sc
<1> QED
  BY <1>6, <1>10, <1>11 DEF g, sc, b

(* The scanner that waits with another line.                                *)
Waiting(f, p) == Found(Awaiting(f.scanner, p), f.blocks)

LEMMA WaitingIs ==
    ASSUME NEW f \in FoundSet, NEW p \in Seq(Text)
    PROVE  /\ Waiting(f, p) \in FoundSet /\ Waiting(f, p).blocks = f.blocks
           /\ Waiting(f, p).scanner.pending = p
           /\ Waiting(f, p).scanner.inside = f.scanner.inside
           /\ Waiting(f, p).scanner.bare = f.scanner.bare
           /\ Waiting(f, p).scanner.body = f.scanner.body
<1> DEFINE sc == f.scanner
           z == Fields(p, sc.inside, sc.body, sc.weld, sc.bare)
           g == Waiting(f, p)
<1>1. sc \in Scanner /\ f.blocks \in Seq(Block)
  BY DEF FoundSet
<1> HIDE DEF sc
<1>2. /\ sc = Fields(sc.pending, sc.inside, sc.body, sc.weld, sc.bare)
      /\ sc.inside \in BOOLEAN
      /\ sc.body \in Bodies /\ sc.weld \in BOOLEAN /\ sc.bare \in BOOLEAN
  BY <1>1, ScannerFields
<1>4. Awaiting(sc, p) = z
  <2>1. sc = Fields(sc.pending, sc.inside, sc.body, sc.weld, sc.bare)
    BY <1>2
  <2>2. Awaiting(Fields(sc.pending, sc.inside, sc.body, sc.weld, sc.bare), p) = z
    BY AwaitingIs
  <2> QED
    BY <2>1, <2>2
<1>5. z \in Scanner
  BY <1>2, FieldsScanner
<1>6. z.pending = p /\ z.body = sc.body
  BY DEF Fields
<1>7. z.inside = sc.inside
  BY DEF Fields
<1>8. z.bare = sc.bare
  BY DEF Fields
<1>9. g = [scanner |-> z, blocks |-> f.blocks]
  BY <1>4 DEF Waiting, Found, sc
<1> HIDE DEF z, g
<1>10. g.scanner = z /\ g.blocks = f.blocks /\ g \in FoundSet
  BY <1>1, <1>5, <1>9 DEF FoundSet
<1>11. g.scanner.inside = f.scanner.inside /\ g.scanner.bare = f.scanner.bare
  BY <1>7, <1>8, <1>10, Zenon DEF sc
<1> QED
  BY <1>6, <1>10, <1>11 DEF g, sc

LEMMA TakeText ==
    ASSUME NEW f \in FoundSet, NEW x \in Text \ {Newline}
    PROVE  /\ Take(f, x) = Waiting(f, Append(f.scanner.pending, x))
           /\ Append(f.scanner.pending, x) \in Seq(Text)
           /\ f.scanner.pending \in Seq(Text)
<1> DEFINE sc == f.scanner  p == sc.pending
<1>1. f.scanner.pending \in Seq(Text)
  <2>1. f.scanner \in Scanner
    BY DEF FoundSet
  <2> QED
    BY <2>1, ScannerFields
<1>2. Take(f, x) = Found([f.scanner EXCEPT !.pending = Append(@, x)], f.blocks)
  BY DEF Take
<1>3. [f.scanner EXCEPT !.pending = Append(@, x)]
        = [f.scanner EXCEPT !.pending = Append(f.scanner.pending, x)]
  OBVIOUS
<1>4. Take(f, x) = Waiting(f, Append(f.scanner.pending, x))
  BY <1>2, <1>3 DEF Waiting, Awaiting
<1> QED
  BY <1>1, <1>4, AppendProperties

LEMMA TakeLine ==
    ASSUME NEW f \in FoundSet
    PROVE  /\ Take(f, Newline) = Consume(Waiting(f, <<>>), f.scanner.pending)
           /\ Waiting(f, <<>>) \in FoundSet /\ f.scanner.pending \in Seq(Text)
<1>1. f.scanner.pending \in Seq(Text)
  <2>1. f.scanner \in Scanner
    BY DEF FoundSet
  <2> QED
    BY <2>1, ScannerFields
<1>2. <<>> \in Seq(Text)
  BY EmptySeq
<1>3. Take(f, Newline) = Consume(Waiting(f, <<>>), f.scanner.pending)
  BY DEF Take, Waiting, Awaiting
<1> QED
  BY <1>1, <1>2, <1>3, WaitingIs

LEMMA FreshIs ==
    ASSUME NEW f \in FoundSet, NEW h, h = Waiting(f, <<>>)
    PROVE  /\ h.blocks = f.blocks /\ h.scanner.pending = <<>>
           /\ h.scanner.inside <=> f.scanner.inside
           /\ h.scanner.bare <=> f.scanner.bare
           /\ h.scanner.body = f.scanner.body
<1>1. <<>> \in Seq(Text)
  BY EmptySeq
<1>2. /\ h.blocks = f.blocks /\ h.scanner.pending = <<>>
      /\ h.scanner.body = f.scanner.body
  BY <1>1, WaitingIs
<1>3. h.scanner.inside = f.scanner.inside
  BY <1>1, WaitingIs
<1>4. h.scanner.bare = f.scanner.bare
  BY <1>1, WaitingIs
<1> QED
  BY <1>2, <1>3, <1>4

(* What the end of a line does: to a scanner outside any block,             *)
LEMMA LineOpens ==
    ASSUME NEW f \in FoundSet, NEW g, g = Take(f, Newline), ~f.scanner.inside,
           LET line == f.scanner.pending
           IN line = Opening \/ line = Welded \/ (f.scanner.bare /\ line = <<Tag>>)
    PROVE  g \in FoundSet /\ g.blocks = f.blocks /\ Inside(g.scanner, <<>>, <<>>)
<1> DEFINE h == Waiting(f, <<>>)  line == f.scanner.pending
<1>1. /\ g = Consume(h, line) /\ h \in FoundSet /\ line \in Seq(Text)
  BY TakeLine
<1>2. /\ h.blocks = f.blocks /\ h.scanner.pending = <<>>
      /\ ~h.scanner.inside /\ (h.scanner.bare <=> f.scanner.bare)
  BY FreshIs
<1>3. line = Opening \/ line = Welded \/ (h.scanner.bare /\ line = <<Tag>>)
  BY <1>2
<1>4. g = ConsumeOutside(h, line)
  BY <1>1, <1>2 DEF Consume
<1> HIDE DEF h, line
<1> QED
  BY <1>1, <1>2, <1>3, <1>4, OutsideOpens

LEMMA LineStays ==
    ASSUME NEW f \in FoundSet, NEW g, g = Take(f, Newline), ~f.scanner.inside,
           Len(f.scanner.pending) <= 1,
           ~(f.scanner.bare /\ f.scanner.pending = <<Tag>>)
    PROVE  /\ g \in FoundSet /\ g.blocks = f.blocks /\ Outside(g.scanner, <<>>)
           /\ g.scanner.bare = (f.scanner.pending = <<Fence>>)
<1> DEFINE h == Waiting(f, <<>>)  line == f.scanner.pending
<1>1. /\ g = Consume(h, line) /\ h \in FoundSet /\ line \in Seq(Text)
  BY TakeLine
<1>2. /\ h.blocks = f.blocks /\ h.scanner.pending = <<>>
      /\ ~h.scanner.inside /\ (h.scanner.bare <=> f.scanner.bare)
  BY FreshIs
<1>3. Len(line) <= 1 /\ ~(h.scanner.bare /\ line = <<Tag>>)
  BY <1>2
<1>4. g = ConsumeOutside(h, line)
  BY <1>1, <1>2 DEF Consume
<1> HIDE DEF h, line
<1>5. /\ g \in FoundSet /\ g.blocks = h.blocks /\ Outside(g.scanner, <<>>)
  BY <1>1, <1>2, <1>3, <1>4, OutsideStays
<1>6. g.scanner.bare = (line = <<Fence>>)
  BY <1>1, <1>2, <1>3, <1>4, OutsideStays
<1> QED
  BY <1>2, <1>5, <1>6 DEF line

(* and to one that reads a block.                                           *)
LEMMA LineGrows ==
    ASSUME NEW f \in FoundSet, NEW g, g = Take(f, Newline), f.scanner.inside,
           f.scanner.pending # <<>> => f.scanner.pending[1] # Fence
    PROVE  /\ g \in FoundSet /\ g.blocks = f.blocks
           /\ g.scanner.inside /\ (g.scanner.bare <=> f.scanner.bare)
           /\ g.scanner.pending = <<>>
           /\ g.scanner.body = Append(f.scanner.body, f.scanner.pending)
<1> DEFINE h == Waiting(f, <<>>)  line == f.scanner.pending
<1>1. /\ g = Consume(h, line) /\ h \in FoundSet /\ line \in Seq(Text)
  BY TakeLine
<1>2. /\ h.blocks = f.blocks /\ h.scanner.pending = <<>>
      /\ h.scanner.inside /\ (h.scanner.bare <=> f.scanner.bare)
      /\ h.scanner.body = f.scanner.body
  BY FreshIs
<1>3. line # <<Fence>>
  <2>1. <<Fence>>[1] = Fence /\ <<Fence>> # <<>>
    OBVIOUS
  <2> QED
    BY <2>1
<1>4. g = Found(Grown(h.scanner, line), h.blocks)
  BY <1>1, <1>2, <1>3 DEF Consume, ConsumeInside, Grown
<1> HIDE DEF h, line
<1>5. /\ g \in FoundSet /\ g.blocks = h.blocks
      /\ g.scanner.pending = h.scanner.pending
      /\ g.scanner.body = Append(h.scanner.body, line)
  BY <1>1, <1>4, GrowsIs
<1>6. g.scanner.inside = h.scanner.inside /\ g.scanner.bare = h.scanner.bare
  BY <1>1, <1>4, GrowsIs
<1> QED
  BY <1>2, <1>5, <1>6 DEF line

(* A block has been found.                                                  *)
Ends(f, g, drift) ==
    \E b \in Block : /\ g.blocks = Append(f.blocks, b)
                     /\ b.body = f.scanner.body
                     /\ drift => b.drift

LEMMA LineCloses ==
    ASSUME NEW f \in FoundSet, NEW g, g = Take(f, Newline), f.scanner.inside,
           f.scanner.pending = <<Fence>>
    PROVE  /\ g \in FoundSet /\ Ends(f, g, FALSE) /\ Outside(g.scanner, <<>>)
           /\ g.scanner.bare <=> f.scanner.bare
<1> DEFINE h == Waiting(f, <<>>)
<1>1. g = Consume(h, <<Fence>>) /\ h \in FoundSet
  BY TakeLine
<1>e. <<>> \in Seq(Text)
  BY EmptySeq
<1>2. /\ h.blocks = f.blocks /\ h.scanner.pending = <<>>
      /\ h.scanner.inside /\ (h.scanner.bare <=> f.scanner.bare)
      /\ h.scanner.body = f.scanner.body
  BY FreshIs
<1>3. g = Close(h, <<>>)
  BY <1>1, <1>2 DEF Consume, ConsumeInside
<1> HIDE DEF h
<1>4. /\ g \in FoundSet /\ Outside(g.scanner, h.scanner.pending)
      /\ \E b \in Block : g.blocks = Append(h.blocks, b) /\ b.body = h.scanner.body
  BY <1>e, <1>1, <1>3, CloseIs
<1>5. g.scanner.bare = h.scanner.bare
  BY <1>e, <1>1, <1>3, CloseIs
<1> QED
  BY <1>2, <1>4, <1>5 DEF Ends

(* The block ends, and the rest of the line is read outside of it.          *)
LEMMA LineClosesWelded ==
    ASSUME NEW f \in FoundSet, NEW g, g = Take(f, Newline), f.scanner.inside,
           NEW rest \in Seq(Text), rest # <<>>,
           f.scanner.pending = <<Fence>> \o rest
    PROVE  /\ g \in FoundSet /\ Ends(f, g, TRUE)
           /\ rest = Opening \/ rest = Welded => Inside(g.scanner, <<>>, <<>>)
           /\ Len(rest) <= 1 /\ ~f.scanner.bare =>
                /\ Outside(g.scanner, <<>>)
                /\ g.scanner.bare = (rest = <<Fence>>)
<1> DEFINE h == Waiting(f, <<>>)  line == f.scanner.pending  c == Close(h, rest)
<1>1. g = Consume(h, line) /\ h \in FoundSet
  BY TakeLine
<1>e. <<>> \in Seq(Text)
  BY EmptySeq
<1>2. /\ h.blocks = f.blocks /\ h.scanner.pending = <<>>
      /\ h.scanner.inside /\ (h.scanner.bare <=> f.scanner.bare)
      /\ h.scanner.body = f.scanner.body
  BY FreshIs
<1>3. /\ line # <<Fence>> /\ line # <<>> /\ line[1] = Fence /\ Tail(line) = rest
  BY AfterFence
<1>4. g = ConsumeOutside(c, rest)
  BY <1>1, <1>2, <1>3 DEF Consume, ConsumeInside
<1> HIDE DEF h, line
<1>5. /\ c \in FoundSet /\ Outside(c.scanner, <<>>)
      /\ \E b \in Block : /\ c.blocks = Append(h.blocks, b)
                          /\ b.body = h.scanner.body /\ b.drift
  BY <1>1, <1>2, CloseIs
<1>6. c.scanner.bare = h.scanner.bare
  BY <1>1, CloseIs
<1> HIDE DEF c
<1>7. g \in FoundSet /\ g.blocks = c.blocks
  BY <1>4, <1>5, OutsideIs
<1>8. Ends(f, g, TRUE)
  BY <1>2, <1>5, <1>7 DEF Ends
<1>9. ASSUME rest = Opening \/ rest = Welded
      PROVE  Inside(g.scanner, <<>>, <<>>)
  BY <1>4, <1>5, <1>9, OutsideOpens DEF Outside
<1>10. ASSUME Len(rest) <= 1, ~f.scanner.bare
       PROVE  Outside(g.scanner, <<>>) /\ g.scanner.bare = (rest = <<Fence>>)
  <2>1. ~c.scanner.bare /\ ~c.scanner.inside /\ c.scanner.pending = <<>>
    BY <1>2, <1>5, <1>6, <1>10 DEF Outside
  <2>2. Outside(g.scanner, <<>>)
    BY <1>4, <1>5, <1>10, <2>1, OutsideStays
  <2>3. g.scanner.bare = (rest = <<Fence>>)
    BY <1>4, <1>5, <1>10, <2>1, OutsideStays
  <2> QED
    BY <2>2, <2>3
<1> QED
  BY <1>7, <1>8, <1>9, <1>10

(* Whatever is read: at most one block more.                                *)
LEMMA TakeIs ==
    ASSUME NEW f \in FoundSet, NEW x \in Text, NEW g, g = Take(f, x)
    PROVE  /\ g \in FoundSet
           /\ \/ g.blocks = f.blocks
              \/ \E b \in Block : g.blocks = Append(f.blocks, b)
<1>1. CASE x # Newline
  <2>1. x \in Text \ {Newline}
    BY <1>1
  <2> QED
    <3> DEFINE p == Append(f.scanner.pending, x)
    <3>1. g = Waiting(f, p) /\ p \in Seq(Text)
      BY <2>1, TakeText
    <3> HIDE DEF p
    <3> QED
      BY <3>1, WaitingIs
<1>2. CASE x = Newline
  <2> DEFINE h == Waiting(f, <<>>)  line == f.scanner.pending
  <2>1. g = Consume(h, line) /\ h \in FoundSet /\ line \in Seq(Text)
    BY <1>2, TakeLine
  <2>2. h.blocks = f.blocks
    BY FreshIs
  <2> HIDE DEF h, line
  <2>3. CASE g = ConsumeOutside(h, line)
    BY <2>1, <2>2, <2>3, OutsideIs
  <2>4. CASE g = Close(h, <<>>)
    <3>1. <<>> \in Seq(Text)
      BY EmptySeq
    <3> DEFINE e == <<>>
    <3>2. e \in Seq(Text) /\ g = Close(h, e)
      BY <2>4, <3>1
    <3> HIDE DEF e
    <3> DEFINE c == Close(h, e)
    <3>3. c \in FoundSet /\ \E b \in Block : c.blocks = Append(h.blocks, b)
      BY <2>1, <3>2, CloseIs
    <3> HIDE DEF c
    <3>4. g = c
      BY <3>2 DEF c
    <3> QED
      BY <2>2, <3>3, <3>4
  <2>5. CASE line # <<>> /\ g = ConsumeOutside(Close(h, Tail(line)), Tail(line))
    <3>1. Tail(line) \in Seq(Text)
      BY <2>1, <2>5, HeadTailProperties
    <3> DEFINE c == Close(h, Tail(line))
    <3>2. c \in FoundSet /\ \E b \in Block : c.blocks = Append(h.blocks, b)
      BY <2>1, <3>1, CloseIs
    <3> HIDE DEF c
    <3>3. g = ConsumeOutside(c, Tail(line))
      BY <2>5 DEF c
    <3>4. g \in FoundSet /\ g.blocks = c.blocks
      BY <3>1, <3>2, <3>3, OutsideIs
    <3> QED
      BY <2>2, <3>2, <3>4
  <2>6. CASE g = Found(Grown(h.scanner, line), h.blocks)
    BY <2>1, <2>2, <2>6, GrowsIs
  <2> QED
    <3>1. \/ g = ConsumeOutside(h, line) \/ g = Close(h, <<>>)
          \/ line # <<>> /\ g = ConsumeOutside(Close(h, Tail(line)), Tail(line))
          \/ g = Found(Grown(h.scanner, line), h.blocks)
      BY <2>1 DEF Consume, ConsumeInside, Grown
    <3> QED
      BY <3>1, <2>3, <2>4, <2>5, <2>6
<1> QED
  BY <1>1, <1>2

-----------------------------------------------------------------------------
(* The segments.                                                           *)

(* The line a segment starts with.                                          *)
Lead(s) ==
    CASE s.form \in {"clean", "tight", "unclosed"} -> Opening
      [] s.form = "welded" -> Welded
      [] s.form \in {"split", "fence"} -> <<Fence>>
      [] s.form = "prose" -> <<"prose">>

(* After how many atoms the newline that opens its block comes, and how     *)
(* many follow from there.                                                  *)
BlockAt(s) == IF s.form = "split" THEN 3 ELSE Len(Lead(s))
Rest(s) == IF s.form = "tight" THEN 4 ELSE IF s.form = "unclosed" THEN 3 ELSE 5

LEMMA SegmentIs ==
    ASSUME NEW s \in Segments
    PROVE  /\ s.form \in Forms \cup {"prose", "fence"}
           /\ s.form \in Forms =>
                s.value \in Values /\ s.value \notin {Fence, Tag, Newline}
           /\ s.form \notin Forms => s.value = "none"
<1>1. CASE s \in [form : Forms, value : Values]
  BY <1>1, ContractAssumption
<1>2. CASE s = Prose \/ s = CodeFence
  BY <1>2 DEF Prose, CodeFence, Forms
<1> QED
  BY <1>1, <1>2 DEF Segments

LEMMA LeadIs ==
    ASSUME NEW s \in Segments
    PROVE  /\ s.form \in {"clean", "tight", "unclosed"} => Lead(s) = Opening
           /\ s.form = "welded" => Lead(s) = Welded
           /\ s.form \in {"split", "fence"} => Lead(s) = <<Fence>>
           /\ s.form = "prose" => Lead(s) = <<"prose">>
           /\ Lead(s) \in Seq(Text)
           /\ Lead(s) # <<>> /\ Lead(s) # <<Tag>>
           /\ Lead(s) \notin {Opening, Welded} => Len(Lead(s)) = 1
           /\ Len(Lead(s)) \in 1..3
<1>1. /\ s.form \in {"clean", "tight", "unclosed"} => Lead(s) = Opening
      /\ s.form = "welded" => Lead(s) = Welded
      /\ s.form \in {"split", "fence"} => Lead(s) = <<Fence>>
      /\ s.form = "prose" => Lead(s) = <<"prose">>
  BY DEF Lead
<1>2. /\ Opening \in Seq(Text) /\ Len(Opening) = 2
  BY DEF Opening, Text
<1>3. Welded \in Seq(Text) /\ Len(Welded) = 3
  BY DEF Welded, Text
<1>4. <<Fence>> \in Seq(Text) /\ Len(<<Fence>>) = 1 /\ <<Fence>> # <<Tag>>
  BY DEF Fence, Tag, Text
<1>5. <<"prose">> \in Seq(Text) /\ Len(<<"prose">>) = 1 /\ <<"prose">> # <<Tag>>
  BY DEF Tag, Text
<1>6. Lead(s) \in {Opening, Welded, <<Fence>>, <<"prose">>}
  BY <1>1, SegmentIs DEF Forms
<1>7. Len(<<Tag>>) = 1 /\ Len(<<>>) = 0
  OBVIOUS
<1>8. /\ Lead(s) \in Seq(Text) /\ Lead(s) # <<>> /\ Lead(s) # <<Tag>>
      /\ Lead(s) \notin {Opening, Welded} => Len(Lead(s)) = 1
      /\ Len(Lead(s)) \in 1..3
  <2>1. CASE Lead(s) = Opening
    BY <2>1, <1>2, <1>7
  <2>2. CASE Lead(s) = Welded
    BY <2>2, <1>3, <1>7
  <2>3. CASE Lead(s) = <<Fence>>
    BY <2>3, <1>4, <1>7
  <2>4. CASE Lead(s) = <<"prose">>
    BY <2>4, <1>5, <1>7
  <2> QED
    BY <1>6, <2>1, <2>2, <2>3, <2>4
<1> QED
  BY <1>1, <1>8

(* A segment's atoms, one by one.                                           *)
LEMMA AtomsAre ==
    ASSUME NEW s \in Segments, NEW a, a = Atoms(s), NEW v, v = s.value
    PROVE  /\ s.form = "clean" =>
                /\ Len(a) = 7 /\ a[1] = Fence /\ a[2] = Tag /\ a[3] = Newline
                /\ a[4] = v /\ a[5] = Newline /\ a[6] = Fence /\ a[7] = Newline
           /\ s.form = "tight" =>
                /\ Len(a) = 6 /\ a[1] = Fence /\ a[2] = Tag /\ a[3] = Newline
                /\ a[4] = v /\ a[5] = Newline /\ a[6] = Fence
           /\ s.form = "unclosed" =>
                /\ Len(a) = 5 /\ a[1] = Fence /\ a[2] = Tag /\ a[3] = Newline
                /\ a[4] = v /\ a[5] = Newline
           /\ s.form = "welded" =>
                /\ Len(a) = 8 /\ a[1] = "prose" /\ a[2] = Fence /\ a[3] = Tag
                /\ a[4] = Newline /\ a[5] = v /\ a[6] = Newline /\ a[7] = Fence
                /\ a[8] = Newline
           /\ s.form = "split" =>
                /\ Len(a) = 8 /\ a[1] = Fence /\ a[2] = Newline /\ a[3] = Tag
                /\ a[4] = Newline /\ a[5] = v /\ a[6] = Newline /\ a[7] = Fence
                /\ a[8] = Newline
           /\ s.form = "prose" => Len(a) = 2 /\ a[1] = "prose" /\ a[2] = Newline
           /\ s.form = "fence" =>
                /\ Len(a) = 6 /\ a[1] = Fence /\ a[2] = Newline /\ a[3] = "prose"
                /\ a[4] = Newline /\ a[5] = Fence /\ a[6] = Newline
           /\ a \in Seq(Text)
<1>1. v \in Values \/ s.form \notin Forms
  BY SegmentIs
<1>2. CASE s.form = "clean"
  <2>1. a = <<Fence, Tag, Newline, v, Newline, Fence, Newline>> /\ v \in Values
    BY <1>1, <1>2 DEF Atoms, Forms
  <2>2. a \in Seq(Text)
    BY <2>1 DEF Text
  <2> QED
    BY <1>2, <2>1, <2>2
<1>3. CASE s.form = "tight"
  <2>1. a = <<Fence, Tag, Newline, v, Newline, Fence>> /\ v \in Values
    BY <1>1, <1>3 DEF Atoms, Forms
  <2>2. a \in Seq(Text)
    BY <2>1 DEF Text
  <2> QED
    BY <1>3, <2>1, <2>2
<1>4. CASE s.form = "unclosed"
  <2>1. a = <<Fence, Tag, Newline, v, Newline>> /\ v \in Values
    BY <1>1, <1>4 DEF Atoms, Forms
  <2>2. a \in Seq(Text)
    BY <2>1 DEF Text
  <2> QED
    BY <1>4, <2>1, <2>2
<1>5. CASE s.form = "welded"
  <2>1. a = <<"prose", Fence, Tag, Newline, v, Newline, Fence, Newline>> /\ v \in Values
    BY <1>1, <1>5 DEF Atoms, Forms
  <2>2. a \in Seq(Text)
    BY <2>1 DEF Text
  <2> QED
    BY <1>5, <2>1, <2>2
<1>6. CASE s.form = "split"
  <2>1. a = <<Fence, Newline, Tag, Newline, v, Newline, Fence, Newline>> /\ v \in Values
    BY <1>1, <1>6 DEF Atoms, Forms
  <2>2. a \in Seq(Text)
    BY <2>1 DEF Text
  <2> QED
    BY <1>6, <2>1, <2>2
<1>7. CASE s.form = "prose"
  <2>1. a = <<"prose", Newline>>
    BY <1>7 DEF Atoms
  <2>2. a \in Seq(Text)
    BY <2>1 DEF Text
  <2> QED
    BY <1>7, <2>1, <2>2
<1>8. CASE s.form = "fence"
  <2>1. a = <<Fence, Newline, "prose", Newline, Fence, Newline>>
    BY <1>8 DEF Atoms
  <2>2. a \in Seq(Text)
    BY <2>1 DEF Text
  <2> QED
    BY <1>8, <2>1, <2>2
<1> QED
  BY <1>2, <1>3, <1>4, <1>5, <1>6, <1>7, <1>8, SegmentIs DEF Forms

(* What follows its first line, and what it writes of its block.            *)
LEMMA AtomsIn ==
    ASSUME NEW s \in Segments, NEW a, a = Atoms(s), NEW n, n = Len(Lead(s))
    PROVE  /\ \A k \in 1..n : a[k] = Lead(s)[k] /\ a[k] # Newline
           /\ n + 1 <= Len(a) /\ a[n + 1] = Newline
           /\ s.form \in Forms =>
                LET c == BlockAt(s)
                IN /\ c \in 1..3 /\ Len(a) = c + Rest(s)
                   /\ a[c + 2] = s.value /\ a[c + 3] = Newline
                   /\ Rest(s) > 3 => a[c + 4] = Fence
                   /\ Rest(s) > 4 => a[c + 5] = Newline
<1>0. /\ Fence # Newline /\ Tag # Newline /\ "prose" # Newline
      /\ Len(Opening) = 2 /\ Opening[1] = Fence /\ Opening[2] = Tag
      /\ Len(Welded) = 3 /\ Welded[1] = "prose" /\ Welded[2] = Fence
      /\ Welded[3] = Tag
  BY DEF Fence, Tag, Newline, Opening, Welded
<1>0b. Fence # Newline /\ Tag # Newline
  BY <1>0
<1>0a. Len(<<Fence>>) = 1 /\ <<Fence>>[1] = Fence
  OBVIOUS
<1>1. CASE s.form \in {"clean", "tight", "unclosed"}
  <2>0. /\ n = 2 /\ BlockAt(s) = 2
        /\ Lead(s)[1] = Fence /\ Lead(s)[2] = Tag
    BY <1>0, <1>1, LeadIs DEF BlockAt
  <2>a. CASE s.form = "clean"
    <3>1. /\ Rest(s) = 5 /\ Len(a) = 7 /\ a[1] = Fence /\ a[2] = Tag /\ a[3] = Newline
          /\ a[4] = s.value /\ a[5] = Newline /\ a[6] = Fence /\ a[7] = Newline
      BY <2>a, AtomsAre DEF Rest
    <3> QED
      BY <1>0b, <2>0, <3>1
  <2>b. CASE s.form = "tight"
    <3>1. /\ Rest(s) = 4 /\ Len(a) = 6 /\ a[1] = Fence /\ a[2] = Tag /\ a[3] = Newline
          /\ a[4] = s.value /\ a[5] = Newline /\ a[6] = Fence
      BY <2>b, AtomsAre DEF Rest
    <3> QED
      BY <1>0b, <2>0, <3>1
  <2>c. CASE s.form = "unclosed"
    <3>1. /\ Rest(s) = 3 /\ Len(a) = 5 /\ a[1] = Fence /\ a[2] = Tag /\ a[3] = Newline
          /\ a[4] = s.value /\ a[5] = Newline
      BY <2>c, AtomsAre DEF Rest
    <3> QED
      BY <1>0b, <2>0, <3>1
  <2> QED
    BY <1>1, <2>a, <2>b, <2>c
<1>2. CASE s.form = "welded"
  <2>1. /\ n = 3 /\ Lead(s)[1] = "prose" /\ Lead(s)[2] = Fence /\ Lead(s)[3] = Tag
        /\ BlockAt(s) = 3 /\ Rest(s) = 5
        /\ a[1] = "prose" /\ a[2] = Fence /\ a[3] = Tag /\ a[4] = Newline
        /\ Len(a) = 8 /\ a[5] = s.value /\ a[6] = Newline
        /\ a[7] = Fence /\ a[8] = Newline
    BY <1>0, <1>2, LeadIs, AtomsAre DEF BlockAt, Rest
  <2> QED
    BY <1>0, <2>1
<1>3. CASE s.form = "split"
  <2>0. n = 1 /\ Lead(s)[1] = Fence
    BY <1>0a, <1>3, LeadIs
  <2>1. /\ n = 1 /\ Lead(s)[1] = Fence /\ BlockAt(s) = 3 /\ Rest(s) = 5
        /\ a[1] = Fence /\ a[2] = Newline
        /\ Len(a) = 8 /\ a[5] = s.value /\ a[6] = Newline
        /\ a[7] = Fence /\ a[8] = Newline
    BY <1>3, <2>0, AtomsAre DEF BlockAt, Rest
  <2> QED
    BY <1>0, <2>1
<1>4. CASE s.form = "prose"
  <2>1. /\ n = 1 /\ Lead(s)[1] = "prose" /\ s.form \notin Forms
        /\ a[1] = "prose" /\ a[2] = Newline /\ Len(a) = 2
    BY <1>0, <1>4, LeadIs, AtomsAre DEF Forms
  <2> QED
    BY <1>0, <2>1
<1>5. CASE s.form = "fence"
  <2>1. /\ n = 1 /\ Lead(s)[1] = Fence /\ s.form \notin Forms
        /\ a[1] = Fence /\ a[2] = Newline /\ Len(a) = 6
    BY <1>0a, <1>5, LeadIs, AtomsAre DEF Forms
  <2> QED
    BY <1>0, <2>1
<1> QED
  BY <1>1, <1>2, <1>3, <1>4, <1>5, SegmentIs DEF Forms

(* What a message's segments say.                                           *)
EventsAt(m, i) == IF Shadowed(m, i) THEN <<>> ELSE ItemsIn(m[i])

LEMMA ItemsType ==
    ASSUME NEW s
    PROVE  ItemsIn(s) \in Seq(Words)
<1> DEFINE b == [body |-> <<<<s.value>>>>, drift |-> FALSE]
<1>1. b.body = <<<<s.value>>>>
  OBVIOUS
<1> HIDE DEF b
<1>2. Valid(b.body) \in Seq(Words)
  BY BlockSays
<1> QED
  BY <1>1, <1>2, ValidLine

LEMMA EventsAre ==
    ASSUME NEW m, NEW n \in Nat
    PROVE  /\ EventsWithin(m, 0) = <<>>
           /\ EventsWithin(m, n) \in Seq(Words)
           /\ EventsWithin(m, n + 1) = EventsWithin(m, n) \o EventsAt(m, n + 1)
           /\ EventsAt(m, n + 1) \in Seq(Words)
<1> DEFINE T == Seq(Words)  s == [i \in 1..n |-> EventsAt(m, i)]
           t == [i \in 1..(n + 1) |-> EventsAt(m, i)]  e == EventsAt(m, n + 1)
<1>1. \A i : EventsAt(m, i) \in T
  <2> TAKE i
  <2>1. <<>> \in T
    BY EmptySeq
  <2> QED
    BY <2>1, ItemsType DEF EventsAt
<1>2. /\ EventsWithin(m, n) = FlattenSeq(s)
      /\ EventsWithin(m, n + 1) = FlattenSeq(t)
  BY DEF EventsWithin, EventsAt
<1>3. EventsWithin(m, 0) = <<>>
  <2>1. [i \in 1..0 |-> IF Shadowed(m, i) THEN <<>> ELSE ItemsIn(m[i])] = <<>>
    OBVIOUS
  <2> QED
    BY <2>1, FlattenNothing DEF EventsWithin
<1> HIDE DEF T
<1>4. /\ s \in Seq(T) /\ Len(s) = n /\ \A i \in 1..n : s[i] = EventsAt(m, i)
  BY <1>1, IsASeq
<1>5. /\ t \in Seq(T) /\ Len(t) = n + 1
      /\ \A i \in 1..(n + 1) : t[i] = EventsAt(m, i)
  BY <1>1
<1>6. e \in T
  BY <1>1
<1> HIDE DEF s, t, e
<1>7. t = Append(s, e)
  <2>1. /\ Append(s, e) \in Seq(T) /\ Len(Append(s, e)) = n + 1
        /\ \A i \in 1..n : Append(s, e)[i] = s[i]
        /\ Append(s, e)[n + 1] = e
    BY <1>4, <1>6, AppendProperties
  <2>2. \A i \in 1..(n + 1) : i \in 1..n \/ i = n + 1
    OBVIOUS
  <2>3. \A i \in 1..(n + 1) : t[i] = Append(s, e)[i]
    BY <1>4, <1>5, <2>1, <2>2 DEF e
  <2> QED
    BY <1>5, <2>1, <2>3, SeqEqual
<1>8. FlattenSeq(t) = FlattenSeq(s) \o e
  BY <1>4, <1>6, <1>7, FlattenAppend DEF T
<1>9. FlattenSeq(s) \in T
  BY <1>4, FlattenType DEF T
<1> QED
  BY <1>2, <1>3, <1>6, <1>8, <1>9 DEF e, T

LEMMA EventsStay ==
    ASSUME NEW m \in Seq(Segments), NEW s \in Segments, NEW n \in 0..Len(m)
    PROVE  EventsWithin(Append(m, s), n) = EventsWithin(m, n)
<1> DEFINE t == Append(m, s)
<1>1. /\ Len(m) \in Nat /\ \A i \in 1..Len(m) : t[i] = m[i]
  BY AppendProperties, LenProperties
<1> HIDE DEF t
<1>2. ASSUME NEW i \in 1..n
      PROVE  t[i] = m[i] /\ (Shadowed(t, i) <=> Shadowed(m, i))
  <2>1. i \in 1..Len(m) /\ (i > 1 => i - 1 \in 1..Len(m))
    BY <1>1
  <2>2. t[i] = m[i] /\ (i > 1 => t[i - 1] = m[i - 1])
    BY <1>1, <2>1
  <2> QED
    BY <2>1, <2>2 DEF Shadowed
<1>3. [i \in 1..n |-> IF Shadowed(t, i) THEN <<>> ELSE ItemsIn(t[i])]
        = [i \in 1..n |-> IF Shadowed(m, i) THEN <<>> ELSE ItemsIn(m[i])]
  BY <1>2
<1> QED
  BY <1>3 DEF EventsWithin, t

-----------------------------------------------------------------------------
(* How the scanner keeps step with what the agent writes.                  *)

Before(m) == EventsWithin(m, Len(m) - 1)
After(m) == EventsWithin(m, Len(m))
Prev(m) == m[Len(m) - 1]
LeadTo(s, k) == SubSeq(Lead(s), 1, k)

(* In the first line of the last segment, p of which has been read.  What   *)
(* came before it has been told, or is the block that this line ends.       *)
AtLead(sc, fe, m, p) ==
    \/ /\ Outside(sc, p) /\ fe = Before(m)
       /\ Len(m) > 1 => Prev(m).form # "unclosed"
    \/ /\ Len(m) > 1 /\ Prev(m).form = "tight"
       /\ Inside(sc, <<Fence>> \o p, <<<<Prev(m).value>>>>)
       /\ fe \o ItemsIn(Prev(m)) = Before(m)
    \/ /\ Len(m) > 1 /\ Prev(m).form = "unclosed"
       /\ Inside(sc, p, <<<<Prev(m).value>>>>)
       /\ fe \o ItemsIn(Prev(m)) = Before(m)

(* In its block, j atoms after the opening.                                 *)
InBlock(sc, fe, m, j) ==
    /\ fe = Before(m)
    /\ \/ j = 1 /\ Inside(sc, <<>>, <<>>)
       \/ j = 2 /\ Inside(sc, <<Last(m).value>>, <<>>)
       \/ j = 3 /\ Inside(sc, <<>>, <<<<Last(m).value>>>>)
       \/ j = 4 /\ Inside(sc, <<Fence>>, <<<<Last(m).value>>>>)

(* In lines that are no block.                                              *)
Plain(sc, fe, m, k) ==
    /\ fe = Before(m)
    /\ Last(m).form = "split" /\ k < 4 => ~sc.bare
    /\ \/ k \in {2, 4, 6, 8} /\ Outside(sc, <<>>)
       \/ k \in {3, 5, 7} /\ Outside(sc, <<Atoms(Last(m))[k]>>)

Tracked(sc, fe, m, k) ==
    LET s == Last(m)
        shadowed == Shadowed(m, Len(m))
    IN \/ k <= Len(Lead(s)) /\ AtLead(sc, fe, m, LeadTo(s, k))
       \/ /\ s.form \in Forms /\ ~shadowed /\ k > BlockAt(s)
          /\ InBlock(sc, fe, m, k - BlockAt(s))
       \/ /\ s.form = "split" /\ ~shadowed /\ sc.bare /\ fe = Before(m)
          /\ \/ k = 2 /\ Outside(sc, <<>>)
             \/ k = 3 /\ Outside(sc, <<Tag>>)
       \/ (s.form \notin Forms \/ shadowed) /\ Plain(sc, fe, m, k)
       \/ /\ s.form \in Forms /\ s.form # "unclosed" /\ ~shadowed
          /\ k = Len(Atoms(s)) /\ Outside(sc, <<>>) /\ fe = After(m)

Opened(m) == \E i \in DOMAIN m : m[i].form = "unclosed"

(* After k atoms of the last segment the scanner is where the text is: or   *)
(* else a block was left open, and it has been reported or holds text that  *)
(* is no value.                                                             *)
Sync(sc, fe, broken, m, k) ==
    \/ broken /\ Opened(m)
    \/ Opened(m) /\ sc.inside /\ Junk(sc.body)
    \/ m = <<>> /\ k = 0 /\ Outside(sc, <<>>) /\ fe = <<>>
    \/ m # <<>> /\ Tracked(sc, fe, m, k)

Broken(block) == block.drift \/ Parsed(block.body) = NotJson

(* One more atom keeps it so, a block it ends included.                     *)
Keeps(f, g, fe, broken, m, k) ==
    \/ g.blocks = f.blocks /\ Sync(g.scanner, fe, broken, m, k + 1)
    \/ \E b \in Block :
         /\ g.blocks = Append(f.blocks, b)
         /\ Sync(g.scanner, fe \o Valid(b.body), broken \/ Broken(b), m, k + 1)

LEMMA TextStep ==
    ASSUME NEW f \in FoundSet, NEW x \in Text \ {Newline}, NEW g, g = Take(f, x),
           NEW p, NEW b
    PROVE  /\ g \in FoundSet /\ g.blocks = f.blocks
           /\ (g.scanner.inside <=> f.scanner.inside)
           /\ (g.scanner.bare <=> f.scanner.bare)
           /\ g.scanner.body = f.scanner.body
           /\ Outside(f.scanner, p) => Outside(g.scanner, Append(p, x))
           /\ Inside(f.scanner, p, b) => Inside(g.scanner, Append(p, x), b)
<1> DEFINE q == Append(f.scanner.pending, x)
<1>1. g = Waiting(f, q) /\ q \in Seq(Text)
  BY TakeText
<1> DEFINE w == Waiting(f, q)
<1> HIDE DEF q
<1>2. /\ w \in FoundSet /\ w.blocks = f.blocks
      /\ w.scanner.pending = q /\ w.scanner.body = f.scanner.body
  BY <1>1, WaitingIs
<1>3. w.scanner.inside = f.scanner.inside
  BY <1>1, WaitingIs
<1>4. w.scanner.bare = f.scanner.bare
  BY <1>1, WaitingIs
<1> HIDE DEF w
<1>5. g = w
  BY <1>1 DEF w
<1>6. g.scanner.pending = Append(f.scanner.pending, x)
  BY <1>2, <1>5 DEF q
<1>7. /\ (g.scanner.inside <=> f.scanner.inside)
      /\ (g.scanner.bare <=> f.scanner.bare)
  BY <1>3, <1>4, <1>5
<1>8. g \in FoundSet /\ g.blocks = f.blocks /\ g.scanner.body = f.scanner.body
  BY <1>2, <1>5
<1> QED
  BY <1>6, <1>7, <1>8 DEF Outside, Inside

LEMMA JunkStep ==
    ASSUME NEW f \in FoundSet, NEW x \in Text, NEW g, g = Take(f, x),
           NEW fe, NEW broken, NEW m, NEW k,
           Opened(m), f.scanner.inside, Junk(f.scanner.body)
    PROVE  Keeps(f, g, fe, broken, m, k)
<1>1. f.scanner.body \in Bodies /\ f.scanner.pending \in Seq(Text)
  <2>1. f.scanner \in Scanner
    BY DEF FoundSet
  <2> QED
    BY <2>1, ScannerFields
<1>2. CASE x # Newline
  <2>1. x \in Text \ {Newline}
    BY <1>2
  <2>2. g.blocks = f.blocks /\ g.scanner.inside /\ g.scanner.body = f.scanner.body
    BY <2>1, TextStep
  <2> QED
    BY <2>2 DEF Keeps, Sync
<1>3. CASE x = Newline /\ (f.scanner.pending # <<>> => f.scanner.pending[1] # Fence)
  <2>1. /\ g.blocks = f.blocks /\ g.scanner.inside
        /\ g.scanner.body = Append(f.scanner.body, f.scanner.pending)
    BY <1>3, LineGrows
  <2>2. Junk(Append(f.scanner.body, f.scanner.pending))
    BY <1>1, JunkStays
  <2> QED
    BY <2>1, <2>2 DEF Keeps, Sync
<1>4. CASE x = Newline /\ f.scanner.pending # <<>> /\ f.scanner.pending[1] = Fence
  <2>1. \E b \in Block : g.blocks = Append(f.blocks, b) /\ b.body = f.scanner.body
    <3>1. CASE f.scanner.pending = <<Fence>>
      BY <1>4, <3>1, LineCloses DEF Ends
    <3>2. CASE f.scanner.pending # <<Fence>>
      <4> DEFINE line == f.scanner.pending  rest == Tail(line)
      <4>1. rest \in Seq(Text) /\ Len(rest) = Len(line) - 1
            /\ \A i \in 1..Len(rest) : rest[i] = line[i + 1]
        BY <1>1, <1>4, HeadTailProperties
      <4>2. line = <<Fence>> \o rest
        <5>1. Len(line) \in Nat \ {0} /\ 1 \in 1..Len(line) /\ Len(line) \in 1..Len(line)
          BY <1>1, <1>4, EmptySeq
        <5>2. SubSeq(line, 1, Len(line)) = <<line[1]>> \o SubSeq(line, 1 + 1, Len(line))
          BY <1>1, <5>1, SubSeqRecursiveFirst
        <5>3. SubSeq(line, 1, Len(line)) = line /\ rest = SubSeq(line, 2, Len(line))
          BY <1>1, <1>4, SubSeqFull, TailIsSubSeq
        <5> QED
          BY <1>4, <5>2, <5>3
      <4>3. rest # <<>>
        <5>1. <<Fence>> \o <<>> = <<Fence>>
          BY DEF Text
        <5> QED
          BY <3>2, <4>2, <5>1
      <4> HIDE DEF rest
      <4>4. Ends(f, g, TRUE)
        BY <1>4, <4>1, <4>2, <4>3, LineClosesWelded
      <4> QED
        BY <4>4 DEF Ends
    <3> QED
      BY <3>1, <3>2
  <2>2. Parsed(f.scanner.body) = NotJson
    BY <1>1, JunkIsNotJson
  <2> QED
    BY <2>1, <2>2 DEF Keeps, Sync, Broken
<1> QED
  BY <1>2, <1>3, <1>4

LEMMA LastIs ==
    ASSUME NEW m \in Seq(Segments), m # <<>>
    PROVE  /\ Len(m) \in Nat \ {0} /\ Last(m) = m[Len(m)] /\ Last(m) \in Segments
           /\ \A i \in 1..Len(m) : m[i] \in Segments
           /\ DOMAIN m = 1..Len(m)
           /\ Len(m) > 1 => Prev(m) \in Segments /\ Len(m) - 1 \in DOMAIN m
<1>1. Len(m) \in Nat \ {0} /\ DOMAIN m = 1..Len(m)
  BY EmptySeq, LenProperties
<1>2. \A i \in 1..Len(m) : m[i] \in Segments
  BY ElementOfSeq
<1> QED
  BY <1>1, <1>2 DEF Last, Prev

LEMMA EventsOfLast ==
    ASSUME NEW m \in Seq(Segments), m # <<>>
    PROVE  /\ Before(m) \in Seq(Words) /\ After(m) \in Seq(Words)
           /\ Shadowed(m, Len(m)) \/ Last(m).form \notin Forms => After(m) = Before(m)
           /\ ~Shadowed(m, Len(m)) => After(m) = Before(m) \o ItemsIn(Last(m))
<1> DEFINE n == Len(m) - 1  e == EventsAt(m, n + 1)
<1>1. n \in Nat /\ n + 1 = Len(m) /\ Len(m) \in Nat /\ Last(m) = m[Len(m)]
  BY LastIs
<1> HIDE DEF n
<1>2. /\ Before(m) = EventsWithin(m, n) /\ After(m) = EventsWithin(m, n + 1)
  BY <1>1 DEF Before, After, n
<1>3. /\ EventsWithin(m, n) \in Seq(Words) /\ e \in Seq(Words)
      /\ EventsWithin(m, n + 1) = EventsWithin(m, n) \o e
  BY <1>1, EventsAre
<1>4. EventsWithin(m, n + 1) \in Seq(Words)
  <2>1. n + 1 \in Nat
    BY <1>1
  <2> QED
    BY <2>1, EventsAre
<1>5. e = IF Shadowed(m, Len(m)) THEN <<>> ELSE ItemsIn(Last(m))
  BY <1>1 DEF EventsAt
<1>6. Last(m).form \notin Forms => ItemsIn(Last(m)) = <<>>
  <2> HAVE Last(m).form \notin Forms
  <2>1. Last(m).value = "none"
    BY LastIs, SegmentIs
  <2>2. "none" \notin DOMAIN ItemsOf
    BY DEF ItemsOf
  <2> QED
    BY <2>1, <2>2 DEF ItemsIn
<1>7. EventsWithin(m, n) \o <<>> = EventsWithin(m, n)
  BY <1>3, ConcatEmptySeq
<1> HIDE DEF e
<1> QED
  BY <1>2, <1>3, <1>4, <1>5, <1>6, <1>7

(* Within the first line.                                                   *)
LEMMA LeadStep ==
    ASSUME NEW f \in FoundSet, NEW m \in Seq(Segments), m # <<>>, NEW k \in Nat,
           NEW s, s = Last(m), k < Len(Lead(s)), NEW fe,
           AtLead(f.scanner, fe, m, LeadTo(s, k)),
           NEW g, g = Take(f, Atoms(s)[k + 1])
    PROVE  Keeps(f, g, fe, FALSE, m, k)
<1> DEFINE l == Lead(s)  x == Atoms(s)[k + 1]  p == LeadTo(s, k)
<1>1. s \in Segments /\ l \in Seq(Text) /\ Len(l) \in 1..3 /\ k + 1 \in 1..Len(l)
  BY LastIs, LeadIs
<1>2. x = l[k + 1] /\ x # Newline
  BY <1>1, AtomsIn
<1>3. x \in Text \ {Newline}
  BY <1>1, <1>2, ElementOfSeq
<1>4. p \in Seq(Text) /\ LeadTo(s, k + 1) = Append(p, x)
  <2>1. p \in Seq(Text)
    <3>1. \A i \in 1..k : l[i] \in Text
      BY <1>1, ElementOfSeq
    <3> QED
      BY <3>1, SubSeqProperties DEF LeadTo
  <2>2. SubSeq(l, 1, k + 1) = SubSeq(l, 1, (k + 1) - 1) \o <<l[k + 1]>>
    <3>1. 1 \in 1..Len(l) /\ k + 1 \in 1..Len(l)
      BY <1>1
    <3> QED
      BY <1>1, <3>1, SubSeqRecursiveSecond
  <2>3. (k + 1) - 1 = k
    OBVIOUS
  <2>4. Append(p, x) = p \o <<x>>
    BY <1>3, <2>1, AppendIsConcat
  <2> QED
    BY <1>2, <2>1, <2>2, <2>3, <2>4 DEF LeadTo
<1>5. Append(<<Fence>> \o p, x) = <<Fence>> \o Append(p, x)
  <2> DEFINE h == <<Fence>>
  <2>1. h \in Seq(Text)
    BY DEF Text
  <2> HIDE DEF h, l, x, p
  <2>2. x \in Text /\ p \in Seq(Text)
    BY <1>3, <1>4
  <2> DEFINE T == Text
  <2>3. h \in Seq(T) /\ p \in Seq(T) /\ x \in T
    BY <2>1, <2>2
  <2> HIDE DEF T
  <2>4. h \o Append(p, x) = Append(h \o p, x)
    BY <2>3, ConcatAppend
  <2> QED
    BY <2>4 DEF h
<1> HIDE DEF l, x, p
<1>6. /\ g \in FoundSet /\ g.blocks = f.blocks
      /\ \A q, b : /\ Outside(f.scanner, q) => Outside(g.scanner, Append(q, x))
                   /\ Inside(f.scanner, q, b) => Inside(g.scanner, Append(q, x), b)
  BY <1>3, TextStep DEF x
<1>7. AtLead(g.scanner, fe, m, Append(p, x))
  BY <1>5, <1>6 DEF AtLead, p
<1>8. k + 1 <= Len(Lead(s))
  BY <1>1 DEF l
<1>9. Tracked(g.scanner, fe, m, k + 1)
  BY <1>4, <1>7, <1>8 DEF Tracked, p, x
<1> QED
  BY <1>6, <1>9 DEF Keeps, Sync

(* Within the block.                                                        *)
LEMMA BlockStep ==
    ASSUME NEW f \in FoundSet, NEW m \in Seq(Segments), m # <<>>, NEW k \in Nat,
           NEW s, s = Last(m), k < Len(Atoms(s)), NEW fe,
           s.form \in Forms, ~Shadowed(m, Len(m)), k > BlockAt(s),
           InBlock(f.scanner, fe, m, k - BlockAt(s)),
           NEW g, g = Take(f, Atoms(s)[k + 1])
    PROVE  Keeps(f, g, fe, FALSE, m, k)
<1> DEFINE c == BlockAt(s)  v == s.value  a == Atoms(s)
<1>1. /\ s \in Segments /\ v \in Values /\ v \notin {Fence, Tag, Newline}
      /\ v \in Text /\ Fence \in Text /\ Fence # Newline
  BY LastIs, SegmentIs DEF Text, Fence, Newline
<1>2. /\ c \in 1..3 /\ Len(a) = c + Rest(s) /\ Rest(s) \in {3, 4, 5}
      /\ a[c + 2] = v /\ a[c + 3] = Newline
      /\ Rest(s) > 3 => a[c + 4] = Fence
      /\ Rest(s) > 4 => a[c + 5] = Newline
  BY <1>1, AtomsIn DEF Rest
<1> HIDE DEF c, v, a
<1>3. fe = Before(m) /\ InBlock(f.scanner, fe, m, k - c) /\ Last(m).value = v
  BY DEF InBlock, c, v
<1>t. ASSUME NEW j \in {2, 3, 4}, k + 1 = c + j, InBlock(g.scanner, fe, m, j),
             g.blocks = f.blocks
      PROVE  Keeps(f, g, fe, FALSE, m, k)
  <2>1. k + 1 > BlockAt(s) /\ (k + 1) - BlockAt(s) = j
    BY <1>2, <1>t DEF c
  <2>2. Tracked(g.scanner, fe, m, k + 1)
    BY <1>t, <2>1 DEF Tracked
  <2> QED
    BY <1>t, <2>2 DEF Keeps, Sync
<1>4. CASE k - c = 1 /\ Inside(f.scanner, <<>>, <<>>)
  <2>1. k + 1 = c + 2 /\ g = Take(f, v)
    BY <1>2, <1>4 DEF a
  <2>2. g.blocks = f.blocks /\ Inside(g.scanner, Append(<<>>, v), <<>>)
    <3>1. v \in Text \ {Newline}
      BY <1>1
    <3>2. \A p, b : Inside(f.scanner, p, b) => Inside(g.scanner, Append(p, v), b)
      BY <2>1, <3>1, TextStep
    <3>3. g.blocks = f.blocks
      BY <2>1, <3>1, TextStep
    <3> QED
      BY <1>4, <3>2, <3>3
  <2>3. Append(<<>>, v) = <<v>>
    OBVIOUS
  <2> QED
    BY <1>3, <1>t, <2>1, <2>2, <2>3 DEF InBlock
<1>5. CASE k - c = 2 /\ Inside(f.scanner, <<v>>, <<>>)
  <2>1. k + 1 = c + 3 /\ g = Take(f, Newline)
    BY <1>2, <1>5 DEF a
  <2>2. <<v>>[1] # Fence
    BY <1>1
  <2>3. /\ f.scanner.inside /\ ~f.scanner.bare /\ f.scanner.pending = <<v>>
        /\ f.scanner.body = <<>>
    BY <1>5 DEF Inside
  <2>a. f.scanner.pending # <<>> => f.scanner.pending[1] # Fence
    BY <2>2, <2>3
  <2>b. /\ g.blocks = f.blocks /\ g.scanner.inside
        /\ (g.scanner.bare <=> f.scanner.bare) /\ g.scanner.pending = <<>>
        /\ g.scanner.body = Append(f.scanner.body, f.scanner.pending)
    BY <2>1, <2>3, <2>a, LineGrows
  <2>4. /\ g.blocks = f.blocks /\ g.scanner.inside /\ ~g.scanner.bare
        /\ g.scanner.pending = <<>> /\ g.scanner.body = Append(<<>>, <<v>>)
    BY <2>3, <2>b
  <2>5. Append(<<>>, <<v>>) = <<<<v>>>>
    <3> DEFINE x == <<v>>
    <3> HIDE DEF x
    <3>1. Append(<<>>, x) = <<x>>
      OBVIOUS
    <3> QED
      BY <3>1 DEF x
  <2>6. Inside(g.scanner, <<>>, <<<<v>>>>)
    BY <2>4, <2>5 DEF Inside
  <2> QED
    BY <1>3, <1>t, <2>1, <2>4, <2>6 DEF InBlock
<1>6. CASE k - c = 3 /\ Inside(f.scanner, <<>>, <<<<v>>>>)
  <2>1. k + 1 = c + 4 /\ g = Take(f, Fence)
    BY <1>2, <1>6 DEF a
  <2>2. g.blocks = f.blocks /\ Inside(g.scanner, Append(<<>>, Fence), <<<<v>>>>)
    <3>1. Fence \in Text \ {Newline}
      BY <1>1
    <3>2. \A p, b : Inside(f.scanner, p, b) => Inside(g.scanner, Append(p, Fence), b)
      BY <2>1, <3>1, TextStep
    <3>3. g.blocks = f.blocks
      BY <2>1, <3>1, TextStep
    <3> QED
      BY <1>6, <3>2, <3>3
  <2>3. Append(<<>>, Fence) = <<Fence>>
    OBVIOUS
  <2> QED
    BY <1>3, <1>t, <2>1, <2>2, <2>3 DEF InBlock
<1>7. CASE k - c = 4 /\ Inside(f.scanner, <<Fence>>, <<<<v>>>>)
  <2>1. k + 1 = Len(a) /\ g = Take(f, Newline) /\ Rest(s) = 5
    BY <1>2, <1>7 DEF a
  <2>2. /\ f.scanner.inside /\ f.scanner.pending = <<Fence>>
        /\ f.scanner.body = <<<<v>>>>
    BY <1>7 DEF Inside
  <2>3. Outside(g.scanner, <<>>) /\ Ends(f, g, FALSE)
    BY <2>1, <2>2, LineCloses
  <2>4. PICK b \in Block : g.blocks = Append(f.blocks, b) /\ b.body = <<<<v>>>>
    BY <2>2, <2>3 DEF Ends
  <2>5. fe \o Valid(b.body) = After(m)
    BY <1>3, <2>4, ValidLine, EventsOfLast DEF v
  <2>6. s.form # "unclosed"
    BY <2>1 DEF Rest
  <2>7. Tracked(g.scanner, fe \o Valid(b.body), m, k + 1)
    BY <2>1, <2>3, <2>5, <2>6 DEF Tracked, a
  <2> QED
    BY <2>4, <2>7 DEF Keeps, Sync
<1> QED
  BY <1>3, <1>4, <1>5, <1>6, <1>7 DEF InBlock

(* Past the opening of a block that is not split in two.                    *)
LEMMA OpenedBlock ==
    ASSUME NEW g, NEW m \in Seq(Segments), m # <<>>,
           NEW s, s = Last(m), NEW k, k = Len(Lead(s)),
           Lead(s) \in {Opening, Welded}, Inside(g.scanner, <<>>, <<>>),
           NEW fe, fe = Before(m), NEW broken
    PROVE  Sync(g.scanner, fe, broken, m, k + 1)
<1>1. s \in Segments /\ Len(Lead(s)) \in 1..3
  BY LastIs, LeadIs
<1>2. s.form \in {"clean", "tight", "unclosed", "welded"}
  <2>1. Len(Opening) = 2 /\ Len(Welded) = 3
    BY DEF Opening, Welded
  <2>2. Len(Lead(s)) \in {2, 3}
    BY <2>1
  <2>2a. Len(<<"prose">>) = 1 /\ Len(<<Fence>>) = 1
    OBVIOUS
  <2>3. s.form \notin {"split", "fence"}
    <3> SUFFICES ASSUME s.form \in {"split", "fence"} PROVE FALSE
      OBVIOUS
    <3>1. Lead(s) = <<Fence>>
      BY <1>1, LeadIs
    <3> QED
      BY <2>2, <2>2a, <3>1
  <2>4. s.form # "prose"
    <3> SUFFICES ASSUME s.form = "prose" PROVE FALSE
      OBVIOUS
    <3>1. Lead(s) = <<"prose">>
      BY <1>1, LeadIs
    <3> QED
      BY <2>2, <2>2a, <3>1
  <2> QED
    BY <1>1, <2>3, <2>4, SegmentIs DEF Forms
<1>3. s.form \in Forms /\ BlockAt(s) = k /\ ~Shadowed(m, Len(m))
  <2>1. s.form \in Forms /\ s.form # "split"
    BY <1>2 DEF Forms
  <2>2. m[Len(m)] = s
    BY LastIs
  <2> QED
    BY <2>1, <2>2 DEF BlockAt, Shadowed
<1>4. k + 1 > BlockAt(s) /\ (k + 1) - BlockAt(s) = 1
  BY <1>1, <1>3
<1>5. Tracked(g.scanner, fe, m, k + 1)
  BY <1>3, <1>4 DEF Tracked, InBlock
<1> QED
  BY <1>5 DEF Sync

(* Past a first line that opens nothing.                                    *)
LEMMA NothingOpened ==
    ASSUME NEW g, NEW m \in Seq(Segments), m # <<>>,
           NEW s, s = Last(m), Lead(s) \notin {Opening, Welded},
           Outside(g.scanner, <<>>),
           Shadowed(m, Len(m)) => ~g.scanner.bare,
           ~Shadowed(m, Len(m)) => g.scanner.bare = (Lead(s) = <<Fence>>),
           NEW fe, fe = Before(m), NEW broken
    PROVE  Sync(g.scanner, fe, broken, m, 2) /\ Len(Lead(s)) = 1
<1>1. s \in Segments /\ Len(Lead(s)) = 1
  BY LastIs, LeadIs
<1>2. s.form \in {"split", "prose", "fence"}
  BY <1>1, SegmentIs, LeadIs DEF Forms
<1>3. CASE s.form = "split" /\ ~Shadowed(m, Len(m))
  <2>1. g.scanner.bare
    BY <1>1, <1>3, LeadIs
  <2>2. Tracked(g.scanner, fe, m, 2)
    BY <1>3, <2>1 DEF Tracked
  <2> QED
    BY <1>1, <2>2 DEF Sync
<1>4. CASE s.form # "split" \/ Shadowed(m, Len(m))
  <2>1. Plain(g.scanner, fe, m, 2)
    BY <1>2, <1>4 DEF Plain
  <2>2. s.form \notin Forms \/ Shadowed(m, Len(m))
    BY <1>2, <1>4 DEF Forms
  <2>3. Tracked(g.scanner, fe, m, 2)
    BY <2>1, <2>2 DEF Tracked
  <2> QED
    BY <1>1, <2>3 DEF Sync
<1> QED
  BY <1>3, <1>4

(* The first line ends.                                                     *)
LEMMA HeadStep ==
    ASSUME NEW f \in FoundSet, NEW m \in Seq(Segments), m # <<>>, NEW k \in Nat,
           NEW s, s = Last(m), k = Len(Lead(s)), NEW fe,
           AtLead(f.scanner, fe, m, LeadTo(s, k)),
           NEW g, g = Take(f, Atoms(s)[k + 1])
    PROVE  Keeps(f, g, fe, FALSE, m, k)
<1> DEFINE l == Lead(s)
<1>1. /\ s \in Segments /\ l \in Seq(Text) /\ l # <<>> /\ l # <<Tag>>
      /\ l \notin {Opening, Welded} => Len(l) = 1
      /\ Len(m) \in Nat \ {0} /\ m[Len(m)] = s
      /\ s.form \in {"clean", "tight", "unclosed"} => l = Opening
      /\ s.form = "welded" => l = Welded
      /\ s.form \in {"split", "fence"} => l = <<Fence>>
      /\ s.form = "prose" => l = <<"prose">>
  BY LastIs, LeadIs
<1>2. g = Take(f, Newline)
  BY <1>1, AtomsIn
<1>3. LeadTo(s, k) = l
  BY <1>1, SubSeqFull DEF LeadTo
<1>k. k = Len(l) /\ (k = 1 => k + 1 = 2)
  <2>1. k = Len(l)
    OBVIOUS
  <2>2. k = 1 => k + 1 = 2
    OBVIOUS
  <2> QED
    BY <2>1, <2>2
<1>o. /\ l \in {Opening, Welded} => Lead(s) \in {Opening, Welded}
      /\ l \notin {Opening, Welded} => Lead(s) \notin {Opening, Welded}
      /\ (l = <<Fence>>) <=> (Lead(s) = <<Fence>>)
      /\ Len(Lead(s)) = 1 => Len(l) = 1
  OBVIOUS
<1> HIDE DEF l
<1>s. Shadowed(m, Len(m)) <=> s.form = "split" /\ Len(m) > 1 /\ Prev(m).form = "unclosed"
  BY <1>1 DEF Shadowed, Prev
<1>4. CASE /\ Outside(f.scanner, l) /\ fe = Before(m)
           /\ Len(m) > 1 => Prev(m).form # "unclosed"
  <2>1. /\ ~f.scanner.inside /\ f.scanner.pending = l /\ ~Shadowed(m, Len(m))
    BY <1>4, <1>s DEF Outside
  <2>2. CASE l \in {Opening, Welded}
    <3>1. g.blocks = f.blocks /\ Inside(g.scanner, <<>>, <<>>)
      BY <1>2, <2>1, <2>2, LineOpens
    <3>2. Sync(g.scanner, fe, FALSE, m, k + 1)
      BY <1>4, <1>o, <2>2, <3>1, OpenedBlock
    <3> QED
      BY <3>1, <3>2 DEF Keeps
  <2>3. CASE l \notin {Opening, Welded}
    <3>0. Len(l) = 1
      BY <1>1, <2>3, Zenon
    <3>1. Len(f.scanner.pending) <= 1 /\ f.scanner.pending # <<Tag>>
      BY <1>1, <2>1, <3>0
    <3>2. g.blocks = f.blocks /\ Outside(g.scanner, <<>>)
      BY <1>2, <2>1, <3>1, LineStays
    <3>3. g.scanner.bare = (l = <<Fence>>)
      <4>1. g.scanner.bare = (f.scanner.pending = <<Fence>>)
        BY <1>2, <2>1, <3>1, LineStays
      <4> QED
        BY <2>1, <4>1
    <3>3a. g.scanner.bare = (Lead(s) = <<Fence>>)
      BY <1>o, <3>3
    <3>4. Sync(g.scanner, fe, FALSE, m, 2) /\ k = 1
      BY <1>4, <1>o, <2>1, <2>3, <3>2, <3>3a, NothingOpened
    <3>5. Sync(g.scanner, fe, FALSE, m, k + 1)
      BY <1>k, <3>4
    <3> QED
      BY <3>2, <3>5 DEF Keeps
  <2> QED
    BY <2>2, <2>3
<1>5. CASE /\ Len(m) > 1 /\ Prev(m).form = "tight"
           /\ Inside(f.scanner, <<Fence>> \o l, <<<<Prev(m).value>>>>)
           /\ fe \o ItemsIn(Prev(m)) = Before(m)
  <2>1. /\ f.scanner.inside /\ ~f.scanner.bare /\ ~Shadowed(m, Len(m))
        /\ f.scanner.pending = <<Fence>> \o l
        /\ f.scanner.body = <<<<Prev(m).value>>>>
    BY <1>5, <1>s DEF Inside
  <2>2. Ends(f, g, TRUE)
    BY <1>1, <1>2, <2>1, LineClosesWelded
  <2>3. PICK b \in Block :
          g.blocks = Append(f.blocks, b) /\ b.body = <<<<Prev(m).value>>>>
    BY <2>1, <2>2 DEF Ends
  <2>4. fe \o Valid(b.body) = Before(m)
    BY <1>5, <2>3, ValidLine
  <2> DEFINE w == fe \o Valid(b.body)
  <2> HIDE DEF w
  <2>5. w = Before(m)
    BY <2>4 DEF w
  <2>6. CASE l \in {Opening, Welded}
    <3>1. Inside(g.scanner, <<>>, <<>>)
      BY <1>1, <1>2, <2>1, <2>6, LineClosesWelded
    <3>2. Sync(g.scanner, w, FALSE \/ Broken(b), m, k + 1)
      BY <1>o, <2>5, <2>6, <3>1, OpenedBlock
    <3> QED
      BY <2>3, <3>2 DEF Keeps, w
  <2>7. CASE l \notin {Opening, Welded}
    <3>0. Len(l) = 1
      BY <1>1, <2>7, Zenon
    <3>1. Len(l) <= 1
      BY <3>0
    <3>2. Outside(g.scanner, <<>>)
      BY <1>1, <1>2, <2>1, <3>1, LineClosesWelded
    <3>3. g.scanner.bare = (l = <<Fence>>)
      BY <1>1, <1>2, <2>1, <3>1, LineClosesWelded
    <3>3a. g.scanner.bare = (Lead(s) = <<Fence>>)
      BY <1>o, <3>3
    <3>4. Sync(g.scanner, w, FALSE \/ Broken(b), m, 2) /\ k = 1
      BY <1>o, <2>1, <2>5, <2>7, <3>2, <3>3a, NothingOpened
    <3>5. Sync(g.scanner, w, FALSE \/ Broken(b), m, k + 1)
      BY <1>k, <3>4
    <3> QED
      BY <2>3, <3>5 DEF Keeps, w
  <2> QED
    BY <2>6, <2>7
<1>6. CASE /\ Len(m) > 1 /\ Prev(m).form = "unclosed"
           /\ Inside(f.scanner, l, <<<<Prev(m).value>>>>)
           /\ fe \o ItemsIn(Prev(m)) = Before(m)
  <2>0. Opened(m) /\ Prev(m).value \in Text
    <3>1. Len(m) - 1 \in DOMAIN m /\ Prev(m) \in Segments
      BY <1>6, LastIs
    <3>2. Prev(m).form \in Forms
      BY <1>6 DEF Forms
    <3> QED
      BY <1>6, <3>1, <3>2, SegmentIs DEF Opened, Prev, Text
  <2>1. /\ f.scanner.inside /\ ~f.scanner.bare /\ f.scanner.pending = l
        /\ f.scanner.body = <<<<Prev(m).value>>>>
    BY <1>6 DEF Inside
  <2>2. CASE l = Opening
    <3>a. Len(l) = 2 /\ l[1] = Fence
      BY <2>2 DEF Opening
    <3>b. 1 \in 1..Len(l) /\ Len(l) \in 1..Len(l) /\ l # <<>>
      BY <1>1, <3>a
    <3>c. /\ SubSeq(l, 1, Len(l)) = <<l[1]>> \o SubSeq(l, 1 + 1, Len(l))
          /\ SubSeq(l, 1, Len(l)) = l /\ Tail(l) = SubSeq(l, 2, Len(l))
      BY <1>1, <3>b, SubSeqRecursiveFirst, SubSeqFull, TailIsSubSeq
    <3>d. Tail(l) \in Seq(Text) /\ Len(Tail(l)) = 1
      BY <1>1, <3>a, <3>b, HeadTailProperties
    <3>e. l = <<Fence>> \o Tail(l) /\ Tail(l) # <<>>
      <4>1. 1 + 1 = 2
        OBVIOUS
      <4>2. l = <<Fence>> \o SubSeq(l, 2, Len(l))
        BY <3>a, <3>c, <4>1, Zenon
      <4>3. l = <<Fence>> \o Tail(l)
        BY <3>c, <4>2, Zenon
      <4>4. Len(<<>>) = 0
        OBVIOUS
      <4>5. Tail(l) # <<>>
        <5> DEFINE n == Len(Tail(l))  o == Len(<<>>)
        <5>1. n = 1 /\ o = 0 /\ (Tail(l) = <<>> => n = o)
          BY <3>d, <4>4
        <5> HIDE DEF n, o
        <5> QED
          BY <5>1
      <4> QED
        BY <4>3, <4>5
    <3> DEFINE rest == Tail(l)
    <3>1. l = <<Fence>> \o rest /\ rest \in Seq(Text) /\ rest # <<>>
      BY <3>d, <3>e
    <3> HIDE DEF rest
    <3>2. Ends(f, g, TRUE)
      BY <1>2, <2>1, <3>1, LineClosesWelded
    <3>3. PICK b \in Block : g.blocks = Append(f.blocks, b) /\ b.drift
      BY <3>2 DEF Ends
    <3> QED
      BY <2>0, <3>3 DEF Keeps, Sync, Broken
  <2>3. CASE l = <<Fence>>
    <3>1. /\ Ends(f, g, FALSE) /\ Outside(g.scanner, <<>>)
          /\ (g.scanner.bare <=> f.scanner.bare)
      BY <1>2, <2>1, <2>3, LineCloses
    <3>2. PICK b \in Block :
            g.blocks = Append(f.blocks, b) /\ b.body = <<<<Prev(m).value>>>>
      BY <2>1, <3>1 DEF Ends
    <3>3. fe \o Valid(b.body) = Before(m)
      BY <1>6, <3>2, ValidLine
    <3> DEFINE w == fe \o Valid(b.body)
    <3> HIDE DEF w
    <3>4. w = Before(m)
      BY <3>3 DEF w
    <3>5. s.form \in {"split", "fence"}
      <4>1. "prose" # Fence /\ <<"prose">>[1] = "prose" /\ <<Fence>>[1] = Fence
        BY DEF Fence
      <4>2. Len(Opening) = 2 /\ Len(Welded) = 3
        BY DEF Opening, Welded
      <4>3. Len(<<Fence>>) = 1
        OBVIOUS
      <4>4. s.form # "prose"
        BY <1>1, <2>3, <4>1
      <4>5. s.form \notin {"clean", "tight", "unclosed", "welded"}
        <5>1. Len(l) = 1
          BY <2>3, <4>3
        <5>2. l # Opening /\ l # Welded
          <6> DEFINE n == Len(l)  o == Len(Opening)  v == Len(Welded)
          <6>1. n = 1 /\ o = 2 /\ v = 3
            BY <4>2, <5>1
          <6>2. (l = Opening => n = o) /\ (l = Welded => n = v)
            OBVIOUS
          <6> HIDE DEF n, o, v
          <6> QED
            BY <6>1, <6>2
        <5> QED
          BY <1>1, <5>2
      <4> QED
        BY <1>1, <4>4, <4>5, SegmentIs DEF Forms
    <3>6. Plain(g.scanner, w, m, 2)
      BY <2>1, <3>1, <3>4 DEF Plain
    <3>7. s.form \notin Forms \/ Shadowed(m, Len(m))
      BY <1>6, <1>s, <3>5 DEF Forms
    <3>8. Sync(g.scanner, w, FALSE \/ Broken(b), m, 2)
      BY <3>6, <3>7 DEF Sync, Tracked
    <3>9. k + 1 = 2
      <4>1. Len(<<Fence>>) = 1
        OBVIOUS
      <4> QED
        BY <1>k, <2>3, <4>1
    <3>10. Sync(g.scanner, w, FALSE \/ Broken(b), m, k + 1)
      BY <3>8, <3>9
    <3> QED
      BY <3>2, <3>10 DEF Keeps, w
  <2>4. CASE l = Welded \/ l = <<"prose">>
    <3>1. l[1] # Fence
      <4>1. Welded[1] = "prose" /\ "prose" # Fence
        BY DEF Welded, Fence
      <4>2. <<"prose">>[1] = "prose"
        OBVIOUS
      <4> QED
        BY <2>4, <4>1, <4>2
    <3>2. f.scanner.pending # <<>> => f.scanner.pending[1] # Fence
      BY <2>1, <3>1
    <3>3. /\ g.blocks = f.blocks /\ g.scanner.inside
          /\ g.scanner.body = Append(f.scanner.body, f.scanner.pending)
      BY <1>2, <2>1, <3>2, LineGrows
    <3>4. Junk(Append(<<<<Prev(m).value>>>>, l))
      BY <1>1, <2>0, JunkOfTwo
    <3> QED
      BY <2>0, <2>1, <3>3, <3>4 DEF Keeps, Sync
  <2>5. l \in {Opening, Welded, <<Fence>>, <<"prose">>}
    BY <1>1, SegmentIs DEF Forms
  <2> QED
    BY <2>2, <2>3, <2>4, <2>5
<1> QED
  BY <1>3, <1>4, <1>5, <1>6 DEF AtLead

(* From the fence of a split opening to the end of its tag's line.          *)
LEMMA SplitStep ==
    ASSUME NEW f \in FoundSet, NEW m \in Seq(Segments), m # <<>>, NEW k \in {2, 3},
           NEW s, s = Last(m), s.form = "split", ~Shadowed(m, Len(m)),
           f.scanner.bare, NEW fe, fe = Before(m),
           \/ k = 2 /\ Outside(f.scanner, <<>>)
           \/ k = 3 /\ Outside(f.scanner, <<Tag>>),
           NEW g, g = Take(f, Atoms(s)[k + 1])
    PROVE  Keeps(f, g, fe, FALSE, m, k)
<1>1. /\ s \in Segments /\ Atoms(s)[3] = Tag /\ Atoms(s)[4] = Newline
      /\ s.form \in Forms /\ BlockAt(s) = 3
  <2>1. s \in Segments
    BY LastIs
  <2>2. BlockAt(s) = 3 /\ s.form \in Forms
    BY DEF BlockAt, Forms
  <2> QED
    BY <2>1, <2>2, AtomsAre
<1>2. CASE k = 2 /\ Outside(f.scanner, <<>>)
  <2>1. k + 1 = 3
    BY <1>2
  <2>2. g = Take(f, Tag)
    BY <1>1, <2>1
  <2>3. Tag \in Text \ {Newline}
    BY DEF Text, Tag, Newline
  <2>4. g.blocks = f.blocks /\ g.scanner.bare
    BY <2>2, <2>3, TextStep
  <2>5. \A p, b : Outside(f.scanner, p) => Outside(g.scanner, Append(p, Tag))
    BY <2>2, <2>3, TextStep
  <2>6. Append(<<>>, Tag) = <<Tag>>
    OBVIOUS
  <2>7. Outside(g.scanner, <<Tag>>)
    BY <1>2, <2>5, <2>6
  <2>8. Tracked(g.scanner, fe, m, k + 1)
    BY <2>1, <2>4, <2>7 DEF Tracked
  <2> QED
    BY <2>4, <2>8 DEF Keeps, Sync
<1>3. CASE k = 3 /\ Outside(f.scanner, <<Tag>>)
  <2>1. k + 1 = 4
    BY <1>3
  <2>2. g = Take(f, Newline)
    BY <1>1, <2>1
  <2>3. ~f.scanner.inside /\ f.scanner.pending = <<Tag>>
    BY <1>3 DEF Outside
  <2>4. g.blocks = f.blocks /\ Inside(g.scanner, <<>>, <<>>)
    BY <2>2, <2>3, LineOpens
  <2>5. k + 1 > BlockAt(s) /\ (k + 1) - BlockAt(s) = 1
    BY <1>1, <2>1
  <2>6. Tracked(g.scanner, fe, m, k + 1)
    BY <1>1, <2>4, <2>5 DEF Tracked, InBlock
  <2> QED
    BY <2>4, <2>6 DEF Keeps, Sync
<1> QED
  BY <1>2, <1>3

(* The atoms of the segments the scanner reads as no block.                 *)
LEMMA PlainAtoms ==
    ASSUME NEW s \in Segments, s.form = "split" \/ s.form \notin Forms,
           NEW a, a = Atoms(s), NEW k \in 2..8, k < Len(a)
    PROVE  /\ s.form \in {"split", "fence"}
           /\ k \in {2, 4, 6} => a[k + 1] \in Text \ {Newline}
           /\ k \in {3, 5, 7} => a[k + 1] = Newline
           /\ k \in {3, 5, 7} /\ a[k] = Tag => s.form = "split" /\ k = 3
           /\ k \in 2..7
<1>1. /\ Fence \in Text \ {Newline} /\ Tag \in Text \ {Newline}
      /\ "prose" \in Text \ {Newline} /\ Fence # Tag /\ "prose" # Tag
  BY DEF Text, Fence, Tag, Newline
<1>2. CASE s.form = "split"
  <2>1. /\ Len(a) = 8 /\ a[1] = Fence /\ a[2] = Newline /\ a[3] = Tag
        /\ a[4] = Newline /\ a[5] = s.value /\ a[6] = Newline /\ a[7] = Fence
        /\ a[8] = Newline
    BY <1>2, AtomsAre
  <2>2. s.value \in Text \ {Newline} /\ s.value # Tag
    BY <1>2, SegmentIs DEF Forms, Text
  <2>3. k \in {2, 3, 4, 5, 6, 7}
    BY <2>1
  <2> QED
    BY <1>1, <1>2, <2>1, <2>2, <2>3
<1>3. CASE s.form = "fence"
  <2>1. /\ Len(a) = 6 /\ a[1] = Fence /\ a[2] = Newline /\ a[3] = "prose"
        /\ a[4] = Newline /\ a[5] = Fence /\ a[6] = Newline
    BY <1>3, AtomsAre
  <2>2. k \in {2, 3, 4, 5}
    BY <2>1
  <2> QED
    BY <1>1, <1>3, <2>1, <2>2
<1>4. CASE s.form = "prose"
  <2>1. Len(a) = 2
    BY <1>4, AtomsAre
  <2> QED
    BY <2>1
<1> QED
  BY <1>2, <1>3, <1>4, SegmentIs DEF Forms

(* Within lines that are no block.                                          *)
LEMMA PlainStep ==
    ASSUME NEW f \in FoundSet, NEW m \in Seq(Segments), m # <<>>, NEW k \in Nat,
           NEW s, s = Last(m), k < Len(Atoms(s)), NEW fe,
           s.form \notin Forms \/ Shadowed(m, Len(m)),
           Plain(f.scanner, fe, m, k),
           NEW g, g = Take(f, Atoms(s)[k + 1])
    PROVE  Keeps(f, g, fe, FALSE, m, k)
<1> DEFINE a == Atoms(s)
<1>1. s \in Segments /\ (s.form = "split" \/ s.form \notin Forms)
  BY LastIs DEF Shadowed
<1>2. /\ fe = Before(m) /\ (s.form = "split" /\ k < 4 => ~f.scanner.bare)
      /\ \/ k \in {2, 4, 6, 8} /\ Outside(f.scanner, <<>>)
         \/ k \in {3, 5, 7} /\ Outside(f.scanner, <<a[k]>>)
  BY DEF Plain
<1>3. k \in 2..8 /\ k < Len(a)
  BY <1>2
<1>4. /\ k \in {2, 4, 6} => a[k + 1] \in Text \ {Newline}
      /\ k \in {3, 5, 7} => a[k + 1] = Newline
      /\ k \in {3, 5, 7} /\ a[k] = Tag => s.form = "split" /\ k = 3
      /\ k \in 2..7
  BY <1>1, <1>3, PlainAtoms
<1>5. ASSUME g.blocks = f.blocks, Plain(g.scanner, fe, m, k + 1)
      PROVE  Keeps(f, g, fe, FALSE, m, k)
  <2>1. Tracked(g.scanner, fe, m, k + 1)
    BY <1>5 DEF Tracked
  <2> QED
    BY <1>5, <2>1 DEF Keeps, Sync
<1> HIDE DEF a
<1>6. CASE k \in {2, 4, 6, 8} /\ Outside(f.scanner, <<>>)
  <2> DEFINE x == a[k + 1]
  <2>1. x \in Text \ {Newline} /\ k \in {2, 4, 6}
    BY <1>4, <1>6
  <2>2. g = Take(f, x)
    BY DEF a
  <2> HIDE DEF x
  <2>3. g.blocks = f.blocks /\ (g.scanner.bare <=> f.scanner.bare)
    BY <2>1, <2>2, TextStep
  <2>4. \A p, b : Outside(f.scanner, p) => Outside(g.scanner, Append(p, x))
    BY <2>1, <2>2, TextStep
  <2>5. Append(<<>>, x) = <<x>>
    OBVIOUS
  <2>6. Outside(g.scanner, <<x>>)
    BY <1>6, <2>4, <2>5
  <2>7. k + 1 \in {3, 5, 7} /\ (k + 1 < 4 => k < 4)
    BY <2>1
  <2>8. s.form = "split" /\ k + 1 < 4 => ~g.scanner.bare
    BY <1>2, <2>3, <2>7
  <2>9. Plain(g.scanner, fe, m, k + 1)
    BY <1>2, <2>6, <2>7, <2>8 DEF Plain, x, a
  <2> QED
    BY <1>5, <2>3, <2>9
<1>7. CASE k \in {3, 5, 7} /\ Outside(f.scanner, <<a[k]>>)
  <2>1. g = Take(f, Newline)
    BY <1>4, <1>7 DEF a
  <2>2. ~f.scanner.inside /\ f.scanner.pending = <<a[k]>>
    BY <1>7 DEF Outside
  <2>3. Len(f.scanner.pending) <= 1
    <3>1. Len(<<a[k]>>) = 1
      OBVIOUS
    <3> QED
      BY <2>2, <3>1
  <2>4. ~(f.scanner.bare /\ f.scanner.pending = <<Tag>>)
    <3>1. <<a[k]>> = <<Tag>> => a[k] = Tag
      OBVIOUS
    <3>2. f.scanner.pending = <<Tag>> => s.form = "split" /\ k = 3
      BY <1>4, <1>7, <2>2, <3>1
    <3> QED
      BY <1>2, <3>2
  <2>5. g.blocks = f.blocks /\ Outside(g.scanner, <<>>)
    BY <2>1, <2>2, <2>3, <2>4, LineStays
  <2>6. k + 1 \in {4, 6, 8} /\ ~(k + 1 < 4)
    BY <1>7
  <2>7. Plain(g.scanner, fe, m, k + 1)
    BY <1>2, <2>5, <2>6 DEF Plain
  <2> QED
    BY <1>5, <2>5, <2>7
<1> QED
  BY <1>2, <1>6, <1>7

(* One more atom of the text.                                               *)
LEMMA SyncStep ==
    ASSUME NEW f \in FoundSet, NEW m \in Seq(Segments), m # <<>>, NEW k \in Nat,
           k < Len(Atoms(Last(m))), NEW fe, NEW broken \in BOOLEAN,
           Sync(f.scanner, fe, broken, m, k),
           NEW g, g = Take(f, Atoms(Last(m))[k + 1])
    PROVE  g \in FoundSet /\ Keeps(f, g, fe, broken, m, k)
<1> DEFINE s == Last(m)  x == Atoms(s)[k + 1]
<1>1. s \in Segments /\ x \in Text
  <2>1. s \in Segments
    BY LastIs
  <2>2. Atoms(s) \in Seq(Text)
    BY <2>1, AtomsAre
  <2>3. k + 1 \in 1..Len(Atoms(s))
    BY <2>2, LenProperties
  <2> QED
    BY <2>1, <2>2, <2>3, ElementOfSeq
<1>2. g = Take(f, x)
  OBVIOUS
<1> HIDE DEF x
<1>3. /\ g \in FoundSet
      /\ \/ g.blocks = f.blocks
         \/ \E b \in Block : g.blocks = Append(f.blocks, b)
  BY <1>1, <1>2, TakeIs
<1>4. CASE broken /\ Opened(m)
  BY <1>3, <1>4 DEF Keeps, Sync
<1>5. CASE Opened(m) /\ f.scanner.inside /\ Junk(f.scanner.body)
  BY <1>1, <1>2, <1>3, <1>5, JunkStep
<1>6. CASE Tracked(f.scanner, fe, m, k)
  <2>1. Keeps(f, g, fe, FALSE, m, k)
    <3>1. CASE k <= Len(Lead(s)) /\ AtLead(f.scanner, fe, m, LeadTo(s, k))
      <4>1. Len(Lead(s)) \in 1..3
        BY <1>1, LeadIs
      <4>2. k < Len(Lead(s)) \/ k = Len(Lead(s))
        BY <3>1, <4>1
      <4>3. CASE k < Len(Lead(s))
        BY <1>2, <3>1, <4>3, LeadStep DEF x
      <4>4. CASE k = Len(Lead(s))
        BY <1>2, <3>1, <4>4, HeadStep DEF x
      <4> QED
        BY <4>2, <4>3, <4>4
    <3>2. CASE /\ s.form \in Forms /\ ~Shadowed(m, Len(m)) /\ k > BlockAt(s)
               /\ InBlock(f.scanner, fe, m, k - BlockAt(s))
      BY <1>2, <3>2, BlockStep DEF x
    <3>3. CASE /\ s.form = "split" /\ ~Shadowed(m, Len(m)) /\ f.scanner.bare
               /\ fe = Before(m)
               /\ \/ k = 2 /\ Outside(f.scanner, <<>>)
                  \/ k = 3 /\ Outside(f.scanner, <<Tag>>)
      BY <1>2, <3>3, SplitStep DEF x
    <3>4. CASE /\ s.form \notin Forms \/ Shadowed(m, Len(m))
               /\ Plain(f.scanner, fe, m, k)
      BY <1>2, <3>4, PlainStep DEF x
    <3>5. k # Len(Atoms(s))
      <4> DEFINE n == Len(Atoms(s))
      <4>1. k < n
        OBVIOUS
      <4> HIDE DEF n
      <4>2. k # n
        BY <4>1
      <4> QED
        BY <4>2 DEF n
    <3> QED
      BY <1>6, <3>1, <3>2, <3>3, <3>4, <3>5 DEF Tracked
  <2>3. ASSUME g.blocks = f.blocks, Sync(g.scanner, fe, FALSE, m, k + 1)
        PROVE  Keeps(f, g, fe, broken, m, k)
    <3>1. Sync(g.scanner, fe, broken, m, k + 1)
      BY <2>3 DEF Sync
    <3> QED
      BY <2>3, <3>1 DEF Keeps
  <2>4. ASSUME NEW b \in Block, g.blocks = Append(f.blocks, b),
               Sync(g.scanner, fe \o Valid(b.body), FALSE \/ Broken(b), m, k + 1)
        PROVE  Keeps(f, g, fe, broken, m, k)
    <3>1. Sync(g.scanner, fe \o Valid(b.body), broken \/ Broken(b), m, k + 1)
      BY <2>4 DEF Sync
    <3> QED
      BY <2>4, <3>1 DEF Keeps
  <2>5. Keeps(f, g, fe, broken, m, k)
    BY <2>1, <2>3, <2>4 DEF Keeps
  <2> QED
    BY <1>3, <2>5
<1>7. \/ broken /\ Opened(m)
      \/ Opened(m) /\ f.scanner.inside /\ Junk(f.scanner.body)
      \/ Tracked(f.scanner, fe, m, k)
  BY DEF Sync
<1> QED
  BY <1>4, <1>5, <1>6, <1>7

(* The scanner reads a text one atom after another.                         *)
Reads(f, sc, atoms) ==
    /\ f[0] = Found(sc, <<>>)
    /\ \A i \in 1..Len(atoms) : f[i] = Take(f[i - 1], atoms[i])

Reading(sc, atoms, n) ==
    \E f : f = [i \in 0..n |-> IF i = 0 THEN Found(sc, <<>>)
                               ELSE Take(f[i - 1], atoms[i])]

LEMMA ReadsPrefixExists ==
    ASSUME NEW sc, NEW atoms, NEW n \in Nat
    PROVE  Reading(sc, atoms, n)
<1> DEFINE Has(k) == Reading(sc, atoms, k)
           Without == {k \in Nat : ~Has(k)}
<1> SUFFICES ASSUME Without # {} PROVE FALSE
  OBVIOUS
<1>1. PICK k \in Without : \A y \in Without : k <= y
  BY Least
<1>2. Has(0)
  <2> DEFINE g == [i \in 0..0 |-> Found(sc, <<>>)]
  <2>1. \A i \in 0..0 : i = 0
    OBVIOUS
  <2>2. g = [i \in 0..0 |-> IF i = 0 THEN Found(sc, <<>>) ELSE Take(g[i - 1], atoms[i])]
    BY <2>1
  <2> QED
    BY <2>2 DEF Reading
<1> HIDE DEF Has
<1>3. k \in Nat \ {0} /\ k - 1 \in Nat /\ k - 1 \notin Without
  BY <1>1, <1>2
<1>3a. Has(k - 1)
  BY <1>3
<1>4. PICK f : f = [i \in 0..(k - 1) |-> IF i = 0 THEN Found(sc, <<>>)
                                         ELSE Take(f[i - 1], atoms[i])]
  BY <1>3a DEF Has, Reading
<1> DEFINE g == [i \in 0..k |-> IF i < k THEN f[i] ELSE Take(f[i - 1], atoms[i])]
<1>5. ASSUME NEW i \in 0..k
      PROVE  g[i] = IF i = 0 THEN Found(sc, <<>>) ELSE Take(g[i - 1], atoms[i])
  <2>1. i # 0 => i - 1 \in 0..k /\ i - 1 < k
    BY <1>3
  <2>2. i # 0 => g[i - 1] = f[i - 1]
    BY <2>1
  <2>3. i < k => i \in 0..(k - 1)
    BY <1>3
  <2>4. CASE i < k
    <3>1. g[i] = f[i]
      BY <2>4
    <3>2. f[i] = IF i = 0 THEN Found(sc, <<>>) ELSE Take(f[i - 1], atoms[i])
      BY <1>4, <2>3, <2>4
    <3> QED
      BY <3>1, <3>2, <2>2
  <2>5. CASE ~(i < k)
    <3>1. i # 0
      BY <1>3, <2>5
    <3> QED
      BY <2>5, <2>2, <3>1
  <2> QED
    BY <2>4, <2>5
<1>6. g = [i \in 0..k |-> IF i = 0 THEN Found(sc, <<>>) ELSE Take(g[i - 1], atoms[i])]
  <2> HIDE DEF g
  <2>1. g = [i \in 0..k |-> g[i]]
    BY DEF g
  <2> QED
    BY <2>1, <1>5
<1>7. Has(k)
  BY <1>6 DEF Has, Reading
<1> QED
  BY <1>1, <1>7

LEMMA PushReads ==
    ASSUME NEW sc, NEW atoms, Len(atoms) \in Nat
    PROVE  \E f : Reads(f, sc, atoms) /\ Push(sc, atoms) = f[Len(atoms)]
<1> DEFINE F == CHOOSE f : f = [i \in 0..Len(atoms) |->
                                  IF i = 0 THEN Found(sc, <<>>)
                                  ELSE Take(f[i - 1], atoms[i])]
<1>1. \E f : f = [i \in 0..Len(atoms) |-> IF i = 0 THEN Found(sc, <<>>)
                                          ELSE Take(f[i - 1], atoms[i])]
  <2>1. Reading(sc, atoms, Len(atoms))
    BY ReadsPrefixExists
  <2> QED
    BY <2>1 DEF Reading
<1>2. F = [i \in 0..Len(atoms) |-> IF i = 0 THEN Found(sc, <<>>)
                                   ELSE Take(F[i - 1], atoms[i])]
  BY <1>1
<1>3. Push(sc, atoms) = F[Len(atoms)]
  BY Zenon DEF Push
<1> HIDE DEF F
<1>4. F[0] = Found(sc, <<>>)
  BY <1>2
<1>5. ASSUME NEW i \in 1..Len(atoms) PROVE F[i] = Take(F[i - 1], atoms[i])
  <2>1. i \in 0..Len(atoms) /\ i # 0
    OBVIOUS
  <2> QED
    BY <1>2, <2>1
<1> QED
  BY <1>3, <1>4, <1>5 DEF Reads

LEMMA ReadsType ==
    ASSUME NEW sc \in Scanner, NEW atoms \in Seq(Text), NEW f, Reads(f, sc, atoms)
    PROVE  \A i \in 0..Len(atoms) : f[i] \in FoundSet
<1> DEFINE Bad == {i \in 0..Len(atoms) : f[i] \notin FoundSet}
<1> SUFFICES ASSUME Bad # {} PROVE FALSE
  OBVIOUS
<1>1. PICK i \in Bad : \A y \in Bad : i <= y
  <2>1. Bad \in SUBSET Nat
    OBVIOUS
  <2> QED
    BY <2>1, Least
<1>2. f[0] \in FoundSet
  <2>1. <<>> \in Seq(Block)
    BY EmptySeq
  <2> QED
    BY <2>1 DEF Reads, Found, FoundSet
<1>3. i \in 1..Len(atoms) /\ i - 1 \in 0..Len(atoms)
  BY <1>1, <1>2, LenProperties
<1>4. f[i - 1] \in FoundSet
  BY <1>1, <1>3
<1>5. atoms[i] \in Text
  BY <1>3, ElementOfSeq
<1>6. f[i] = Take(f[i - 1], atoms[i])
  BY <1>3 DEF Reads
<1>7. f[i] \in FoundSet
  BY <1>4, <1>5, <1>6, TakeIs
<1> QED
  BY <1>1, <1>7

LEMMA PushType ==
    ASSUME NEW sc \in Scanner, NEW atoms \in Seq(Text)
    PROVE  Push(sc, atoms) \in FoundSet
<1>1. Len(atoms) \in Nat /\ Len(atoms) \in 0..Len(atoms)
  BY LenProperties
<1>2. PICK f : Reads(f, sc, atoms) /\ Push(sc, atoms) = f[Len(atoms)]
  BY <1>1, PushReads
<1> QED
  BY <1>1, <1>2, ReadsType

(* A fence was reported broken.                                             *)
Hit(es) == ReasonsIn(es) \cap FenceReasons # {}

LEMMA HitConcat ==
    ASSUME NEW a \in Seq(Emission), NEW b \in Seq(Emission)
    PROVE  Hit(a \o b) <=> Hit(a) \/ Hit(b)
  BY ReasonsConcat DEF Hit

LEMMA SyncWeakens ==
    ASSUME NEW sc, NEW fe, NEW m, NEW k, NEW u, NEW w, u => w,
           Sync(sc, fe, u, m, k)
    PROVE  Sync(sc, fe, w, m, k)
  BY DEF Sync

LEMMA WordsConcat ==
    ASSUME NEW x \in Seq(Words), NEW y \in Seq(Words), NEW z \in Seq(Words)
    PROVE  (x \o y) \o z = x \o (y \o z) /\ x \o y \in Seq(Words)
  BY ConcatAssociative, ConcatProperties

(* What one more block adds to what the blocks before it say.               *)
LEMMA OneMoreBlock ==
    ASSUME NEW bs \in Seq(Block), NEW b \in Block
    PROVE  /\ EmissionsOf(Append(bs, b)) \in Seq(Said)
           /\ Fenced(EmissionsOf(Append(bs, b)))
                = Fenced(EmissionsOf(bs)) \o Valid(b.body)
           /\ Hit(EmissionsOf(bs)) \/ Broken(b) => Hit(EmissionsOf(Append(bs, b)))
<1> DEFINE es == EmissionsOf(bs)  e == EmissionsOfBlock(b)
<1>1. <<b>> \in Seq(Block) /\ Append(bs, b) = bs \o <<b>>
  BY AppendIsConcat
<1>2. /\ EmissionsOf(Append(bs, b)) = es \o e /\ es \in Seq(Said)
  BY <1>1, EmissionsConcat, EmissionsOne
<1>3. /\ e \in Seq(Said) /\ Fenced(e) = Valid(b.body)
      /\ b.drift => "fence_drift" \in ReasonsIn(e)
      /\ Parsed(b.body) = NotJson => "parse" \in ReasonsIn(e)
  BY BlockSays
<1>4. Broken(b) => Hit(e)
  BY <1>3 DEF Broken, Hit, FenceReasons
<1> HIDE DEF es, e
<1>5. es \o e \in Seq(Said)
  BY <1>2, <1>3, ConcatProperties
<1>6. es \in Seq(Emission) /\ e \in Seq(Emission)
  BY <1>2, <1>3, SaidTypes
<1>7. Fenced(es \o e) = Fenced(es) \o Fenced(e)
  BY <1>6, FencedConcat
<1>8. Hit(es \o e) <=> Hit(es) \/ Hit(e)
  BY <1>6, HitConcat
<1> QED
  BY <1>2, <1>3, <1>4, <1>5, <1>7, <1>8 DEF es

(* A chunk of the segment the agent is writing keeps the scanner in step.   *)
LEMMA PushKeeps ==
    ASSUME NEW sc \in Scanner, NEW m \in Seq(Segments), m # <<>>,
           NEW k \in Nat, NEW n \in Nat, k + n <= Len(Atoms(Last(m))),
           NEW fe \in Seq(Words), NEW broken \in BOOLEAN, Sync(sc, fe, broken, m, k),
           NEW p, p = Push(sc, SubSeq(Atoms(Last(m)), k + 1, k + n)),
           NEW es, es = EmissionsOf(p.blocks)
    PROVE  Sync(p.scanner, fe \o Fenced(es), broken \/ Hit(es), m, k + n)
<1> DEFINE a == Atoms(Last(m))  t == SubSeq(a, k + 1, k + n)
<1>1. a \in Seq(Text) /\ Len(a) \in Nat
  <2>1. Last(m) \in Segments
    BY LastIs
  <2> QED
    BY <2>1, AtomsAre, LenProperties
<1>2. /\ t \in Seq(Text) /\ Len(t) = n
      /\ \A i \in 1..n : t[i] = a[k + i]
  <2> HIDE DEF a
  <2>1. \A i \in (k + 1)..(k + n) : a[i] \in Text
    <3> TAKE i \in (k + 1)..(k + n)
    <3>1. i \in 1..Len(a)
      BY <1>1 DEF a
    <3> QED
      BY <1>1, <3>1, ElementOfSeq
  <2>2. /\ t \in Seq(Text)
        /\ Len(t) = IF k + 1 <= k + n THEN k + n - (k + 1) + 1 ELSE 0
        /\ \A i \in 1..(k + n - (k + 1) + 1) : t[i] = a[k + 1 + i - 1]
    BY <2>1, SubSeqProperties
  <2>3. Len(t) = n
    BY <2>2
  <2>4. \A i \in 1..n : t[i] = a[k + i]
    <3> TAKE i \in 1..n
    <3>1. i \in 1..(k + n - (k + 1) + 1) /\ k + 1 + i - 1 = k + i
      OBVIOUS
    <3> QED
      BY <2>2, <3>1
  <2> QED
    BY <2>2, <2>3, <2>4
<1>3. p = Push(sc, t)
  OBVIOUS
<1>l. k + n <= Len(a)
  OBVIOUS
<1> HIDE DEF t
<1>4. PICK f : Reads(f, sc, t) /\ p = f[n]
  BY <1>2, <1>3, PushReads
<1>5. \A i \in 0..n : f[i] \in FoundSet
  BY <1>2, <1>4, ReadsType
<1> DEFINE Says(i) == EmissionsOf(f[i].blocks)
           Good(i) == Sync(f[i].scanner, fe \o Fenced(Says(i)),
                           broken \/ Hit(Says(i)), m, k + i)
           Bad == {i \in 0..n : ~Good(i)}
<1>6. \A i \in 0..n : f[i].blocks \in Seq(Block) /\ Says(i) \in Seq(Said)
  <2> TAKE i \in 0..n
  <2>1. f[i].blocks \in Seq(Block)
    BY <1>5 DEF FoundSet
  <2> QED
    BY <2>1, EmissionsConcat
<1>7. Good(0)
  <2>1. f[0] = Found(sc, <<>>)
    BY <1>4 DEF Reads
  <2>2. f[0].scanner = sc /\ f[0].blocks = <<>>
    BY <2>1 DEF Found
  <2>3. Says(0) = <<>> /\ Fenced(Says(0)) = <<>>
    BY <2>2, EmissionsNothing, FencedNothing
  <2>4. fe \o <<>> = fe
    BY ConcatEmptySeq
  <2>5. k + 0 = k
    OBVIOUS
  <2>6. Sync(f[0].scanner, fe \o Fenced(Says(0)), broken, m, k + 0)
    BY <2>2, <2>3, <2>4, <2>5
  <2> QED
    BY <2>6, SyncWeakens
<1>8. ASSUME NEW i \in 1..n, Good(i - 1)
      PROVE  Good(i)
  <2> DEFINE q == f[i - 1]  g == f[i]  j == k + (i - 1)
             w == fe \o Fenced(Says(i - 1))  u == broken \/ Hit(Says(i - 1))
  <2>1. /\ q \in FoundSet /\ q.blocks \in Seq(Block) /\ Says(i - 1) \in Seq(Said)
        /\ i \in 0..n /\ i - 1 \in 0..n
    <3>1. i \in 0..n /\ i - 1 \in 0..n
      OBVIOUS
    <3>2. q \in FoundSet
      BY <1>5, <3>1
    <3>3. q.blocks \in Seq(Block) /\ Says(i - 1) \in Seq(Said)
      BY <1>6, <3>1
    <3> QED
      BY <3>1, <3>2, <3>3
  <2>2. j \in Nat /\ j + 1 = k + i /\ j < Len(a)
    BY <1>1, <1>l
  <2>3. g = Take(q, t[i])
    BY <1>2, <1>4 DEF Reads
  <2>4. t[i] = a[j + 1]
    BY <1>2, <2>2
  <2>5. Sync(q.scanner, w, u, m, j) /\ u \in BOOLEAN
    BY <1>8
  <2>6. Keeps(q, g, w, u, m, j)
    <3> HIDE DEF q, g, j, w, u
    <3> QED
      BY <2>1, <2>2, <2>3, <2>4, <2>5, SyncStep
  <2>7. CASE g.blocks = q.blocks /\ Sync(g.scanner, w, u, m, j + 1)
    BY <2>2, <2>7
  <2>8. ASSUME NEW b \in Block, g.blocks = Append(q.blocks, b),
               Sync(g.scanner, w \o Valid(b.body), u \/ Broken(b), m, j + 1)
        PROVE  Good(i)
    <3>1. /\ Fenced(Says(i)) = Fenced(Says(i - 1)) \o Valid(b.body)
          /\ Hit(Says(i - 1)) \/ Broken(b) => Hit(Says(i))
      BY <2>1, <2>8, OneMoreBlock
    <3>2. /\ Fenced(Says(i - 1)) \in Seq(Words) /\ Valid(b.body) \in Seq(Words)
      BY <2>1, SaidTypes, FencedConcat, BlockSays
    <3>3. w \o Valid(b.body) = fe \o (Fenced(Says(i - 1)) \o Valid(b.body))
      <4> DEFINE x == Fenced(Says(i - 1))  y == Valid(b.body)
      <4>1. x \in Seq(Words) /\ y \in Seq(Words)
        BY <3>2
      <4> HIDE DEF x, y
      <4>2. (fe \o x) \o y = fe \o (x \o y)
        BY <4>1, WordsConcat
      <4> QED
        BY <4>2 DEF x, y
    <3> HIDE DEF Says
    <3>4. u \/ Broken(b) => broken \/ Hit(Says(i))
      BY <3>1
    <3> HIDE DEF w, u
    <3>5. Sync(g.scanner, w \o Valid(b.body), broken \/ Hit(Says(i)), m, j + 1)
      BY <2>8, <3>4, SyncWeakens
    <3>6. Sync(g.scanner, fe \o Fenced(Says(i)), broken \/ Hit(Says(i)), m, k + i)
      BY <2>2, <3>1, <3>3, <3>5
    <3> QED
      BY <3>6
  <2> QED
    BY <2>6, <2>7, <2>8 DEF Keeps
<1> HIDE DEF Good
<1>9. Bad = {}
  <2> SUFFICES ASSUME Bad # {} PROVE FALSE
    OBVIOUS
  <2>1. PICK i \in Bad : \A y \in Bad : i <= y
    <3>1. Bad \in SUBSET Nat
      OBVIOUS
    <3> QED
      BY <3>1, Least
  <2>2. i \in 1..n /\ i - 1 \in 0..n
    BY <1>7, <2>1
  <2>3. Good(i - 1)
    BY <2>1, <2>2
  <2> QED
    BY <1>8, <2>1, <2>2, <2>3
<1>10. Good(n)
  BY <1>9
<1> QED
  BY <1>4, <1>10 DEF Good

(* The end of a segment, where the next may start.                          *)
LEMMA AtTheEnd ==
    ASSUME NEW sc, NEW m \in Seq(Segments), m # <<>>, NEW s, s = Last(m),
           NEW k, k = Len(Atoms(s)), NEW fe, Tracked(sc, fe, m, k)
    PROVE  \/ s.form # "unclosed" /\ Outside(sc, <<>>) /\ fe = After(m)
           \/ /\ s.form = "tight" /\ Inside(sc, <<Fence>>, <<<<s.value>>>>)
              /\ fe = Before(m) /\ ~Shadowed(m, Len(m))
           \/ /\ s.form = "unclosed" /\ Inside(sc, <<>>, <<<<s.value>>>>)
              /\ fe = Before(m) /\ ~Shadowed(m, Len(m))
<1>1. /\ s \in Segments /\ Len(Lead(s)) \in 1..3 /\ Len(Lead(s)) + 1 <= k
      /\ s.form \in Forms => /\ BlockAt(s) \in 1..3 /\ k = BlockAt(s) + Rest(s)
                             /\ Rest(s) \in 3..5
      /\ k \in Nat
  <2>1. s \in Segments
    BY LastIs
  <2>2. Atoms(s) \in Seq(Text)
    BY <2>1, AtomsAre
  <2>3. Rest(s) \in 3..5
    BY DEF Rest
  <2> QED
    BY <2>1, <2>2, <2>3, LeadIs, AtomsIn, LenProperties
<1>2. CASE k <= Len(Lead(s))
  BY <1>1, <1>2
<1>3. CASE /\ s.form \in Forms /\ ~Shadowed(m, Len(m)) /\ k > BlockAt(s)
           /\ InBlock(sc, fe, m, k - BlockAt(s))
  <2>1. k - BlockAt(s) = Rest(s)
    BY <1>1, <1>3
  <2>2. fe = Before(m) /\ InBlock(sc, fe, m, Rest(s))
    BY <1>3, <2>1 DEF InBlock
  <2>3. CASE s.form = "unclosed"
    <3>1. Rest(s) = 3
      BY <2>3 DEF Rest
    <3> QED
      BY <1>3, <2>2, <2>3, <3>1 DEF InBlock
  <2>4. CASE s.form = "tight"
    <3>1. Rest(s) = 4
      BY <2>4 DEF Rest
    <3> QED
      BY <1>3, <2>2, <2>4, <3>1 DEF InBlock
  <2>5. CASE s.form \notin {"tight", "unclosed"}
    <3>1. Rest(s) = 5
      BY <2>5 DEF Rest
    <3> QED
      BY <2>2, <3>1 DEF InBlock
  <2> QED
    BY <2>3, <2>4, <2>5
<1>4. CASE s.form = "split" /\ k \in {2, 3}
  <2>1. k = 8
    BY <1>1, <1>4, AtomsAre
  <2> QED
    BY <1>4, <2>1
<1>5. CASE (s.form \notin Forms \/ Shadowed(m, Len(m))) /\ Plain(sc, fe, m, k)
  <2>1. s.form = "split" \/ s.form \in {"prose", "fence"}
    BY <1>1, <1>5, SegmentIs, LastIs DEF Shadowed, Forms
  <2>2. k \in {2, 6, 8}
    BY <1>1, <2>1, AtomsAre
  <2>3. Outside(sc, <<>>) /\ fe = Before(m)
    <3>1. k \notin {3, 5, 7}
      <4>1. \A j \in {2, 6, 8} : j \notin {3, 5, 7}
        OBVIOUS
      <4> QED
        BY <2>2, <4>1, Zenon
    <3>2. /\ fe = Before(m)
          /\ \/ k \in {2, 4, 6, 8} /\ Outside(sc, <<>>)
             \/ k \in {3, 5, 7} /\ Outside(sc, <<Atoms(Last(m))[k]>>)
      BY <1>5 DEF Plain
    <3> QED
      BY <3>1, <3>2
  <2>4. After(m) = Before(m)
    BY <1>5, EventsOfLast
  <2> QED
    BY <2>1, <2>3, <2>4
<1>6. CASE /\ s.form \in Forms /\ s.form # "unclosed" /\ ~Shadowed(m, Len(m))
           /\ k = Len(Atoms(s)) /\ Outside(sc, <<>>) /\ fe = After(m)
  BY <1>6
<1> QED
  BY <1>2, <1>3, <1>4, <1>5, <1>6 DEF Tracked

(* The agent begins another segment.                                        *)
LEMMA NextSegment ==
    ASSUME NEW sc, NEW m \in Seq(Segments), NEW s \in Segments, NEW k, NEW fe,
           NEW broken, m # <<>> => k = Len(Atoms(Last(m))), Sync(sc, fe, broken, m, k)
    PROVE  Sync(sc, fe, broken, Append(m, s), 0)
<1> DEFINE t == Append(m, s)
<1>1. /\ t \in Seq(Segments) /\ Len(t) = Len(m) + 1 /\ Len(m) \in Nat
      /\ \A i \in 1..Len(m) : t[i] = m[i]
      /\ t[Len(m) + 1] = s
      /\ DOMAIN t = 1..(Len(m) + 1) /\ DOMAIN m = 1..Len(m)
  BY AppendProperties, LenProperties
<1>2. Opened(m) => Opened(t)
  BY <1>1 DEF Opened
<1>3. Before(t) = After(m)
  <2>1. Len(m) \in 0..Len(m) /\ Len(t) - 1 = Len(m)
    BY <1>1
  <2> QED
    BY <2>1, EventsStay DEF Before, After
<1>4. t # <<>> /\ Last(t) = s
  <2>1. Len(t) # 0
    BY <1>1
  <2>2. t # <<>>
    BY <2>1, EmptySeq
  <2> QED
    BY <1>1, <2>2 DEF Last
<1> HIDE DEF t
<1>5. ASSUME AtLead(sc, fe, t, <<>>)
      PROVE  Sync(sc, fe, broken, t, 0)
  <2>1. LeadTo(s, 0) = <<>> /\ 0 <= Len(Lead(s))
    <3>1. Lead(s) \in Seq(Text) /\ Len(Lead(s)) \in 1..3
      BY LeadIs
    <3>2. SubSeq(Lead(s), 1, 0) = <<>>
      BY <3>1, SubSeqEmpty
    <3> QED
      BY <3>1, <3>2 DEF LeadTo
  <2>2. Tracked(sc, fe, t, 0)
    BY <1>4, <1>5, <2>1 DEF Tracked
  <2> QED
    BY <1>4, <2>2 DEF Sync
<1>6. CASE broken /\ Opened(m)
  BY <1>2, <1>6 DEF Sync, t
<1>7. CASE Opened(m) /\ sc.inside /\ Junk(sc.body)
  BY <1>2, <1>7 DEF Sync, t
<1>8. CASE m = <<>> /\ k = 0 /\ Outside(sc, <<>>) /\ fe = <<>>
  <2>1. Len(m) = 0
    BY <1>8, EmptySeq
  <2>2. ~(Len(t) > 1)
    BY <1>1, <2>1
  <2>3. After(m) = <<>>
    BY <2>1, EventsAre DEF After
  <2>4. AtLead(sc, fe, t, <<>>)
    BY <1>3, <1>8, <2>2, <2>3 DEF AtLead
  <2> QED
    BY <1>5, <2>4 DEF t
<1>9. CASE m # <<>> /\ Tracked(sc, fe, m, k)
  <2> DEFINE p == Last(m)
  <2>1. Len(m) \in Nat \ {0} /\ p = m[Len(m)] /\ p \in Segments
    BY <1>9, LastIs
  <2>2. Len(t) > 1 /\ Prev(t) = p
    <3>1. Len(t) - 1 = Len(m) /\ Len(m) \in 1..Len(m) /\ Len(t) > 1
      BY <1>1, <2>1
    <3> QED
      BY <1>1, <2>1, <3>1 DEF Prev
  <2>3. /\ ~Shadowed(m, Len(m)) => After(m) = Before(m) \o ItemsIn(p)
    BY <1>9, EventsOfLast
  <2>4. \/ p.form # "unclosed" /\ Outside(sc, <<>>) /\ fe = After(m)
        \/ /\ p.form = "tight" /\ Inside(sc, <<Fence>>, <<<<p.value>>>>)
           /\ fe = Before(m) /\ ~Shadowed(m, Len(m))
        \/ /\ p.form = "unclosed" /\ Inside(sc, <<>>, <<<<p.value>>>>)
           /\ fe = Before(m) /\ ~Shadowed(m, Len(m))
    BY <1>9, AtTheEnd
  <2> HIDE DEF p
  <2>5. <<Fence>> \o <<>> = <<Fence>>
    <3>1. <<Fence>> \in Seq(Text)
      BY DEF Text
    <3> QED
      BY <3>1, ConcatEmptySeq
  <2>6. AtLead(sc, fe, t, <<>>)
    BY <1>3, <2>2, <2>3, <2>4, <2>5 DEF AtLead
  <2> QED
    BY <1>5, <2>6 DEF t
<1> QED
  BY <1>6, <1>7, <1>8, <1>9 DEF Sync

-----------------------------------------------------------------------------
(* Settling the last line.                                                  *)

LEMMA SettleTakes ==
    ASSUME NEW sc \in Scanner, NEW f, f = Found(sc, <<>>)
    PROVE  /\ f \in FoundSet /\ f.scanner = sc /\ f.blocks = <<>>
           /\ sc.pending = <<>> => Settle(sc) = f
           /\ sc.pending # <<>> => Settle(sc) = Take(f, Newline)
<1>1. <<>> \in Seq(Block)
  BY EmptySeq
<1>2. f \in FoundSet /\ f.scanner = sc /\ f.blocks = <<>>
  BY <1>1 DEF Found, FoundSet
<1> QED
  BY <1>2 DEF Settle, Take, Found

LEMMA FenceFirst ==
    ASSUME NEW line \in Seq(Text), line # <<>>, line[1] = Fence, line # <<Fence>>
    PROVE  \E rest \in Seq(Text) : rest # <<>> /\ line = <<Fence>> \o rest
<1> DEFINE rest == Tail(line)
<1>1. rest \in Seq(Text) /\ Len(rest) = Len(line) - 1
      /\ \A i \in 1..Len(rest) : rest[i] = line[i + 1]
  BY HeadTailProperties
<1>2. line = <<Fence>> \o rest
  <2>1. Len(line) \in Nat \ {0} /\ 1 \in 1..Len(line) /\ Len(line) \in 1..Len(line)
    BY EmptySeq, LenProperties
  <2>2. SubSeq(line, 1, Len(line)) = <<line[1]>> \o SubSeq(line, 1 + 1, Len(line))
    BY <2>1, SubSeqRecursiveFirst
  <2>3. SubSeq(line, 1, Len(line)) = line /\ rest = SubSeq(line, 2, Len(line))
    BY SubSeqFull, TailIsSubSeq
  <2> QED
    BY <2>2, <2>3
<1>3. rest # <<>>
  <2>1. <<Fence>> \o <<>> = <<Fence>>
    BY DEF Text
  <2> QED
    BY <1>2, <2>1
<1> QED
  BY <1>1, <1>2, <1>3

LEMMA SettleIs ==
    ASSUME NEW sc \in Scanner, NEW f, f = Settle(sc)
    PROVE  /\ f \in FoundSet
           /\ ~sc.inside => f.blocks = <<>>
           /\ sc.pending = <<>> => f.blocks = <<>> /\ f.scanner = sc
           /\ sc.inside => \/ f.blocks = <<>> /\ f.scanner.inside
                           \/ sc.pending # <<>> /\ sc.pending[1] = Fence
           /\ sc.inside /\ sc.pending # <<>> /\ sc.pending[1] = Fence =>
                \E b \in Block : /\ f.blocks = <<b>> /\ b.body = sc.body
                                 /\ sc.pending # <<Fence>> => b.drift
<1> DEFINE h == Found(sc, <<>>)
<1>1. /\ h \in FoundSet /\ h.scanner = sc /\ h.blocks = <<>>
      /\ sc.pending = <<>> => f = h
      /\ sc.pending # <<>> => f = Take(h, Newline)
  BY SettleTakes
<1>2. Newline \in Text /\ sc.pending \in Seq(Text)
  BY ScannerFields DEF Text
<1> HIDE DEF h
<1>3. f \in FoundSet
  <2>1. sc.pending # <<>> => f \in FoundSet
    BY <1>1, <1>2, TakeIs
  <2> QED
    BY <1>1, <2>1
<1>4. ASSUME ~sc.inside PROVE f.blocks = <<>>
  <2>1. CASE sc.pending = <<>>
    BY <1>1, <2>1
  <2>2. CASE sc.pending # <<>>
    <3> DEFINE w == Waiting(h, <<>>)
    <3>1. f = Consume(w, sc.pending) /\ w \in FoundSet
      BY <1>1, <2>2, TakeLine
    <3>2. w.blocks = <<>> /\ ~w.scanner.inside
      BY <1>1, <1>4, FreshIs
    <3>3. f = ConsumeOutside(w, sc.pending)
      BY <3>1, <3>2 DEF Consume
    <3> HIDE DEF w
    <3> QED
      BY <1>2, <3>1, <3>2, <3>3, OutsideIs
  <2> QED
    BY <2>1, <2>2
<1>5. ASSUME sc.inside, sc.pending = <<>> \/ sc.pending[1] # Fence
      PROVE  f.blocks = <<>> /\ f.scanner.inside
  <2>1. CASE sc.pending = <<>>
    BY <1>1, <1>5, <2>1
  <2>2. CASE sc.pending # <<>>
    <3>1. f = Take(h, Newline) /\ h.scanner.inside
      BY <1>1, <1>5, <2>2
    <3>2. h.scanner.pending # <<>> => h.scanner.pending[1] # Fence
      BY <1>1, <1>5, <2>2
    <3>3. f.blocks = h.blocks /\ f.scanner.inside
      BY <1>1, <3>1, <3>2, LineGrows
    <3> QED
      BY <1>1, <3>3
  <2> QED
    BY <2>1, <2>2
<1>6. ASSUME sc.inside, sc.pending # <<>>, sc.pending[1] = Fence
      PROVE  \E b \in Block : /\ f.blocks = <<b>> /\ b.body = sc.body
                              /\ sc.pending # <<Fence>> => b.drift
  <2>1. f = Take(h, Newline) /\ h.scanner.inside /\ h.scanner.pending = sc.pending
    BY <1>1, <1>6
  <2>2. \A b : Append(<<>>, b) = <<b>>
    OBVIOUS
  <2>3. CASE sc.pending = <<Fence>>
    <3>1. Ends(h, f, FALSE)
      BY <1>1, <2>1, <2>3, LineCloses
    <3> QED
      BY <1>1, <2>2, <2>3, <3>1 DEF Ends
  <2>4. CASE sc.pending # <<Fence>>
    <3>1. PICK rest \in Seq(Text) : rest # <<>> /\ sc.pending = <<Fence>> \o rest
      BY <1>2, <1>6, <2>4, FenceFirst
    <3>2. Ends(h, f, TRUE)
      BY <1>1, <2>1, <3>1, LineClosesWelded
    <3> QED
      BY <1>1, <2>2, <3>2 DEF Ends
  <2> QED
    BY <2>3, <2>4
<1> QED
  BY <1>1, <1>3, <1>4, <1>5, <1>6

(* What settling the last line says.                                        *)
LEMMA SettleSays ==
    ASSUME NEW sc \in Scanner, NEW f, f = Settle(sc), NEW es, es = EmissionsOf(f.blocks)
    PROVE  /\ f \in FoundSet /\ es \in Seq(Said)
           /\ ~sc.inside => es = <<>>
           /\ sc.pending = <<>> => es = <<>> /\ f.scanner = sc
           /\ sc.inside => \/ es = <<>> /\ f.scanner.inside
                           \/ sc.pending # <<>> /\ sc.pending[1] = Fence
           /\ sc.inside /\ sc.pending # <<>> /\ sc.pending[1] = Fence =>
                /\ Fenced(es) = Valid(sc.body)
                /\ Parsed(sc.body) = NotJson => Hit(es)
<1>1. /\ f \in FoundSet
      /\ ~sc.inside => f.blocks = <<>>
      /\ sc.pending = <<>> => f.blocks = <<>> /\ f.scanner = sc
      /\ sc.inside => \/ f.blocks = <<>> /\ f.scanner.inside
                      \/ sc.pending # <<>> /\ sc.pending[1] = Fence
  BY SettleIs
<1>2. f.blocks \in Seq(Block)
  BY <1>1 DEF FoundSet
<1>3. es \in Seq(Said) /\ (f.blocks = <<>> => es = <<>>)
  BY <1>2, EmissionsConcat, EmissionsNothing
<1>4. ASSUME sc.inside, sc.pending # <<>>, sc.pending[1] = Fence
      PROVE  /\ Fenced(es) = Valid(sc.body)
             /\ Parsed(sc.body) = NotJson => Hit(es)
  <2>1. PICK b \in Block : f.blocks = <<b>> /\ b.body = sc.body
    BY <1>4, SettleIs
  <2>2. es = EmissionsOfBlock(b)
    BY <2>1, EmissionsOne
  <2>3. /\ Fenced(es) = Valid(b.body)
        /\ Parsed(b.body) = NotJson => "parse" \in ReasonsIn(es)
    BY <2>2, BlockSays
  <2> QED
    BY <2>1, <2>3 DEF Hit, FenceReasons
<1> QED
  BY <1>1, <1>3, <1>4

(* What the agent has written after k atoms of its last segment.            *)
Told(m, k) ==
    IF m = <<>> THEN <<>> ELSE IF Whole(Last(m), k) THEN After(m) ELSE Before(m)

LEMMA WholeIs ==
    ASSUME NEW s \in Segments, NEW k \in Nat
    PROVE  /\ k = Len(Atoms(s)) => Whole(s, k)
           /\ k <= Len(Lead(s)) /\ Whole(s, k) => s.form \notin Forms
           /\ s.form = "split" /\ k \in {2, 3} => ~Whole(s, k)
           /\ s.form \in Forms /\ k - BlockAt(s) = 1 => ~Whole(s, k)
           /\ s.form \in Forms /\ k - BlockAt(s) \in {2, 3} /\ Whole(s, k) =>
                s.form = "unclosed"
           /\ s.form \in Forms /\ k - BlockAt(s) = 4 /\ k <= Len(Atoms(s)) => Whole(s, k)
<1> DEFINE a == Atoms(s)  n == Len(a)  c == BlockAt(s)  l == Len(Lead(s))  r == Rest(s)
<1>1. Whole(s, k) <=> k = n \/ (k = n - 1 /\ a[k + 1] = Newline)
  BY DEF Whole
<1>2. /\ l \in 1..3
      /\ s.form \in Forms =>
           /\ c \in 1..3 /\ n = c + r
           /\ r > 3 => a[c + 4] = Fence
           /\ r > 4 => a[c + 5] = Newline
      /\ n \in Nat
  <2>1. a \in Seq(Text)
    BY AtomsAre
  <2> QED
    BY <2>1, LeadIs, AtomsIn, LenProperties
<1>3. /\ r \in {3, 4, 5} /\ (r = 3 => s.form = "unclosed")
      /\ (s.form \in Forms => l <= c)
      /\ s.form = "split" => c = 3 /\ r = 5
  <2>1. r \in {3, 4, 5} /\ (r = 3 => s.form = "unclosed")
    BY DEF Rest
  <2>2. s.form = "split" => c = 3 /\ r = 5
    BY DEF Rest, BlockAt
  <2>3. s.form # "split" => l = c
    BY DEF BlockAt
  <2> HIDE DEF a, n, c, l, r
  <2> QED
    BY <1>2, <2>1, <2>2, <2>3
<1>4. Fence # Newline /\ "split" \in Forms
  BY DEF Fence, Newline, Forms
<1> HIDE DEF a, n, c, l, r
<1>5. s.form \in Forms /\ Whole(s, k) => k = c + r \/ (k = c + r - 1 /\ a[k + 1] = Newline)
  <2> HAVE s.form \in Forms /\ Whole(s, k)
  <2>1. n = c + r /\ c \in 1..3 /\ r \in {3, 4, 5}
    BY <1>2, <1>3
  <2>2. k = n \/ (k = n - 1 /\ a[k + 1] = Newline)
    BY <1>1
  <2> QED
    BY <2>1, <2>2
<1>6. k = n => Whole(s, k)
  BY <1>1
<1>7. k <= l /\ Whole(s, k) => s.form \notin Forms
  BY <1>2, <1>3, <1>5
<1>8. s.form = "split" /\ k \in {2, 3} => ~Whole(s, k)
  BY <1>2, <1>3, <1>4, <1>5
<1>9. s.form \in Forms /\ k - c = 1 => ~Whole(s, k)
  BY <1>2, <1>3, <1>5
<1>10. s.form \in Forms /\ k - c = 2 /\ Whole(s, k) => r = 3
  BY <1>2, <1>3, <1>5
<1>11. s.form \in Forms /\ k - c = 3 /\ Whole(s, k) => r = 3
  <2> HAVE s.form \in Forms /\ k - c = 3 /\ Whole(s, k)
  <2>1. k = c + 3 /\ k + 1 = c + 4
    BY <1>2
  <2>2. r = 3 \/ (r = 4 /\ a[c + 4] = Newline)
    BY <1>2, <1>3, <1>5, <2>1
  <2> QED
    BY <1>2, <1>4, <2>2
<1>12. s.form \in Forms /\ k - c = 4 /\ k <= n => Whole(s, k)
  <2> HAVE s.form \in Forms /\ k - c = 4 /\ k <= n
  <2>1. k = c + 4 /\ k + 1 = c + 5 /\ r \in {4, 5}
    BY <1>2, <1>3
  <2>2. k = n \/ (k = n - 1 /\ r > 4)
    BY <1>2, <2>1
  <2> QED
    BY <1>1, <1>2, <2>1, <2>2
<1>13. s.form \in Forms /\ k - c \in {2, 3} /\ Whole(s, k) => s.form = "unclosed"
  BY <1>3, <1>10, <1>11
<1> QED
  BY <1>6, <1>7, <1>8, <1>9, <1>12, <1>13 DEF a, n, c, l

(* A turn that ends here has told what was written, or left a block open    *)
(* and says so.                                                             *)
LEMMA Settled ==
    ASSUME NEW sc \in Scanner, NEW m \in Seq(Segments), NEW k \in Nat,
           m # <<>> => k <= Len(Atoms(Last(m))), NEW fe \in Seq(Words), NEW broken,
           Sync(sc, fe, broken, m, k),
           NEW f, f = Settle(sc), NEW es, es = EmissionsOf(f.blocks)
    PROVE  \/ fe \o Fenced(es) = Told(m, k)
           \/ Opened(m) /\ (broken \/ Hit(es) \/ f.scanner.inside)
<1> DEFINE Fine == \/ fe \o Fenced(es) = Told(m, k)
                   \/ Opened(m) /\ (broken \/ Hit(es) \/ f.scanner.inside)
<1> SUFFICES Fine
  OBVIOUS
<1>1. /\ ~sc.inside => es = <<>>
      /\ sc.inside => \/ es = <<>> /\ f.scanner.inside
                      \/ sc.pending # <<>> /\ sc.pending[1] = Fence
      /\ sc.inside /\ sc.pending # <<>> /\ sc.pending[1] = Fence =>
           /\ Fenced(es) = Valid(sc.body)
           /\ Parsed(sc.body) = NotJson => Hit(es)
  BY SettleSays
<1>2. es = <<>> => fe \o Fenced(es) = fe
  BY FencedNothing, ConcatEmptySeq
<1>o. ASSUME NEW p, Outside(sc, p), fe = Told(m, k)
      PROVE  Fine
  BY <1>1, <1>2, <1>o DEF Outside
<1>3. CASE broken /\ Opened(m)
  BY <1>3
<1>4. CASE Opened(m) /\ sc.inside /\ Junk(sc.body)
  <2>1. Parsed(sc.body) = NotJson
    BY <1>4, ScannerFields, JunkIsNotJson
  <2> QED
    BY <1>1, <1>4, <2>1
<1>5. CASE m = <<>> /\ k = 0 /\ Outside(sc, <<>>) /\ fe = <<>>
  BY <1>5, <1>o DEF Told
<1>6. CASE m # <<>> /\ Tracked(sc, fe, m, k)
  <2> DEFINE s == Last(m)
  <2>1. /\ s \in Segments /\ k <= Len(Atoms(s)) /\ s = m[Len(m)]
        /\ Len(m) \in DOMAIN m
        /\ Len(m) > 1 => Len(m) - 1 \in DOMAIN m
    BY <1>6, LastIs
  <2>2. Told(m, k) = IF Whole(s, k) THEN After(m) ELSE Before(m)
    BY <1>6 DEF Told
  <2>3. /\ Shadowed(m, Len(m)) \/ s.form \notin Forms => After(m) = Before(m)
        /\ ~Shadowed(m, Len(m)) => After(m) = Before(m) \o ItemsIn(s)
    BY <1>6, EventsOfLast
  <2>4. /\ k = Len(Atoms(s)) => Whole(s, k)
        /\ k <= Len(Lead(s)) /\ Whole(s, k) => s.form \notin Forms
        /\ s.form = "split" /\ k \in {2, 3} => ~Whole(s, k)
        /\ s.form \in Forms /\ k - BlockAt(s) = 1 => ~Whole(s, k)
        /\ s.form \in Forms /\ k - BlockAt(s) \in {2, 3} /\ Whole(s, k) =>
             s.form = "unclosed"
        /\ s.form \in Forms /\ k - BlockAt(s) = 4 => Whole(s, k)
    BY <2>1, WholeIs
  <2>5. s.form = "unclosed" => Opened(m)
    BY <2>1 DEF Opened
  <2>6. Len(m) > 1 /\ Prev(m).form = "unclosed" => Opened(m)
    BY <2>1 DEF Opened, Prev
  <2>7. CASE k <= Len(Lead(s)) /\ AtLead(sc, fe, m, LeadTo(s, k))
    <3>1. Told(m, k) = Before(m)
      BY <2>2, <2>3, <2>4, <2>7
    <3>2. CASE Outside(sc, LeadTo(s, k)) /\ fe = Before(m)
      BY <1>o, <3>1, <3>2
    <3>3. ASSUME sc.inside, sc.body = <<<<Prev(m).value>>>>,
                 fe \o ItemsIn(Prev(m)) = Before(m),
                 sc.pending # <<>>, sc.pending[1] = Fence
          PROVE  Fine
      <4>1. Fenced(es) = ItemsIn(Prev(m))
        BY <1>1, <3>3, ValidLine
      <4> QED
        BY <3>1, <3>3, <4>1
    <3>4. CASE /\ Len(m) > 1 /\ Prev(m).form = "tight"
               /\ Inside(sc, <<Fence>> \o LeadTo(s, k), <<<<Prev(m).value>>>>)
               /\ fe \o ItemsIn(Prev(m)) = Before(m)
      <4>1. LeadTo(s, k) \in Seq(Text)
        <5>1. Lead(s) \in Seq(Text) /\ Len(Lead(s)) \in Nat
          BY <2>1, LeadIs
        <5>2. \A i \in 1..k : Lead(s)[i] \in Text
          <6> TAKE i \in 1..k
          <6>1. i \in 1..Len(Lead(s))
            BY <2>7, <5>1
          <6> QED
            BY <5>1, <6>1, ElementOfSeq
        <5> QED
          BY <5>2, SubSeqProperties DEF LeadTo
      <4>2. sc.pending # <<>> /\ sc.pending[1] = Fence
        <5>1. sc.pending = <<Fence>> \o LeadTo(s, k)
          BY <3>4 DEF Inside
        <5> QED
          BY <4>1, <5>1, AfterFence
      <4> QED
        BY <3>3, <3>4, <4>2 DEF Inside
    <3>5. CASE /\ Len(m) > 1 /\ Prev(m).form = "unclosed"
               /\ Inside(sc, LeadTo(s, k), <<<<Prev(m).value>>>>)
               /\ fe \o ItemsIn(Prev(m)) = Before(m)
      <4>1. sc.inside /\ sc.body = <<<<Prev(m).value>>>>
        BY <3>5 DEF Inside
      <4>2. CASE sc.pending # <<>> /\ sc.pending[1] = Fence
        BY <3>3, <3>5, <4>1, <4>2
      <4>3. CASE es = <<>> /\ f.scanner.inside
        BY <2>6, <3>5, <4>3
      <4> QED
        BY <1>1, <4>1, <4>2, <4>3
    <3> QED
      BY <2>7, <3>2, <3>4, <3>5 DEF AtLead
  <2>8. CASE /\ s.form \in Forms /\ ~Shadowed(m, Len(m)) /\ k > BlockAt(s)
             /\ InBlock(sc, fe, m, k - BlockAt(s))
    <3>1. fe = Before(m) /\ sc.inside
      BY <2>8 DEF InBlock, Inside
    <3>2. CASE sc.pending = <<>> \/ sc.pending[1] # Fence
      <4>1. es = <<>> /\ f.scanner.inside
        BY <1>1, <3>1, <3>2
      <4>2. CASE Whole(s, k)
        <5>1. k - BlockAt(s) \in {2, 3}
          <6>1. k - BlockAt(s) \in {1, 2, 3, 4}
            BY <2>8 DEF InBlock
          <6>2. ~(sc.pending = <<Fence>>)
            <7>1. <<Fence>>[1] = Fence /\ <<Fence>> # <<>>
              OBVIOUS
            <7> QED
              BY <3>2, <7>1
          <6>3. k - BlockAt(s) # 4
            BY <2>8, <6>2 DEF InBlock, Inside
          <6> QED
            BY <2>4, <2>8, <4>2, <6>1, <6>3
        <5> QED
          BY <2>4, <2>5, <2>8, <4>1, <4>2, <5>1
      <4>3. CASE ~Whole(s, k)
        BY <1>2, <2>2, <3>1, <4>1, <4>3
      <4> QED
        BY <4>2, <4>3
    <3>3. CASE sc.pending # <<>> /\ sc.pending[1] = Fence
      <4>1. s.value # Fence
        BY <2>1, <2>8, SegmentIs
      <4>2. k - BlockAt(s) = 4 /\ sc.body = <<<<s.value>>>>
        <5>1. <<s.value>>[1] = s.value
          OBVIOUS
        <5>2. sc.pending # <<>> /\ sc.pending # <<s.value>>
          BY <3>3, <4>1, <5>1
        <5> QED
          BY <2>8, <5>2 DEF InBlock, Inside
      <4>3. Told(m, k) = Before(m) \o ItemsIn(s)
        BY <2>2, <2>3, <2>4, <2>8, <4>2
      <4>4. Fenced(es) = ItemsIn(s)
        BY <1>1, <3>1, <3>3, <4>2, ValidLine
      <4> QED
        BY <3>1, <4>3, <4>4
    <3> QED
      BY <3>2, <3>3
  <2>9. CASE /\ s.form = "split" /\ k \in {2, 3} /\ fe = Before(m)
             /\ Outside(sc, <<>>) \/ Outside(sc, <<Tag>>)
    <3>1. Told(m, k) = Before(m)
      BY <2>2, <2>4, <2>9
    <3> QED
      BY <1>o, <2>9, <3>1
  <2>10. CASE (s.form \notin Forms \/ Shadowed(m, Len(m))) /\ Plain(sc, fe, m, k)
    <3>1. Told(m, k) = Before(m)
      BY <2>2, <2>3, <2>10
    <3>2. fe = Before(m) /\ \E p : Outside(sc, p)
      BY <2>10 DEF Plain
    <3> QED
      BY <1>o, <3>1, <3>2
  <2>11. CASE k = Len(Atoms(s)) /\ Outside(sc, <<>>) /\ fe = After(m)
    BY <1>o, <2>2, <2>4, <2>11
  <2>12. \/ k <= Len(Lead(s)) /\ AtLead(sc, fe, m, LeadTo(s, k))
         \/ /\ s.form \in Forms /\ ~Shadowed(m, Len(m)) /\ k > BlockAt(s)
            /\ InBlock(sc, fe, m, k - BlockAt(s))
         \/ /\ s.form = "split" /\ k \in {2, 3} /\ fe = Before(m)
            /\ Outside(sc, <<>>) \/ Outside(sc, <<Tag>>)
         \/ (s.form \notin Forms \/ Shadowed(m, Len(m))) /\ Plain(sc, fe, m, k)
         \/ k = Len(Atoms(s)) /\ Outside(sc, <<>>) /\ fe = After(m)
    <3> HIDE DEF Fine
    <3> QED
      BY <1>6 DEF Tracked
  <2> HIDE DEF Fine, s
  <2> QED
    BY <2>7, <2>8, <2>9, <2>10, <2>11, <2>12
<1> QED
  BY <1>3, <1>4, <1>5, <1>6 DEF Sync

(* A line settled while the turn stays open leaves the scanner in step.     *)
LEMMA SettleKeeps ==
    ASSUME NEW sc \in Scanner, NEW m \in Seq(Segments), NEW k,
           m # <<>> => k = Len(Atoms(Last(m))), NEW fe \in Seq(Words), NEW broken,
           Sync(sc, fe, broken, m, k),
           NEW f, f = Settle(sc), NEW es, es = EmissionsOf(f.blocks)
    PROVE  Sync(f.scanner, fe \o Fenced(es), broken \/ Hit(es), m, k)
<1>1. /\ sc.pending = <<>> => es = <<>> /\ f.scanner = sc
      /\ sc.inside => \/ es = <<>> /\ f.scanner.inside
                      \/ sc.pending # <<>> /\ sc.pending[1] = Fence
      /\ sc.inside /\ sc.pending # <<>> /\ sc.pending[1] = Fence =>
           /\ Fenced(es) = Valid(sc.body)
           /\ Parsed(sc.body) = NotJson => Hit(es)
  BY SettleSays
<1>2. es = <<>> => fe \o Fenced(es) = fe
  BY FencedNothing, ConcatEmptySeq
<1>e. CASE sc.pending = <<>>
  <2>1. f.scanner = sc /\ fe \o Fenced(es) = fe
    BY <1>1, <1>2, <1>e
  <2>2. Sync(f.scanner, fe \o Fenced(es), broken, m, k)
    BY <2>1
  <2> QED
    BY <2>2 DEF Sync
<1>3. CASE broken /\ Opened(m)
  BY <1>3 DEF Sync
<1>4. CASE Opened(m) /\ sc.inside /\ Junk(sc.body) /\ sc.pending # <<>>
  <2>1. Parsed(sc.body) = NotJson /\ sc.body \in Bodies
    BY <1>4, ScannerFields, JunkIsNotJson
  <2>2. Hit(es) \/ sc.pending[1] # Fence
    BY <1>1, <1>4, <2>1
  <2>3. CASE Hit(es)
    BY <1>4, <2>3 DEF Sync
  <2>4. CASE sc.pending[1] # Fence
    <3> DEFINE h == Found(sc, <<>>)
    <3>1. h \in FoundSet /\ h.scanner = sc /\ f = Take(h, Newline)
      BY <1>4, SettleTakes
    <3> HIDE DEF h
    <3>2. sc.pending # <<>> => sc.pending[1] # Fence
      BY <2>4
    <3>3. f.scanner.inside /\ f.scanner.body = Append(sc.body, sc.pending)
      BY <1>4, <3>1, <3>2, LineGrows
    <3>4. sc.pending \in Seq(Text)
      BY ScannerFields
    <3>5. Junk(Append(sc.body, sc.pending))
      BY <1>4, <2>1, <3>4, JunkStays
    <3> QED
      BY <1>4, <3>3, <3>5 DEF Sync
  <2> QED
    BY <2>2, <2>3, <2>4
<1>5. CASE m # <<>> /\ Tracked(sc, fe, m, k) /\ sc.pending # <<>>
  <2> DEFINE s == Last(m)
  <2>1. /\ s.form = "tight" /\ Inside(sc, <<Fence>>, <<<<s.value>>>>)
        /\ fe = Before(m) /\ ~Shadowed(m, Len(m))
    <3>1. ~Outside(sc, <<>>) /\ ~Inside(sc, <<>>, <<<<s.value>>>>)
      BY <1>5 DEF Outside, Inside
    <3> QED
      BY <1>5, <3>1, AtTheEnd
  <2>2. sc.inside /\ sc.pending = <<Fence>> /\ sc.body = <<<<s.value>>>>
    BY <2>1 DEF Inside
  <2>3. <<Fence>>[1] = Fence
    OBVIOUS
  <2>4. Fenced(es) = ItemsIn(s)
    BY <1>1, <1>5, <2>2, <2>3, ValidLine
  <2>5. fe \o Fenced(es) = After(m)
    BY <1>5, <2>1, <2>4, EventsOfLast
  <2>6. Outside(f.scanner, <<>>)
    <3> DEFINE h == Found(sc, <<>>)
    <3>1. h \in FoundSet /\ h.scanner = sc /\ f = Take(h, Newline)
      BY <1>5, SettleTakes
    <3> HIDE DEF h
    <3> QED
      BY <2>2, <3>1, LineCloses
  <2>7. Tracked(f.scanner, fe \o Fenced(es), m, k)
    BY <1>5, <2>1, <2>5, <2>6 DEF Tracked, Forms
  <2> QED
    BY <1>5, <2>7 DEF Sync
<1>6. CASE m = <<>> /\ Outside(sc, <<>>)
  BY <1>e, <1>6 DEF Outside
<1> QED
  BY <1>e, <1>3, <1>4, <1>5, <1>6 DEF Sync

(* What a turn's end has to answer for.                                     *)
Starts(w, t) == \E u \in Seq(Words) : t = w \o u
HasAnswer(es) ==
    \E i \in DOMAIN es : es[i].kind = "event"
                         /\ (es[i].extracted \/ es[i].what = "raw view")
UnmetOf(e, types) == {g \in e : g \cap types = {}}

(* Told in full, or a block left open and reported, or more than was        *)
(* written and still something missing.                                     *)
Accounts(es, w, opened) ==
    \/ opened /\ Hit(es)
    \/ Fenced(es) = w
    \/ "missing_expected" \in ReasonsIn(es) /\ Starts(w, Fenced(es))

Misses(es, w, opened, e) ==
    /\ "missing_expected" \in ReasonsIn(es)
    /\ \/ opened /\ Hit(es)
       \/ UnmetOf(e, ToSet(w)) # {} /\ Starts(w, Fenced(es))

Answers(es, e) ==
    \/ UnmetOf(e, ToSet(Fenced(es))) = {}
    \/ "missing_expected" \in ReasonsIn(es) /\ HasAnswer(es)

LEMMA StartsIsPrefix ==
    ASSUME NEW w \in Seq(Words), NEW t, Starts(w, t)
    PROVE  IsPrefix(w, t)
<1>1. PICK u \in Seq(Words) : t = w \o u
  BY DEF Starts
<1> DEFINE n == Len(w)
<1>2. /\ n \in Nat /\ Len(u) \in Nat /\ t \in Seq(Words) /\ Len(t) = n + Len(u)
      /\ \A i \in 1..n : t[i] = w[i] /\ w[i] \in Words
  <2>1. /\ w \o u \in Seq(Words) /\ Len(w \o u) = n + Len(u)
        /\ \A i \in 1..(n + Len(u)) : (w \o u)[i] = IF i <= n THEN w[i] ELSE u[i - n]
    BY ConcatProperties
  <2>2. n \in Nat /\ Len(u) \in Nat /\ \A i \in 1..n : w[i] \in Words
    BY LenProperties, ElementOfSeq
  <2>3. \A i \in 1..n : i \in 1..(n + Len(u)) /\ i <= n
    BY <2>2
  <2> QED
    BY <1>1, <2>1, <2>2, <2>3
<1> HIDE DEF n
<1>3. /\ SubSeq(t, 1, n) \in Seq(Words) /\ Len(SubSeq(t, 1, n)) = n
      /\ \A i \in 1..n : SubSeq(t, 1, n)[i] = t[i]
  <2>1. /\ SubSeq(t, 1, n) \in Seq(Words)
        /\ Len(SubSeq(t, 1, n)) = IF 1 <= n THEN n - 1 + 1 ELSE 0
        /\ \A i \in 1..(n - 1 + 1) : SubSeq(t, 1, n)[i] = t[1 + i - 1]
    BY <1>2, SubSeqProperties
  <2>2. \A i \in 1..n : i \in 1..(n - 1 + 1) /\ 1 + i - 1 = i
    BY <1>2
  <2> QED
    BY <1>2, <2>1, <2>2
<1>4. SubSeq(t, 1, n) = w
  <2>1. Len(w) = n /\ \A i \in 1..n : SubSeq(t, 1, n)[i] = w[i]
    BY <1>2, <1>3 DEF n
  <2> QED
    BY <1>3, <2>1, SeqEqual
<1>5. SubSeq(w, 1, n) = w
  BY SubSeqFull DEF n
<1>6. n <= Len(t) /\ n = Len(w)
  BY <1>2 DEF n
<1> QED
  BY <1>4, <1>5, <1>6 DEF IsPrefix

LEMMA StartsSelf ==
    ASSUME NEW w \in Seq(Words)
    PROVE  Starts(w, w)
<1>1. <<>> \in Seq(Words) /\ w = w \o <<>>
  BY ConcatEmptySeq
<1> QED
  BY <1>1 DEF Starts

LEMMA StartsMore ==
    ASSUME NEW w \in Seq(Words), NEW t, NEW v \in Seq(Words), Starts(w, t)
    PROVE  Starts(w, t \o v)
<1>1. PICK u \in Seq(Words) : t = w \o u
  BY DEF Starts
<1>2. t \o v = w \o (u \o v) /\ u \o v \in Seq(Words)
  BY <1>1, WordsConcat
<1> QED
  BY <1>2 DEF Starts

(* More that is said of blocks once the summarizer is awaited.              *)
LEMMA SaidMore ==
    ASSUME NEW es \in Seq(Emission), NEW x \in Seq(Said), NEW w \in Seq(Words),
           NEW opened, NEW e
    PROVE  /\ es \o x \in Seq(Emission)
           /\ Fenced(es \o x) = Fenced(es) \o Fenced(x)
           /\ ReasonsIn(es \o x) = ReasonsIn(es) \cup ReasonsIn(x)
           /\ Hit(es) \/ Hit(x) => Hit(es \o x)
           /\ Misses(es, w, opened, e) => /\ Misses(es \o x, w, opened, e)
                                          /\ Accounts(es \o x, w, opened)
<1>1. x \in Seq(Emission)
  BY SaidTypes
<1>2. /\ Fenced(es \o x) = Fenced(es) \o Fenced(x)
      /\ Fenced(es) \in Seq(Words) /\ Fenced(x) \in Seq(Words)
  BY <1>1, FencedConcat
<1>3. ReasonsIn(es \o x) = ReasonsIn(es) \cup ReasonsIn(x)
  BY <1>1, ReasonsConcat
<1>4. Hit(es) \/ Hit(x) => Hit(es \o x)
  BY <1>1, HitConcat
<1>5. Starts(w, Fenced(es)) => Starts(w, Fenced(es \o x))
  BY <1>2, StartsMore
<1>6. es \o x \in Seq(Emission)
  BY <1>1, ConcatProperties
<1>7. Misses(es, w, opened, e) => Misses(es \o x, w, opened, e)
  BY <1>3, <1>4, <1>5 DEF Misses
<1>8. Misses(es \o x, w, opened, e) => Accounts(es \o x, w, opened)
  BY DEF Misses, Accounts
<1> QED
  BY <1>2, <1>3, <1>4, <1>6, <1>7, <1>8

(* A violation that tells no event, if there is one.                        *)
Voiced(w) == {<<>>, <<Violation(w)>>}
With(es, x1, x2, x3) == es \o x1 \o x2 \o x3

LEMMA Complaint ==
    ASSUME NEW a \in Seq(Said),
           NEW w \in {"unterminated", "dangling_evidence_ref", "missing_expected"},
           NEW x \in Voiced(w)
    PROVE  /\ a \o x \in Seq(Said) /\ Fenced(a \o x) = Fenced(a)
           /\ ReasonsIn(a) \subseteq ReasonsIn(a \o x)
           /\ x # <<>> => w \in ReasonsIn(a \o x)
<1> DEFINE v == <<Violation(w)>>
<1>1. /\ Violation(w) \in Said /\ Violation(w) \in Emission
      /\ FencedOf(Violation(w)) = <<>> /\ Violation(w).kind = "violation"
      /\ Violation(w).what = w
  BY DEF Violation, Said, Emission, Words, IsFenced, FencedOf
<1>2. /\ v \in Seq(Said) /\ Fenced(v) = <<>> /\ w \in ReasonsIn(v)
  <2>1. v \in Seq(Said)
    BY <1>1
  <2>2. Fenced(v) = <<>>
    BY <1>1, FencedOne
  <2>3. DOMAIN v = {1} /\ v[1] = Violation(w)
    OBVIOUS
  <2>4. w \in ReasonsIn(v)
    <3> HIDE DEF v
    <3> QED
      BY <1>1, <2>3 DEF ReasonsIn
  <2> QED
    BY <2>1, <2>2, <2>4
<1>3. a \in Seq(Emission) /\ Fenced(a) \in Seq(Words)
  BY SaidTypes, FencedConcat
<1>v. x = v \/ x = <<>>
  BY DEF Voiced
<1> HIDE DEF v
<1>4. CASE x = v
  <2>2. /\ Fenced(a \o v) = Fenced(a) \o <<>>
        /\ ReasonsIn(a \o v) = ReasonsIn(a) \cup ReasonsIn(v)
    BY <1>2, <1>3, SaidMore
  <2>3. a \o v \in Seq(Said)
    BY <1>2, ConcatProperties
  <2>4. Fenced(a) \o <<>> = Fenced(a)
    BY <1>3, ConcatEmptySeq
  <2> QED
    BY <1>2, <1>4, <2>2, <2>3, <2>4
<1>5. CASE x = <<>>
  <2>1. a \o <<>> = a
    BY ConcatEmptySeq
  <2> QED
    BY <1>5, <2>1
<1> QED
  BY <1>v, <1>4, <1>5

LEMMA Complaints ==
    ASSUME NEW a \in Seq(Said), NEW x1 \in Voiced("unterminated"),
           NEW x2 \in Voiced("dangling_evidence_ref"),
           NEW x3 \in Voiced("missing_expected"),
           NEW said, said = With(a, x1, x2, x3)
    PROVE  /\ said \in Seq(Said) /\ Fenced(said) = Fenced(a)
           /\ ReasonsIn(a) \subseteq ReasonsIn(said)
           /\ x1 # <<>> => "unterminated" \in ReasonsIn(said)
           /\ x3 # <<>> => "missing_expected" \in ReasonsIn(said)
<1> DEFINE a1 == a \o x1  a2 == a1 \o x2
<1>1. /\ a1 \in Seq(Said) /\ Fenced(a1) = Fenced(a)
      /\ ReasonsIn(a) \subseteq ReasonsIn(a1)
      /\ x1 # <<>> => "unterminated" \in ReasonsIn(a1)
  BY Complaint
<1>2. said = a2 \o x3
  BY DEF With
<1> HIDE DEF a1
<1>3. /\ a2 \in Seq(Said) /\ Fenced(a2) = Fenced(a1)
      /\ ReasonsIn(a1) \subseteq ReasonsIn(a2)
  BY <1>1, Complaint
<1> HIDE DEF a2
<1>4. /\ said \in Seq(Said) /\ Fenced(said) = Fenced(a2)
      /\ ReasonsIn(a2) \subseteq ReasonsIn(said)
      /\ x3 # <<>> => "missing_expected" \in ReasonsIn(said)
  BY <1>2, <1>3, Complaint
<1> QED
  BY <1>1, <1>3, <1>4

(* How many segments have come whole.                                       *)
Heard(m, k) ==
    IF m = <<>> THEN 0 ELSE IF Whole(Last(m), k) THEN Len(m) ELSE Len(m) - 1

LEMMA HeardIs ==
    ASSUME NEW m \in Seq(Segments), NEW k
    PROVE  /\ Told(m, k) = EventsWithin(m, Heard(m, k))
           /\ Heard(m, k) \in 0..Len(m)
<1>1. CASE m = <<>>
  <2>1. Heard(m, k) = 0 /\ Len(m) = 0
    BY <1>1, EmptySeq DEF Heard
  <2> QED
    BY <1>1, <2>1, EventsAre DEF Told
<1>2. CASE m # <<>>
  <2>1. Len(m) \in Nat \ {0}
    BY <1>2, EmptySeq, LenProperties
  <2>2. Heard(m, k) = IF Whole(Last(m), k) THEN Len(m) ELSE Len(m) - 1
    BY <1>2 DEF Heard
  <2>3. Heard(m, k) \in 0..Len(m)
    BY <2>1, <2>2
  <2> QED
    BY <1>2, <2>2, <2>3 DEF Told, After, Before
<1> QED
  BY <1>1, <1>2

LEMMA HeardAtEnd ==
    ASSUME NEW m \in Seq(Segments), NEW s \in Segments, NEW k,
           m # <<>> => k = Len(Atoms(Last(m)))
    PROVE  /\ Heard(m, k) = Len(m)
           /\ Heard(Append(m, s), 0) = Len(m)
<1>1. Heard(m, k) = Len(m)
  <2>1. CASE m = <<>>
    BY <2>1, EmptySeq DEF Heard
  <2>2. CASE m # <<>>
    BY <2>2 DEF Heard, Whole
  <2> QED
    BY <2>1, <2>2
<1>2. Heard(Append(m, s), 0) = Len(m)
  <2> DEFINE t == Append(m, s)  a == Atoms(s)  l == Len(Lead(s))
  <2>1. t \in Seq(Segments) /\ Len(t) = Len(m) + 1 /\ t[Len(m) + 1] = s /\ Len(m) \in Nat
    BY AppendProperties, LenProperties
  <2>2. t # <<>>
    <3>1. Len(t) # 0
      BY <2>1
    <3> QED
      BY <3>1, EmptySeq
  <2>3. l \in 1..3 /\ l + 1 <= Len(a) /\ Len(a) \in Nat
    <3>1. a \in Seq(Text)
      BY AtomsAre
    <3> QED
      BY <3>1, LeadIs, AtomsIn, LenProperties
  <2> HIDE DEF t, l, a
  <2>4. Last(t) = s
    BY <2>1, <2>2 DEF Last
  <2>5. ~Whole(s, 0)
    <3> DEFINE n == Len(a)
    <3>1. n \in Nat /\ n >= 2
      BY <2>3
    <3> HIDE DEF n
    <3>2. 0 # n /\ 0 # n - 1
      BY <3>1
    <3> QED
      BY <3>2 DEF Whole, a, n
  <2> QED
    BY <2>1, <2>2, <2>4, <2>5 DEF Heard, t
<1> QED
  BY <1>1, <1>2

LEMMA HeardGrows ==
    ASSUME NEW m \in Seq(Segments), m # <<>>, NEW k \in Nat, NEW n \in Nat \ {0},
           k + n <= Len(Atoms(Last(m)))
    PROVE  Heard(m, k + n) = IF Whole(Last(m), k + n) THEN Len(m) ELSE Heard(m, k)
<1> DEFINE a == Len(Atoms(Last(m)))
<1>1. a \in Nat
  <2>1. Last(m) \in Segments
    BY LastIs
  <2>2. Atoms(Last(m)) \in Seq(Text)
    BY <2>1, AtomsAre
  <2> QED
    BY <2>2, LenProperties
<1>2. Whole(Last(m), k) => Whole(Last(m), k + n)
  <2> HAVE Whole(Last(m), k)
  <2>1. k = a \/ k = a - 1
    BY DEF Whole
  <2>l. k + n <= a
    OBVIOUS
  <2> HIDE DEF a
  <2>2. k + n = a
    BY <1>1, <2>1, <2>l
  <2> QED
    BY <2>2 DEF Whole, a
<1> QED
  BY <1>2 DEF Heard

-----------------------------------------------------------------------------
(* The invariant.  While a turn is open and nobody awaits the summarizer,   *)
(* the scanner is in step with the agent's text; from then on the log       *)
(* answers for what was written.                                            *)

ContractTypes ==
    /\ scanner \in Scanner /\ open \in BOOLEAN /\ expect \in Expectations
    /\ log \in Seq(Emission) /\ closing \in SUBSET {"settle", "cut"}
    /\ message \in Seq(Segments) /\ at \in Nat
    /\ message # <<>> => at <= Len(Atoms(Last(message)))
    /\ heard \in 0..Len(message)

InStep == open /\ closing = {} =>
    /\ heard = Heard(message, at)
    /\ Sync(scanner, Fenced(log), Hit(log), message, at)
AllSeen == open => seen = ToSet(Fenced(log))
Accounted ==
    ~(open /\ closing = {}) =>
        Accounts(log, EventsWithin(message, heard), Opened(message))
Awaited ==
    closing # {} =>
        Misses(log, EventsWithin(message, heard), Opened(message), expect)
Answering == ~open => Answers(log, expect)

ContractInv ==
    /\ ContractTypes /\ InStep /\ AllSeen /\ Accounted /\ Awaited /\ Answering

(* What the end of a turn says.                                             *)
Saying(said, es, es0, es1, x1, x3) ==
    /\ said \in Seq(Said) /\ Fenced(said) = Fenced(es0) \o Fenced(es1)
    /\ Fenced(es0) \in Seq(Words) /\ Fenced(es1) \in Seq(Words)
    /\ Hit(es0) \/ Hit(es1) \/ x1 # <<>> => Hit(said)
    /\ x3 # <<>> => "missing_expected" \in ReasonsIn(said)
    /\ TypesIn(es) = ToSet(Fenced(said)) /\ TypesIn(said) = ToSet(Fenced(said))

LEMMA EndSays ==
    ASSUME NEW bs \in Seq(Block), NEW cs \in Seq(Block),
           NEW es0, es0 = EmissionsOf(bs), NEW es1, es1 = EmissionsOf(cs),
           NEW x1 \in Voiced("unterminated"), NEW x2 \in Voiced("dangling_evidence_ref"),
           NEW x3 \in Voiced("missing_expected"),
           NEW es, es = EmissionsOf(bs \o cs), NEW said, said = With(es, x1, x2, x3)
    PROVE  Saying(said, es, es0, es1, x1, x3)
<1>2. es = es0 \o es1 /\ es0 \in Seq(Said) /\ es1 \in Seq(Said)
  BY EmissionsConcat
<1>3. es \in Seq(Said) /\ es0 \in Seq(Emission) /\ es1 \in Seq(Emission)
  BY <1>2, ConcatProperties, SaidTypes
<1>4. /\ Fenced(es) = Fenced(es0) \o Fenced(es1)
      /\ Fenced(es0) \in Seq(Words) /\ Fenced(es1) \in Seq(Words)
      /\ Hit(es0) \/ Hit(es1) => Hit(es)
  <2>1. /\ Fenced(es0 \o es1) = Fenced(es0) \o Fenced(es1)
        /\ Fenced(es0) \in Seq(Words)
    BY <1>3, FencedConcat
  <2>2. Fenced(es1) \in Seq(Words)
    BY <1>3, FencedConcat
  <2>3. Hit(es0) \/ Hit(es1) => Hit(es0 \o es1)
    BY <1>3, HitConcat
  <2> QED
    BY <1>2, <2>1, <2>2, <2>3
<1>5. /\ said \in Seq(Said) /\ Fenced(said) = Fenced(es)
      /\ ReasonsIn(es) \subseteq ReasonsIn(said)
      /\ x1 # <<>> => "unterminated" \in ReasonsIn(said)
      /\ x3 # <<>> => "missing_expected" \in ReasonsIn(said)
  <2>1. es \in Seq(Said) /\ said = With(es, x1, x2, x3)
    BY <1>3
  <2> QED
    BY <2>1, Complaints
<1>6. Hit(es) \/ x1 # <<>> => Hit(said)
  BY <1>5 DEF Hit, FenceReasons
<1>7. TypesIn(es) = ToSet(Fenced(said)) /\ TypesIn(said) = ToSet(Fenced(said))
  BY <1>3, <1>5, SaidTypes
<1> QED
  BY <1>4, <1>5, <1>6, <1>7 DEF Saying

EndsWith(caller, f, es, types) ==
    \E x1 \in Voiced("unterminated"), x2 \in Voiced("dangling_evidence_ref"),
       x3 \in Voiced("missing_expected") :
      /\ f.scanner.inside => x1 # <<>>
      /\ x3 # <<>> <=> UnmetOf(expect, types) # {}
      /\ log' = log \o With(es, x1, x2, x3)
      /\ seen' = seen \cup TypesIn(With(es, x1, x2, x3))
      /\ scanner' = EmptyScanner /\ expect' = expect
      /\ IF x3 # <<>> THEN closing' = closing \cup {caller} /\ open' = open
         ELSE open' = FALSE /\ closing' = closing

LEMMA EndTurnIs ==
    ASSUME NEW caller, NEW settled, EndTurn(caller, settled),
           NEW f, f = Settle(settled.scanner),
           NEW es, es = EmissionsOf(settled.blocks \o f.blocks),
           NEW types, types = seen \cup TypesIn(es)
    PROVE  EndsWith(caller, f, es, types)
<1> DEFINE v1 == IF f.scanner.inside THEN <<Violation("unterminated")>> ELSE <<>>
           v2 == IF Dangling(types) THEN <<Violation("dangling_evidence_ref")>> ELSE <<>>
           v3 == IF Unmet(types) # {} THEN <<Violation("missing_expected")>> ELSE <<>>
<1>1. \A v : <<v>> # <<>>
  OBVIOUS
<1>2. v3 # <<>> <=> Unmet(types) # {}
  BY <1>1
<1>3. /\ log' = log \o (With(es, v1, v2, v3))
      /\ seen' = seen \cup TypesIn(With(es, v1, v2, v3))
      /\ scanner' = EmptyScanner /\ expect' = expect
      /\ IF Unmet(types) # {} THEN closing' = closing \cup {caller} /\ open' = open
         ELSE open' = FALSE /\ closing' = closing
  BY DEF EndTurn, Flush, Emit, With
<1>4. f.scanner.inside => v1 # <<>>
  BY <1>1
<1>5. Unmet(types) = UnmetOf(expect, types)
  BY DEF Unmet, UnmetOf
<1>6. /\ v1 \in Voiced("unterminated") /\ v2 \in Voiced("dangling_evidence_ref")
      /\ v3 \in Voiced("missing_expected")
  BY DEF Voiced
<1>7. v3 # <<>> <=> UnmetOf(expect, types) # {}
  BY <1>2, <1>5
<1>8. IF v3 # <<>> THEN closing' = closing \cup {caller} /\ open' = open
      ELSE open' = FALSE /\ closing' = closing
  BY <1>2, <1>3
<1> HIDE DEF v1, v2, v3
<1>9. /\ f.scanner.inside => v1 # <<>>
      /\ v3 # <<>> <=> UnmetOf(expect, types) # {}
  BY <1>4, <1>7
<1> QED
  BY <1>3, <1>6, <1>8, <1>9 DEF EndsWith

LEMMA EmptyIs == EmptyScanner \in Scanner /\ Outside(EmptyScanner, <<>>)
<1>1. EmptyScanner = Fields(<<>>, FALSE, <<>>, FALSE, FALSE)
  BY DEF EmptyScanner, Fields
<1>2. <<>> \in Seq(Text) /\ <<>> \in Bodies
  BY EmptySeq DEF Bodies
<1>3. EmptyScanner \in Scanner
  BY <1>1, <1>2, FieldsScanner
<1>4. ~EmptyScanner.inside /\ EmptyScanner.pending = <<>>
  BY DEF EmptyScanner
<1> QED
  BY <1>3, <1>4 DEF Outside

LEMMA ToSetMore ==
    ASSUME NEW a \in Seq(Words), NEW b \in Seq(Words)
    PROVE  ToSet(a \o b) = ToSet(a) \cup ToSet(b)
  BY ToSetConcat

(* The events of what has been heard, and whether a block was left open.    *)
LEMMA WrittenType ==
    ASSUME ContractTypes
    PROVE  EventsWithin(message, heard) \in Seq(Words) /\ Fenced(log) \in Seq(Words)
<1>1. heard \in Nat /\ log \in Seq(Emission)
  BY LenProperties DEF ContractTypes
<1> QED
  BY <1>1, EventsAre, FencedConcat

LEMMA EndTurnStep ==
    ASSUME ContractInv, open, NEW caller \in {"settle", "cut"},
           NEW settled \in FoundSet, NEW es0, es0 = EmissionsOf(settled.blocks),
           closing = {} => Sync(settled.scanner, Fenced(log) \o Fenced(es0),
                                Hit(log) \/ Hit(es0), message, at),
           EndTurn(caller, settled), UNCHANGED <<message, at, heard>>
    PROVE  ContractInv'
<1> DEFINE f == Settle(settled.scanner)  es1 == EmissionsOf(f.blocks)
           es == EmissionsOf(settled.blocks \o f.blocks)
           types == seen \cup TypesIn(es)
           w == EventsWithin(message, heard)
<1>2. settled.scanner \in Scanner /\ f \in FoundSet
  <2>1. settled.scanner \in Scanner
    BY DEF FoundSet
  <2> QED
    BY <2>1, SettleIs
<1>e1. es1 = EmissionsOf(f.blocks) /\ es = EmissionsOf(settled.blocks \o f.blocks)
  OBVIOUS
<1>t. types = seen \cup TypesIn(es)
  OBVIOUS
<1>f. f = Settle(settled.scanner)
  OBVIOUS
<1> HIDE DEF es1, es, types, f
<1>1. PICK x1 \in Voiced("unterminated"), x2 \in Voiced("dangling_evidence_ref"),
           x3 \in Voiced("missing_expected") :
        /\ f.scanner.inside => x1 # <<>>
        /\ x3 # <<>> <=> UnmetOf(expect, types) # {}
        /\ log' = log \o (With(es, x1, x2, x3))
        /\ seen' = seen \cup TypesIn(With(es, x1, x2, x3))
        /\ scanner' = EmptyScanner /\ expect' = expect
        /\ IF x3 # <<>> THEN closing' = closing \cup {caller} /\ open' = open
           ELSE open' = FALSE /\ closing' = closing
  <2>1. EndsWith(caller, f, es, types)
    BY <1>e1, <1>f, <1>t, EndTurnIs
  <2> QED
    BY <2>1 DEF EndsWith
<1> DEFINE said == With(es, x1, x2, x3)  c1 == x1 # <<>>  c3 == x3 # <<>>
<1>u. (c3 <=> UnmetOf(expect, types) # {}) /\ (f.scanner.inside => c1)
  BY <1>1
<1>s. said = With(es, x1, x2, x3)
  OBVIOUS
<1>d. /\ log' = log \o said /\ seen' = seen \cup TypesIn(said)
      /\ scanner' = EmptyScanner /\ expect' = expect
      /\ IF c3 THEN closing' = closing \cup {caller} /\ open' = open
         ELSE open' = FALSE /\ closing' = closing
  BY <1>1
<1>bs. settled.blocks \in Seq(Block) /\ f.blocks \in Seq(Block)
  BY <1>2 DEF FoundSet
<1> HIDE DEF said
<1>4. /\ said \in Seq(Said) /\ Fenced(said) = Fenced(es0) \o Fenced(es1)
      /\ Fenced(es0) \in Seq(Words) /\ Fenced(es1) \in Seq(Words)
      /\ Hit(es0) \/ Hit(es1) \/ c1 => Hit(said)
      /\ c3 => "missing_expected" \in ReasonsIn(said)
      /\ TypesIn(es) = ToSet(Fenced(said)) /\ TypesIn(said) = ToSet(Fenced(said))
  <2>1. Saying(said, es, es0, es1, x1, x3)
    <3> DEFINE bs == settled.blocks  cs == f.blocks
    <3>1. bs \in Seq(Block) /\ cs \in Seq(Block)
      BY <1>bs
    <3>2. es0 = EmissionsOf(bs) /\ es1 = EmissionsOf(cs) /\ es = EmissionsOf(bs \o cs)
      BY <1>e1
    <3>3. /\ x1 \in Voiced("unterminated") /\ x2 \in Voiced("dangling_evidence_ref")
          /\ x3 \in Voiced("missing_expected")
      OBVIOUS
    <3> HIDE DEF c1, c3, bs, cs
    <3> QED
      BY <1>s, <3>1, <3>2, <3>3, EndSays
  <2> QED
    BY <2>1 DEF Saying
<1> HIDE DEF c1, c3
<1>5. ContractTypes /\ InStep /\ AllSeen /\ Accounted /\ Awaited /\ Answering
  BY DEF ContractInv
<1>6. /\ log \in Seq(Emission) /\ expect \in Expectations /\ open \in BOOLEAN
      /\ closing \in SUBSET {"settle", "cut"} /\ message \in Seq(Segments)
      /\ at \in Nat /\ (message # <<>> => at <= Len(Atoms(Last(message))))
      /\ heard \in 0..Len(message) /\ w \in Seq(Words) /\ Fenced(log) \in Seq(Words)
  BY <1>5, WrittenType DEF ContractTypes
<1> DEFINE log2 == log \o said
<1>7. /\ log2 \in Seq(Emission) /\ Fenced(log2) = Fenced(log) \o Fenced(said)
      /\ ReasonsIn(log2) = ReasonsIn(log) \cup ReasonsIn(said)
      /\ Hit(log) \/ Hit(said) => Hit(log2)
      /\ Misses(log, w, Opened(message), expect) =>
           /\ Misses(log2, w, Opened(message), expect)
           /\ Accounts(log2, w, Opened(message))
  <2> DEFINE o == Opened(message)
  <2> HIDE DEF w, o
  <2>1. /\ log2 \in Seq(Emission) /\ Fenced(log2) = Fenced(log) \o Fenced(said)
        /\ ReasonsIn(log2) = ReasonsIn(log) \cup ReasonsIn(said)
        /\ Hit(log) \/ Hit(said) => Hit(log2)
        /\ Misses(log, w, o, expect) => /\ Misses(log2, w, o, expect)
                                        /\ Accounts(log2, w, o)
    BY <1>4, <1>6, SaidMore
  <2> QED
    BY <2>1 DEF o
<1> HIDE DEF log2
<1>8. ToSet(Fenced(log2)) = seen \cup ToSet(Fenced(said)) /\ types = ToSet(Fenced(log2))
  <2>1. Fenced(said) \in Seq(Words)
    BY <1>4, SaidTypes, FencedConcat
  <2>2. ToSet(Fenced(log) \o Fenced(said)) = ToSet(Fenced(log)) \cup ToSet(Fenced(said))
    BY <1>6, <2>1, ToSetMore
  <2>3. seen = ToSet(Fenced(log))
    BY <1>5 DEF AllSeen
  <2> QED
    BY <1>4, <1>7, <1>t, <2>2, <2>3
<1>9. CASE closing = {}
  <2>1. ASSUME TRUE
        PROVE  Accounts(log2, w, Opened(message))
               /\ (Fenced(log2) = w \/ (Opened(message) /\ Hit(log2)))
    <3> DEFINE fe == Fenced(log) \o Fenced(es0)  broken == Hit(log) \/ Hit(es0)
    <3>1. Sync(settled.scanner, fe, broken, message, at) /\ fe \in Seq(Words)
      BY <1>4, <1>6, <1>9, WordsConcat
    <3>b. broken <=> Hit(log) \/ Hit(es0)
      OBVIOUS
    <3>f. fe = Fenced(log) \o Fenced(es0)
      OBVIOUS
    <3>m. message \in Seq(Segments) /\ at \in Nat
          /\ (message # <<>> => at <= Len(Atoms(Last(message))))
      BY <1>6
    <3> HIDE DEF fe, broken
    <3>2. \/ fe \o Fenced(es1) = Told(message, at)
          \/ Opened(message) /\ (broken \/ Hit(es1) \/ f.scanner.inside)
      BY <1>2, <1>e1, <1>f, <3>1, <3>m, Settled
    <3>3. fe \o Fenced(es1) = Fenced(log2)
      <4>1. fe \o Fenced(es1) = Fenced(log) \o (Fenced(es0) \o Fenced(es1))
          <5>1. /\ Fenced(log) \in Seq(Words) /\ Fenced(es0) \in Seq(Words)
            /\ Fenced(es1) \in Seq(Words)
        BY <1>4, <1>6
        <5>2. (Fenced(log) \o Fenced(es0)) \o Fenced(es1)
              = Fenced(log) \o (Fenced(es0) \o Fenced(es1))
        BY <5>1, WordsConcat
        <5> QED
        BY <3>f, <5>2
      <4> QED
        BY <1>4, <1>7, <4>1
    <3>4. Told(message, at) = w
      <4>1. heard = Heard(message, at)
        BY <1>5, <1>9 DEF InStep
      <4> QED
        BY <1>6, <4>1, HeardIs
    <3>5. broken \/ Hit(es1) \/ f.scanner.inside => Hit(log2)
      BY <1>4, <1>7, <1>u, <3>b
    <3> HIDE DEF w
    <3>6. Fenced(log2) = w \/ (Opened(message) /\ Hit(log2))
      BY <3>2, <3>3, <3>4, <3>5
    <3> QED
      BY <3>6 DEF Accounts
  <2>2. CASE c3
    <3>1. Misses(log2, w, Opened(message), expect)
      <4>1. "missing_expected" \in ReasonsIn(log2)
        BY <1>4, <1>7, <2>2
      <4>2. CASE Fenced(log2) = w
        <5>1. Starts(w, Fenced(log2))
          BY <1>6, <4>2, StartsSelf
        <5>2. UnmetOf(expect, ToSet(w)) # {}
          BY <1>8, <1>u, <2>2, <4>2
        <5> QED
          BY <4>1, <5>1, <5>2 DEF Misses
      <4>3. CASE Opened(message) /\ Hit(log2)
        BY <4>1, <4>3 DEF Misses
      <4> QED
        BY <2>1, <4>2, <4>3
    <3>2. log' = log2 /\ open' = open /\ closing' # {}
      BY <1>d, <2>2 DEF log2
    <3> QED
      <4>1. ContractTypes'
        BY <1>d, <1>6, <1>7, <2>2, EmptyIs DEF ContractTypes, log2
      <4>2. InStep' /\ Answering'
        BY <3>2 DEF InStep, Answering
      <4>3. AllSeen'
        BY <1>d, <1>4, <1>8 DEF AllSeen, log2
      <4>4. Accounted' /\ Awaited'
        BY <1>d, <2>1, <3>1, <3>2 DEF Accounted, Awaited
      <4> QED
        BY <4>1, <4>2, <4>3, <4>4 DEF ContractInv
  <2>3. CASE ~c3
    <3>1. log' = log2 /\ open' = FALSE /\ closing' = {}
      BY <1>d, <1>9, <2>3 DEF log2
    <3>2. Answers(log2, expect)
      BY <1>8, <1>u, <2>3 DEF Answers
    <3> QED
      <4>1. ContractTypes'
        BY <1>d, <1>6, <1>7, <2>3, EmptyIs DEF ContractTypes, log2
      <4>2. InStep' /\ AllSeen' /\ Awaited'
        BY <3>1 DEF InStep, AllSeen, Awaited
      <4>3. Accounted'
        BY <2>1, <3>1 DEF Accounted
      <4>4. Answering'
        BY <1>d, <3>1, <3>2 DEF Answering
      <4> QED
        BY <4>1, <4>2, <4>3, <4>4 DEF ContractInv
  <2> QED
    BY <2>2, <2>3
<1>10. CASE closing # {}
  <2>1. Misses(log2, w, Opened(message), expect) /\ Accounts(log2, w, Opened(message))
    BY <1>5, <1>7, <1>10 DEF Awaited
  <2>2. log' = log2 /\ closing' # {} /\ expect' = expect
    BY <1>d, <1>10 DEF log2
  <2>3. ContractTypes'
    <3>1. open' \in BOOLEAN /\ closing' \in SUBSET {"settle", "cut"}
      BY <1>d, <1>6
    <3> QED
      BY <1>d, <1>6, <1>7, <3>1, EmptyIs DEF ContractTypes, log2
  <2>4. InStep'
    BY <2>2 DEF InStep
  <2>5. AllSeen'
    BY <1>d, <1>4, <1>8 DEF AllSeen, log2
  <2>6. Accounted' /\ Awaited'
    BY <2>1, <2>2 DEF Accounted, Awaited
  <2>7. Answering'
    <3>1. ~open' => ~c3
      BY <1>d
    <3>2. ~c3 => Answers(log2, expect)
      BY <1>8, <1>u DEF Answers
    <3> QED
      BY <2>2, <3>1, <3>2 DEF Answering
  <2> QED
    BY <2>3, <2>4, <2>5, <2>6, <2>7 DEF ContractInv
<1> QED
  BY <1>9, <1>10

-----------------------------------------------------------------------------
(* Every action keeps the invariant.                                        *)

(* The types, one by one.                                                  *)
LEMMA Parts ==
    ASSUME ContractInv
    PROVE  /\ scanner \in Scanner /\ open \in BOOLEAN /\ expect \in Expectations
           /\ log \in Seq(Emission) /\ closing \in SUBSET {"settle", "cut"}
           /\ message \in Seq(Segments) /\ at \in Nat
           /\ (message # <<>> => at <= Len(Atoms(Last(message))))
           /\ heard \in 0..Len(message) /\ heard \in Nat /\ Len(message) \in Nat
           /\ Fenced(log) \in Seq(Words)
           /\ EventsWithin(message, heard) \in Seq(Words)
<1>1. ContractTypes
  BY DEF ContractInv
<1>2. Len(message) \in Nat
  BY <1>1, LenProperties DEF ContractTypes
<1> QED
  BY <1>1, <1>2, WrittenType DEF ContractTypes

(* What is emitted while the turn is open.                                  *)
LEMMA Emitted ==
    ASSUME ContractInv, NEW bs \in Seq(Block), NEW x, x = EmissionsOf(bs), Emit(x)
    PROVE  /\ log' \in Seq(Emission) /\ Fenced(log') = Fenced(log) \o Fenced(x)
           /\ Fenced(x) \in Seq(Words)
           /\ Hit(log) \/ Hit(x) => Hit(log')
           /\ open => seen' = ToSet(Fenced(log'))
           /\ closing # {} =>
                /\ Misses(log', EventsWithin(message, heard), Opened(message), expect)
                /\ Accounts(log', EventsWithin(message, heard), Opened(message))
<1> DEFINE w == EventsWithin(message, heard)  o == Opened(message)  y == log \o x
<1>1. log' = y /\ seen' = seen \cup TypesIn(x)
  BY DEF Emit
<1>2. x \in Seq(Said) /\ log \in Seq(Emission) /\ w \in Seq(Words)
      /\ Fenced(log) \in Seq(Words)
  BY EmissionsConcat, Parts
<1>3. closing # {} => Misses(log, w, o, expect)
  BY DEF ContractInv, Awaited
<1>4. open => seen = ToSet(Fenced(log))
  BY DEF ContractInv, AllSeen
<1>y. y = log \o x
  OBVIOUS
<1> HIDE DEF w, o, y
<1>5. /\ y \in Seq(Emission) /\ Fenced(y) = Fenced(log) \o Fenced(x)
      /\ Hit(log) \/ Hit(x) => Hit(y)
      /\ Misses(log, w, o, expect) => Misses(y, w, o, expect) /\ Accounts(y, w, o)
  BY <1>2, <1>y, SaidMore
<1>6. x \in Seq(Emission) /\ ToSet(Fenced(x)) = TypesIn(x)
  BY <1>2, SaidTypes
<1>7. Fenced(x) \in Seq(Words)
  BY <1>6, FencedConcat
<1>8. ToSet(Fenced(log) \o Fenced(x)) = ToSet(Fenced(log)) \cup ToSet(Fenced(x))
  BY <1>2, <1>7, ToSetMore
<1>9. open => seen' = ToSet(Fenced(y))
  BY <1>1, <1>4, <1>5, <1>6, <1>8
<1>10. closing # {} => Misses(y, w, o, expect) /\ Accounts(y, w, o)
  BY <1>3, <1>5
<1> QED
  BY <1>1, <1>5, <1>7, <1>9, <1>10 DEF w, o

LEMMA StutterStep ==
    ASSUME ContractInv, UNCHANGED <<pipeline, closing, message, at, heard>>
    PROVE  ContractInv'
  BY DEF pipeline, ContractInv, ContractTypes, InStep, AllSeen, Accounted, Awaited,
         Answering

LEMMA BeginTurnStep ==
    ASSUME BeginTurn
    PROVE  ContractInv'
<1>1. /\ scanner' = EmptyScanner /\ open' = TRUE /\ expect' \in Expectations
      /\ seen' = {} /\ log' = <<>> /\ message' = <<>> /\ at' = 0 /\ heard' = 0
      /\ closing' = {}
  BY DEF BeginTurn
<1>2. Len(<<>>) = 0 /\ ToSet(<<>>) = {}
  BY EmptySeq DEF ToSet
<1>3. ContractTypes'
  <2>1. log' \in Seq(Emission) /\ message' \in Seq(Segments) /\ scanner' \in Scanner
    BY <1>1, EmptyIs, EmptySeq
  <2>2. heard' \in 0..Len(message') /\ at' \in Nat
    BY <1>1, <1>2
  <2>3. open' \in BOOLEAN /\ closing' \in SUBSET {"settle", "cut"}
    BY <1>1
  <2>4. expect' \in Expectations /\ message' = <<>>
    BY <1>1
  <2> QED
    BY <2>1, <2>2, <2>3, <2>4 DEF ContractTypes
<1>4. InStep'
  <2>1. heard' = Heard(message', at')
    BY <1>1 DEF Heard
  <2>2. Fenced(log') = <<>> /\ Outside(scanner', <<>>)
    BY <1>1, EmptyIs, FencedNothing
  <2>3. Sync(scanner', Fenced(log'), Hit(log'), message', at')
    BY <1>1, <2>2 DEF Sync
  <2> QED
    BY <2>1, <2>3 DEF InStep
<1>5. AllSeen'
  BY <1>1, <1>2, FencedNothing DEF AllSeen
<1>6. Accounted' /\ Awaited' /\ Answering'
  BY <1>1 DEF Accounted, Awaited, Answering
<1> QED
  BY <1>3, <1>4, <1>5, <1>6 DEF ContractInv

LEMMA OpenedMore ==
    ASSUME NEW m \in Seq(Segments), NEW s \in Segments, Opened(m)
    PROVE  Opened(Append(m, s))
<1>1. PICK i \in DOMAIN m : m[i].form = "unclosed"
  BY DEF Opened
<1>2. /\ DOMAIN m = 1..Len(m) /\ Len(m) \in Nat
  BY LenProperties
<1>3. /\ Append(m, s) \in Seq(Segments) /\ Len(Append(m, s)) = Len(m) + 1
      /\ \A j \in 1..Len(m) : Append(m, s)[j] = m[j]
  BY AppendProperties
<1>4. i \in DOMAIN Append(m, s) /\ Append(m, s)[i].form = "unclosed"
  <2>1. DOMAIN Append(m, s) = 1..(Len(m) + 1)
    BY <1>3, LenProperties
  <2> QED
    BY <1>1, <1>2, <1>3, <2>1
<1> QED
  BY <1>4 DEF Opened

LEMMA WriteStep ==
    ASSUME ContractInv, Write
    PROVE  ContractInv'
<1>1. PICK s \in Segments : message' = Append(message, s)
  BY DEF Write
<1>2. /\ message # <<>> => at = Len(Atoms(Last(message)))
      /\ at' = 0 /\ scanner' = scanner /\ open' = open /\ expect' = expect
      /\ seen' = seen /\ log' = log /\ closing' = closing /\ heard' = heard
  BY DEF Write, AllSent, pipeline
<1> DEFINE m == message  t == Append(message, s)
<1>3. /\ m \in Seq(Segments) /\ heard \in 0..Len(m) /\ Len(m) \in Nat
  BY Parts
<1>4. /\ EventsWithin(t, heard) = EventsWithin(m, heard)
      /\ Opened(m) => Opened(t)
  BY <1>3, EventsStay, OpenedMore
<1>5. /\ t \in Seq(Segments) /\ Len(t) = Len(m) + 1 /\ t # <<>> /\ Last(t) = s
  <2>1. t \in Seq(Segments) /\ Len(t) = Len(m) + 1 /\ t[Len(m) + 1] = s
    BY <1>3, AppendProperties
  <2>2. t # <<>>
    <3>1. Len(t) # 0
      BY <1>3, <2>1
    <3> QED
      BY <3>1, EmptySeq
  <2> QED
    BY <2>1, <2>2 DEF Last
<1>t. message' = t
  BY <1>1
<1> HIDE DEF t
<1>6. ContractTypes'
  <2>1. at' \in Nat /\ at' <= Len(Atoms(Last(message')))
    <3>1. Atoms(s) \in Seq(Text)
      BY AtomsAre
    <3>2. Len(Atoms(s)) \in Nat
      BY <3>1, LenProperties
    <3> QED
      BY <1>2, <1>5, <1>t, <3>2
  <2>2. heard' \in 0..Len(message') /\ message' \in Seq(Segments)
    BY <1>2, <1>3, <1>5, <1>t
  <2> QED
    BY <1>2, <2>1, <2>2, Parts DEF ContractTypes
<1>7. InStep'
  <2>1. SUFFICES ASSUME open, closing = {}
                 PROVE  /\ heard = Heard(t, 0)
                        /\ Sync(scanner, Fenced(log), Hit(log), t, 0)
    BY <1>2, <1>t DEF InStep
  <2>2. heard = Heard(m, at) /\ Sync(scanner, Fenced(log), Hit(log), m, at)
    BY <2>1 DEF ContractInv, InStep
  <2>3. heard = Heard(t, 0)
    <3>1. Heard(m, at) = Len(m) /\ Heard(t, 0) = Len(m)
      BY <1>2, <1>3, HeardAtEnd DEF t
    <3> QED
      BY <2>2, <3>1
  <2>4. Sync(scanner, Fenced(log), Hit(log), t, 0)
    BY <1>2, <1>3, <2>2, NextSegment DEF t
  <2> QED
    BY <2>3, <2>4
<1>8. AllSeen' /\ Answering'
  BY <1>2 DEF ContractInv, AllSeen, Answering
<1>9. Accounted' /\ Awaited'
  <2>1. Accounted /\ Awaited
    BY DEF ContractInv
  <2> HIDE DEF m
  <2>2. /\ Accounts(log, EventsWithin(m, heard), Opened(m)) =>
             Accounts(log, EventsWithin(t, heard), Opened(t))
        /\ Misses(log, EventsWithin(m, heard), Opened(m), expect) =>
             Misses(log, EventsWithin(t, heard), Opened(t), expect)
    BY <1>4 DEF Accounts, Misses
  <2> QED
    BY <1>2, <1>t, <2>1, <2>2 DEF Accounted, Awaited, m
<1> QED
  BY <1>6, <1>7, <1>8, <1>9 DEF ContractInv

LEMMA IngestStep ==
    ASSUME ContractInv, Ingest
    PROVE  ContractInv'
<1> DEFINE m == message  k == at  a == Atoms(Last(m))  unsent == Len(a) - k
           w == EventsWithin(m, heard)
<1>1. m # <<>> /\ k # Len(a)
  BY DEF Ingest, AllSent
<1>2. PICK n \in 1..(IF unsent < MaxChunk THEN unsent ELSE MaxChunk) :
        LET pushed == Push(scanner, SubSeq(a, k + 1, k + n))
        IN /\ at' = k + n
           /\ IF open
              THEN /\ scanner' = pushed.scanner
                   /\ Emit(EmissionsOf(pushed.blocks))
                   /\ text' = TRUE
                   /\ heard' = IF closing = {} /\ Whole(Last(m), at')
                               THEN Len(m) ELSE heard
              ELSE UNCHANGED <<scanner, log, seen, text, heard>>
  BY DEF Ingest
<1>3. open' = open /\ expect' = expect /\ closing' = closing /\ message' = m
  BY DEF Ingest
<1>4. /\ m \in Seq(Segments) /\ k \in Nat /\ k <= Len(a) /\ a \in Seq(Text)
      /\ Len(a) \in Nat /\ heard \in 0..Len(m) /\ Len(m) \in Nat
      /\ scanner \in Scanner
  <2>1. m \in Seq(Segments) /\ k \in Nat /\ k <= Len(a) /\ scanner \in Scanner
        /\ heard \in 0..Len(m) /\ Len(m) \in Nat
    BY <1>1, Parts
  <2>2. a \in Seq(Text)
    <3>1. Last(m) \in Segments
      BY <1>1, <2>1, LastIs
    <3> QED
      BY <3>1, AtomsAre
  <2> QED
    BY <2>1, <2>2, LenProperties
<1>5. n \in Nat \ {0} /\ k + n <= Len(a)
  <2>1. MaxChunk \in Nat \ {0}
    BY ContractAssumption
  <2>2. k <= Len(a) /\ k \in Nat /\ Len(a) \in Nat
    BY <1>4
  <2> DEFINE l == Len(a)
  <2>3. n \in 1..(IF l - k < MaxChunk THEN l - k ELSE MaxChunk)
    OBVIOUS
  <2>4. k <= l /\ l \in Nat
    BY <2>2
  <2> HIDE DEF l, k
  <2>5. n \in Nat \ {0} /\ k + n <= l
    BY <2>1, <2>2, <2>3, <2>4
  <2> QED
    BY <2>5 DEF l, k
<1>6. CASE ~open
  <2>1. UNCHANGED <<scanner, log, seen, heard>> /\ at' = k + n
    BY <1>2, <1>6
  <2>2. ContractTypes'
    <3>1. at' \in Nat /\ at' <= Len(Atoms(Last(message')))
      BY <1>3, <1>4, <1>5, <2>1
    <3>2. heard' \in 0..Len(message')
      BY <1>3, <1>4, <2>1
    <3> QED
      BY <1>3, <2>1, <3>1, <3>2, Parts DEF ContractTypes
  <2> QED
    BY <1>3, <1>6, <2>1, <2>2 DEF ContractInv, InStep, AllSeen, Accounted, Awaited,
       Answering
<1>7. CASE open
  <2> DEFINE p == Push(scanner, SubSeq(a, k + 1, k + n))  x == EmissionsOf(p.blocks)
  <2>1. /\ at' = k + n /\ scanner' = p.scanner /\ Emit(x)
        /\ heard' = IF closing = {} /\ Whole(Last(m), k + n) THEN Len(m) ELSE heard
    BY <1>2, <1>7
  <2>2. p \in FoundSet
    <3>1. SubSeq(a, k + 1, k + n) \in Seq(Text)
      <4>1. \A i \in (k + 1)..(k + n) : a[i] \in Text
        <5> TAKE i \in (k + 1)..(k + n)
        <5> DEFINE l == Len(a)
        <5>1. l \in Nat /\ k + n <= l /\ k \in Nat /\ n \in Nat
          BY <1>4, <1>5
        <5> HIDE DEF l, k
        <5>2. i \in 1..l
          BY <5>1
        <5> QED
          BY <1>4, <5>2, ElementOfSeq DEF l
      <4>2. k + 1 \in Int /\ k + n \in Int
        BY <1>4, <1>5
      <4> QED
        BY <4>1, <4>2, SubSeqProperties
    <3> HIDE DEF a, k
    <3> QED
      BY <1>4, <3>1, PushType
  <2>p. p = Push(scanner, SubSeq(Atoms(Last(m)), k + 1, k + n)) /\ x = EmissionsOf(p.blocks)
    OBVIOUS
  <2>3. p.blocks \in Seq(Block) /\ p.scanner \in Scanner
    BY <2>2 DEF FoundSet
  <2> HIDE DEF p, x
  <2>4. /\ log' \in Seq(Emission) /\ Fenced(log') = Fenced(log) \o Fenced(x)
        /\ Hit(log) \/ Hit(x) => Hit(log')
        /\ open => seen' = ToSet(Fenced(log'))
        /\ closing # {} =>
             /\ Misses(log', EventsWithin(message, heard), Opened(message), expect)
             /\ Accounts(log', EventsWithin(message, heard), Opened(message))
    BY <2>1, <2>3, <2>p, Emitted
  <2>5. ContractTypes'
    <3>1. at' \in Nat /\ at' <= Len(Atoms(Last(message')))
      BY <1>3, <1>4, <1>5, <2>1
    <3>2. heard' \in 0..Len(message')
      BY <1>3, <1>4, <2>1
    <3>3. scanner' \in Scanner
      BY <2>1, <2>3
    <3> QED
      BY <1>3, <2>4, <3>1, <3>2, <3>3, Parts DEF ContractTypes
  <2>6. AllSeen' /\ Answering'
    BY <1>3, <1>7, <2>4 DEF AllSeen, Answering
  <2>7. CASE closing = {}
    <3>1. heard = Heard(m, k) /\ Sync(scanner, Fenced(log), Hit(log), m, k)
      BY <1>7, <2>7 DEF ContractInv, InStep
    <3>2. Fenced(log) \in Seq(Words) /\ Hit(log) \in BOOLEAN
      BY Parts DEF Hit
    <3>3. Sync(p.scanner, Fenced(log) \o Fenced(x), Hit(log) \/ Hit(x), m, k + n)
      <4> HIDE DEF k, m
      <4> QED
        BY <1>1, <1>4, <1>5, <2>p, <3>1, <3>2, PushKeeps DEF a
    <3>4. Sync(scanner', Fenced(log'), Hit(log'), m, k + n)
      BY <2>1, <2>4, <3>3 DEF Sync
    <3>5. heard' = Heard(m, k + n)
      <4>1. Heard(m, k + n) = IF Whole(Last(m), k + n) THEN Len(m) ELSE Heard(m, k)
        <5> HIDE DEF k, m
        <5> QED
          BY <1>1, <1>4, <1>5, HeardGrows DEF a
      <4> QED
        BY <2>1, <2>7, <3>1, <4>1
    <3>6. InStep'
      BY <1>3, <2>1, <3>4, <3>5 DEF InStep
    <3>7. Accounted' /\ Awaited'
      BY <1>3, <1>7, <2>7 DEF Accounted, Awaited
    <3> QED
      BY <2>5, <2>6, <3>6, <3>7 DEF ContractInv
  <2>8. CASE closing # {}
    <3>1. heard' = heard
      BY <2>1, <2>8
    <3>2. Accounted' /\ Awaited'
      BY <1>3, <2>4, <2>8, <3>1 DEF Accounted, Awaited
    <3>3. InStep'
      BY <1>3, <2>8 DEF InStep
    <3> QED
      BY <2>5, <2>6, <3>2, <3>3 DEF ContractInv
  <2> QED
    BY <2>7, <2>8
<1> QED
  BY <1>6, <1>7, Parts

(* What settling the last line says, when all that was written was sent.    *)
LEMMA SettledIs ==
    ASSUME ContractInv, AllSent, NEW f, f = SettledNow, NEW x, x = EmissionsOf(f.blocks)
    PROVE  /\ f \in FoundSet /\ f.blocks \in Seq(Block) /\ f.scanner \in Scanner
           /\ open /\ closing = {} =>
                Sync(f.scanner, Fenced(log) \o Fenced(x), Hit(log) \/ Hit(x), message, at)
<1>1. /\ scanner \in Scanner /\ message \in Seq(Segments) /\ Fenced(log) \in Seq(Words)
      /\ (message # <<>> => at = Len(Atoms(Last(message))))
  BY Parts DEF AllSent
<1>2. f = Settle(scanner)
  BY DEF SettledNow
<1>3. f \in FoundSet
  BY <1>1, <1>2, SettleIs
<1>4. ASSUME open, closing = {}
      PROVE  Sync(f.scanner, Fenced(log) \o Fenced(x), Hit(log) \/ Hit(x), message, at)
  <2>1. Sync(scanner, Fenced(log), Hit(log), message, at)
    BY <1>4 DEF ContractInv, InStep
  <2> QED
    BY <1>1, <1>2, <2>1, SettleKeeps
<1> QED
  BY <1>3, <1>4 DEF FoundSet

LEMMA PromptReturnsStep ==
    ASSUME ContractInv, PromptReturns
    PROVE  ContractInv'
<1> DEFINE f == SettledNow  x == EmissionsOf(f.blocks)
<1>1. /\ f \in FoundSet /\ f.blocks \in Seq(Block) /\ f.scanner \in Scanner
      /\ open /\ closing = {} =>
           Sync(f.scanner, Fenced(log) \o Fenced(x), Hit(log) \/ Hit(x), message, at)
  <2>1. AllSent
    BY DEF PromptReturns
  <2> QED
    BY <2>1, SettledIs
<1>2. \/ /\ open /\ scanner' = f.scanner /\ Emit(x)
         /\ UNCHANGED <<open, expect, text, closing, message, at, heard>>
      \/ EndIfOpen("settle", f) /\ UNCHANGED <<message, at, heard>>
  BY DEF PromptReturns
<1>x. x = EmissionsOf(f.blocks)
  OBVIOUS
<1> HIDE DEF f, x
<1>3. CASE /\ open /\ scanner' = f.scanner /\ Emit(x)
           /\ UNCHANGED <<open, expect, text, closing, message, at, heard>>
  <2>1. /\ log' \in Seq(Emission) /\ Fenced(log') = Fenced(log) \o Fenced(x)
        /\ Hit(log) \/ Hit(x) => Hit(log')
        /\ open => seen' = ToSet(Fenced(log'))
        /\ closing # {} =>
             /\ Misses(log', EventsWithin(message, heard), Opened(message), expect)
             /\ Accounts(log', EventsWithin(message, heard), Opened(message))
    BY <1>1, <1>3, <1>x, Emitted
  <2>2. ContractTypes'
    BY <1>1, <1>3, <2>1, Parts DEF ContractTypes
  <2>3. AllSeen' /\ Answering'
    BY <1>3, <2>1 DEF AllSeen, Answering
  <2>4. InStep'
    <3>1. SUFFICES ASSUME closing = {}
                   PROVE  /\ heard = Heard(message, at)
                          /\ Sync(scanner', Fenced(log'), Hit(log'), message, at)
      BY <1>3 DEF InStep
    <3>2. heard = Heard(message, at)
      BY <1>3, <3>1 DEF ContractInv, InStep
    <3> QED
      BY <1>1, <1>3, <2>1, <3>1, <3>2 DEF Sync
  <2>5. Accounted' /\ Awaited'
    BY <1>3, <2>1 DEF Accounted, Awaited
  <2> QED
    BY <2>2, <2>3, <2>4, <2>5 DEF ContractInv
<1>4. CASE EndIfOpen("settle", f) /\ UNCHANGED <<message, at, heard>>
  <2>1. CASE ~open
    <3>1. UNCHANGED <<pipeline, closing, message, at, heard>>
      BY <1>4, <2>1 DEF EndIfOpen
    <3> QED
      BY <3>1, StutterStep
  <2>2. CASE open
    <3>1. EndTurn("settle", f) /\ "settle" \in {"settle", "cut"}
      BY <1>4, <2>2 DEF EndIfOpen
    <3> QED
      BY <1>1, <1>4, <1>x, <2>2, <3>1, EndTurnStep
  <2> QED
    BY <2>1, <2>2, Parts
<1> QED
  BY <1>2, <1>3, <1>4

(* A turn that ends with nothing settled: its prompt failed, its repair was *)
(* answered, or it was cut short.                                           *)
LEMMA UnsettledStep ==
    ASSUME ContractInv, open, NEW caller \in {"settle", "cut"},
           EndTurn(caller, Unsettled), UNCHANGED <<message, at, heard>>
    PROVE  ContractInv'
<1> DEFINE f == Unsettled  x == EmissionsOf(f.blocks)
<1>1. /\ f.blocks = <<>> /\ f.scanner = scanner /\ f \in FoundSet
  <2>1. <<>> \in Seq(Block)
    BY EmptySeq
  <2>2. scanner \in Scanner
    BY Parts
  <2> QED
    BY <2>1, <2>2 DEF Unsettled, Found, FoundSet
<1>2. x = <<>>
  BY <1>1, EmissionsNothing
<1>3. Fenced(log) \o Fenced(x) = Fenced(log)
  BY <1>2, FencedNothing, Parts, ConcatEmptySeq
<1>4. closing = {} => Sync(f.scanner, Fenced(log) \o Fenced(x), Hit(log) \/ Hit(x),
                           message, at)
  <2> HAVE closing = {}
  <2>1. Sync(scanner, Fenced(log), Hit(log), message, at)
    BY DEF ContractInv, InStep
  <2>2. Sync(f.scanner, Fenced(log) \o Fenced(x), Hit(log), message, at)
    BY <1>1, <1>3, <2>1
  <2> HIDE DEF x, f
  <2> QED
    BY <2>2 DEF Sync
<1>5. x = EmissionsOf(f.blocks) /\ EndTurn(caller, f)
  OBVIOUS
<1> HIDE DEF f, x
<1> QED
  BY <1>1, <1>4, <1>5, EndTurnStep

LEMMA EndsStep ==
    ASSUME ContractInv, EndIfOpen("settle", Unsettled), UNCHANGED <<message, at, heard>>
    PROVE  ContractInv'
<1>1. CASE ~open
  <2>1. UNCHANGED <<pipeline, closing, message, at, heard>>
    BY <1>1 DEF EndIfOpen
  <2> QED
    BY <2>1, StutterStep
<1>2. CASE open
  <2>1. EndTurn("settle", Unsettled) /\ "settle" \in {"settle", "cut"}
    BY <1>2 DEF EndIfOpen
  <2> QED
    BY <1>2, <2>1, UnsettledStep
<1> QED
  BY <1>1, <1>2, Parts

(* What a fallback adds: no fenced event, and an answer to what is missing.  *)
IsAnswer(e) == e.kind = "event" /\ (e.extracted \/ e.what = "raw view")
Closes(r) ==
    /\ r \in Seq(Emission) /\ Fenced(r) = <<>>
    /\ \E i \in 1..Len(r) : IsAnswer(r[i])

LEMMA OneCloses ==
    ASSUME NEW e \in Emission, FencedOf(e) = <<>>, IsAnswer(e)
    PROVE  Closes(<<e>>)
<1>1. <<e>> \in Seq(Emission) /\ Len(<<e>>) = 1 /\ <<e>>[1] = e
  OBVIOUS
<1>2. Fenced(<<e>>) = <<>>
  BY FencedOne
<1> QED
  BY <1>1, <1>2 DEF Closes

LEMMA TwoClose ==
    ASSUME NEW d \in Emission, NEW e \in Emission, FencedOf(d) = <<>>,
           FencedOf(e) = <<>>, IsAnswer(e)
    PROVE  Closes(<<d, e>>)
<1>1. /\ <<d, e>> = Append(<<d>>, e) /\ <<d>> \in Seq(Emission)
      /\ <<d, e>> \in Seq(Emission) /\ Len(<<d, e>>) = 2 /\ <<d, e>>[2] = e
  OBVIOUS
<1>2. Fenced(<<d, e>>) = <<>> \o <<>>
  BY <1>1, FencedAppend, FencedOne
<1>3. <<>> \o <<>> = <<>>
  OBVIOUS
<1>4. Fenced(<<d, e>>) = <<>>
  BY <1>2, <1>3
<1>5. 2 \in 1..Len(<<d, e>>)
  BY <1>1
<1> QED
  BY <1>1, <1>4, <1>5 DEF Closes

(* An extracted event, the raw view and a violation, none of them fenced.    *)
LEMMA UnfencedKinds ==
    ASSUME NEW w \in Words
    PROVE  /\ Event(w, TRUE) \in Emission /\ FencedOf(Event(w, TRUE)) = <<>>
           /\ IsAnswer(Event(w, TRUE))
           /\ Event("raw view", FALSE) \in Emission
           /\ FencedOf(Event("raw view", FALSE)) = <<>>
           /\ IsAnswer(Event("raw view", FALSE))
           /\ Violation("reply") \in Emission /\ FencedOf(Violation("reply")) = <<>>
  BY DEF Event, Violation, Emission, Words, FencedOf, IsFenced, IsAnswer

LEMMA ReadIs ==
    ASSUME NEW reply \in Replies
    PROVE  \/ Read(reply) = <<Event("failure", TRUE)>>
           \/ Read(reply) = <<Event("task_result", TRUE), Event("evidence", TRUE)>>
           \/ Read(reply) = <<Violation("reply"), Event("status", TRUE)>>
<1> DEFINE f == Event("failure", TRUE)   t == Event("task_result", TRUE)
           e == Event("evidence", TRUE)  s == Event("status", TRUE)
           v == Violation("reply")
           Item(x) == IF x = "invalid" THEN v ELSE Event(x, TRUE)
<1>0. /\ Item("failure") = f /\ Item("task_result") = t /\ Item("evidence") = e
      /\ Item("invalid") = v /\ Item("status") = s
  OBVIOUS
<1>1. Read(reply) = [i \in DOMAIN reply |-> Item(reply[i])]
  BY DEF Read
<1> HIDE DEF Item, f, t, e, s, v
<1>2. CASE reply = <<"failure">>
  <2>1. DOMAIN reply = 1..1 /\ reply[1] = "failure"
    BY <1>2
  <2>2. Read(reply) = [i \in 1..1 |-> f]
    BY <1>0, <1>1, <2>1
  <2>3. Read(reply) = <<f>>
    BY <2>2
  <2> QED
    BY <2>3 DEF f
<1>3. CASE reply = <<"task_result", "evidence">>
  <2>1. DOMAIN reply = 1..2 /\ reply[1] = "task_result" /\ reply[2] = "evidence"
    BY <1>3
  <2>2. Read(reply) = [i \in 1..2 |-> IF i = 1 THEN t ELSE e]
    BY <1>0, <1>1, <2>1
  <2>3. Read(reply) = <<t, e>>
    BY <2>2
  <2> QED
    BY <2>3 DEF t, e
<1>4. CASE reply = <<"invalid", "status">>
  <2>1. DOMAIN reply = 1..2 /\ reply[1] = "invalid" /\ reply[2] = "status"
    BY <1>4
  <2>2. Read(reply) = [i \in 1..2 |-> IF i = 1 THEN v ELSE s]
    BY <1>0, <1>1, <2>1
  <2>3. Read(reply) = <<v, s>>
    BY <2>2
  <2> QED
    BY <2>3 DEF v, s
<1>5. \/ reply = <<"failure">> \/ reply = <<"task_result", "evidence">>
      \/ reply = <<"invalid", "status">>
  BY DEF Replies
<1> QED
  BY <1>2, <1>3, <1>4, <1>5, Zenon

LEMMA FallbackCloses ==
    ASSUME NEW caller, log \in Seq(Emission), Extracted(caller) \/ Unstructured(caller)
    PROVE  \E x : log' = log \o x /\ Closes(x)
<1> DEFINE raw == Event("raw view", FALSE)  v == Violation("reply")
<1>1. CASE Extracted(caller)
  <2>1. PICK reply \in Replies : Emit(Read(reply))
    BY <1>1 DEF Extracted
  <2>2. Closes(Read(reply))
    <3>1. {"failure", "task_result", "evidence", "status"} \subseteq Words
      BY DEF Words
    <3>2. CASE Read(reply) = <<Event("failure", TRUE)>>
      BY <3>1, <3>2, UnfencedKinds, OneCloses
    <3>3. CASE Read(reply) = <<Event("task_result", TRUE), Event("evidence", TRUE)>>
      BY <3>1, <3>3, UnfencedKinds, TwoClose
    <3>4. CASE Read(reply) = <<v, Event("status", TRUE)>>
      BY <3>1, <3>4, UnfencedKinds, TwoClose
    <3> QED
      BY <3>2, <3>3, <3>4, ReadIs
  <2> QED
    BY <2>1, <2>2 DEF Emit
<1>2. CASE Unstructured(caller)
  <2>1. /\ raw \in Emission /\ FencedOf(raw) = <<>> /\ IsAnswer(raw)
        /\ v \in Emission /\ FencedOf(v) = <<>>
    <3>1. "reply" \in Words
      BY DEF Words
    <3> QED
      BY <3>1, UnfencedKinds
  <2>2. log' = Append(log, raw) \/ log' = log \o <<v, raw>>
    BY <1>2 DEF Unstructured
  <2> HIDE DEF raw, v
  <2>3. log' = log \o <<raw>> \/ log' = log \o <<v, raw>>
    BY <2>1, <2>2, AppendIsConcat
  <2> QED
    BY <2>1, <2>3, OneCloses, TwoClose
<1> QED
  BY <1>1, <1>2

LEMMA FallbackStep ==
    ASSUME ContractInv, NEW caller \in {"settle", "cut"}, FallbackEnds(caller)
    PROVE  ContractInv'
<1>1. /\ caller \in closing /\ closing' = closing \ {caller} /\ open' = FALSE
      /\ UNCHANGED <<scanner, expect, message, at, heard>>
  BY DEF FallbackEnds, Extracted, Unstructured
<1>2. PICK x : log' = log \o x /\ Closes(x)
  BY Parts, FallbackCloses DEF FallbackEnds
<1> DEFINE y == log \o x  w == EventsWithin(message, heard)  o == Opened(message)
<1>3. /\ log \in Seq(Emission) /\ x \in Seq(Emission) /\ Fenced(log) \in Seq(Words)
      /\ Fenced(x) = <<>>
  BY <1>2, Parts DEF Closes
<1>4. y \in Seq(Emission) /\ Fenced(y) = Fenced(log)
  <2>1. y \in Seq(Emission)
    BY <1>3, ConcatProperties
  <2>2. Fenced(y) = Fenced(log) \o Fenced(x)
    BY <1>3, FencedConcat
  <2> QED
    BY <1>3, <2>1, <2>2, ConcatEmptySeq
<1>5. ReasonsIn(log) \subseteq ReasonsIn(y)
  BY <1>3, ReasonsConcat
<1>6. HasAnswer(y)
  <2> DEFINE n == Len(log)  m == Len(x)
  <2>1. PICK i \in 1..m : IsAnswer(x[i])
    BY <1>2 DEF Closes
  <2>2. n \in Nat /\ m \in Nat
    BY <1>3, LenProperties
  <2>3. Len(y) = n + m /\ \A k \in 1..(n + m) : y[k] = IF k <= n THEN log[k] ELSE x[k - n]
    BY <1>3, ConcatProperties
  <2>4. DOMAIN y = 1..Len(y)
    BY <1>4, LenProperties
  <2> HIDE DEF y, n, m
  <2> DEFINE k == n + i
  <2>5. k \in 1..(n + m) /\ ~(k <= n) /\ k - n = i
    BY <2>2
  <2> HIDE DEF k
  <2>6. y[k] = x[i] /\ k \in DOMAIN y
    BY <2>3, <2>4, <2>5
  <2> QED
    BY <2>1, <2>6 DEF HasAnswer, IsAnswer
<1>7. Misses(log, w, o, expect)
  BY <1>1 DEF ContractInv, Awaited
<1>y. log' = y
  BY <1>2
<1> HIDE DEF y
<1>8. Misses(y, w, o, expect) /\ Accounts(y, w, o)
  <2> HIDE DEF w, o
  <2>1. Hit(log) => Hit(y)
    BY <1>5 DEF Hit
  <2>2. Misses(y, w, o, expect)
    BY <1>4, <1>5, <1>7, <2>1 DEF Misses
  <2> QED
    BY <2>2 DEF Misses, Accounts
<1>9. Answers(y, expect)
  BY <1>6, <1>8 DEF Answers, Misses
<1>10. ContractTypes'
  <2>1. closing' \in SUBSET {"settle", "cut"} /\ open' \in BOOLEAN
    BY <1>1, Parts
  <2> QED
    BY <1>1, <1>4, <1>y, <2>1, Parts DEF ContractTypes
<1>11. InStep' /\ AllSeen'
  BY <1>1 DEF InStep, AllSeen
<1>12. Accounted' /\ Awaited' /\ Answering'
  BY <1>1, <1>8, <1>9, <1>y DEF Accounted, Awaited, Answering
<1> QED
  BY <1>10, <1>11, <1>12 DEF ContractInv

(* A server that has begun no turn.                                         *)
LEMMA InitInv == ContractInit => ContractInv
<1> HAVE ContractInit
<1>1. /\ scanner = EmptyScanner /\ open = FALSE /\ expect = {} /\ log = <<>>
      /\ closing = {} /\ message = <<>> /\ at = 0 /\ heard = 0
  BY DEF ContractInit
<1>2. Len(<<>>) = 0
  BY EmptySeq
<1>3. ContractTypes
  <2>1. log \in Seq(Emission) /\ message \in Seq(Segments) /\ scanner \in Scanner
    BY <1>1, EmptyIs, EmptySeq
  <2>2. heard \in 0..Len(message) /\ at \in Nat
    BY <1>1, <1>2
  <2>3. expect \in Expectations
    BY <1>1 DEF Expectations
  <2> QED
    BY <1>1, <2>1, <2>2, <2>3 DEF ContractTypes
<1>4. EventsWithin(message, heard) = <<>> /\ Fenced(log) = <<>>
  BY <1>1, EventsAre, FencedNothing
<1>5. Accounted
  BY <1>4 DEF Accounted, Accounts
<1>6. Answering
  <2>1. UnmetOf(expect, ToSet(Fenced(log))) = {}
    BY <1>1 DEF UnmetOf
  <2> QED
    BY <2>1 DEF Answering, Answers
<1>7. InStep /\ AllSeen /\ Awaited
  BY <1>1 DEF InStep, AllSeen, Awaited
<1> QED
  BY <1>3, <1>5, <1>6, <1>7 DEF ContractInv

(* Every step.                                                              *)
LEMMA NextInv == ContractInv /\ [ContractNext]_contractVars => ContractInv'
<1> HAVE ContractInv /\ [ContractNext]_contractVars
<1>1. CASE BeginTurn
  BY <1>1, BeginTurnStep
<1>2. CASE Write
  BY <1>2, WriteStep
<1>3. CASE Ingest
  BY <1>3, IngestStep
<1>4. CASE PromptReturns
  BY <1>4, PromptReturnsStep
<1>5. CASE RepairEnds
  BY <1>5, EndsStep DEF RepairEnds
<1>6. CASE PromptFails
  BY <1>6, EndsStep DEF PromptFails
<1>7. CASE Cut
  <2>1. open /\ EndTurn("cut", Unsettled) /\ UNCHANGED <<message, at, heard>>
    BY <1>7 DEF Cut
  <2>2. "cut" \in {"settle", "cut"}
    OBVIOUS
  <2> QED
    BY <2>1, <2>2, UnsettledStep
<1>8. ASSUME NEW caller \in {"settle", "cut"}, FallbackEnds(caller)
      PROVE  ContractInv'
  BY <1>8, FallbackStep
<1>9. CASE UNCHANGED contractVars
  BY <1>9, StutterStep DEF contractVars
<1> QED
  BY <1>1, <1>2, <1>3, <1>4, <1>5, <1>6, <1>7, <1>8, <1>9 DEF ContractNext

(* The scanner is where the agent's text is as long as a turn is open, or   *)
(* the agent left a block open, and from the turn's end on the log answers  *)
(* for what was written (contract/pipeline.ts, contract/fence-scanner.ts).  *)
THEOREM ContractKept == ContractSpec => []ContractInv
  BY InitInv, NextInv, PTL DEF ContractSpec

(* A turn that is over has answered.                                        *)
LEMMA InvDrops == ContractInv => NothingIsDroppedSilently
<1> SUFFICES ASSUME ContractInv, TurnOver
             PROVE  NothingIsDroppedSilently
  BY DEF NothingIsDroppedSilently
<1> DEFINE w == EventsWithin(message, heard)
<1>1. ~open /\ closing = {} /\ w \in Seq(Words)
  BY Parts DEF TurnOver
<1>2. Accounts(log, w, Opened(message)) /\ Answers(log, expect)
  BY <1>1 DEF ContractInv, Accounted, Answering
<1>3. w = Written /\ Reasons = ReasonsIn(log) /\ FencedEvents = Fenced(log)
  BY DEF Written, Reasons, FencedEvents
<1>4. Opened(message) <=> LeftOpen
  BY DEF Opened, LeftOpen
<1>5. Unmet(ToSet(FencedEvents)) = UnmetOf(expect, ToSet(Fenced(log)))
  BY <1>3 DEF Unmet, UnmetOf
<1> HIDE DEF w
<1>6. \/ FencedEvents = Written
      \/ LeftOpen /\ Reasons \cap FenceReasons # {}
      \/ "missing_expected" \in Reasons /\ IsPrefix(Written, FencedEvents)
  <2>1. Starts(w, Fenced(log)) => IsPrefix(w, Fenced(log))
    BY <1>1, StartsIsPrefix
  <2> QED
    BY <1>2, <1>3, <1>4, <2>1 DEF Accounts, Hit
<1>7. Unmet(ToSet(FencedEvents)) # {} =>
        /\ "missing_expected" \in Reasons
        /\ \E i \in DOMAIN log : /\ log[i].kind = "event"
                                 /\ (log[i].extracted \/ log[i].what = "raw view")
  BY <1>2, <1>3, <1>5 DEF Answers, HasAnswer
<1> QED
  BY <1>6, <1>7 DEF NothingIsDroppedSilently

(* Rule 2 of pipeline.ts: when a turn is over, every block was emitted, in  *)
(* order and once, or what became of it was reported, however the agent     *)
(* wrote it and however its text was cut.                                   *)
THEOREM NeverDropped == ContractSpec => []NothingIsDroppedSilently
  BY ContractKept, InvDrops, PTL

(* Settling says what the agent owes of what it wrote.                      *)
LEMMA RepairStep ==
    ASSUME ContractInv, PromptReturns, stage' = "repair"
    PROVE  \/ Unmet(ToSet(Written')) # {}
           \/ Dangling(ToSet(Written'))
           \/ LeftOpen \/ Reasons' \cap FenceReasons # {}
<1> DEFINE f == SettledNow  x == EmissionsOf(f.blocks)  types == seen \cup TypesIn(x)
           w == EventsWithin(message, heard)
<1>1. /\ open /\ Emit(x) /\ (Unmet(types) # {} \/ Dangling(types)) /\ AllSent
      /\ UNCHANGED <<expect, closing, message, at, heard>>
  <2>1. "repair" # "idle"
    OBVIOUS
  <2> QED
    BY <2>1 DEF PromptReturns
<1>2. f.blocks \in Seq(Block)
  BY <1>1, SettledIs
<1>x. f = SettledNow /\ x = EmissionsOf(f.blocks) /\ types = seen \cup TypesIn(x)
  OBVIOUS
<1> HIDE DEF f, x, types
<1>3. /\ log' \in Seq(Emission) /\ Fenced(log') = Fenced(log) \o Fenced(x)
      /\ Hit(log) \/ Hit(x) => Hit(log')
      /\ seen' = ToSet(Fenced(log'))
  BY <1>1, <1>2, <1>x, Emitted
<1>4. types = ToSet(Fenced(log'))
  <2>1. seen' = seen \cup TypesIn(x)
    BY <1>1 DEF Emit
  <2> QED
    BY <1>3, <1>x, <2>1
<1>5. Written' = w /\ (Opened(message) <=> LeftOpen) /\ Reasons' = ReasonsIn(log')
  BY <1>1 DEF Written, Opened, LeftOpen, Reasons
<1>6. CASE closing = {}
  <2>1. /\ heard = Heard(message, at)
        /\ Sync(scanner, Fenced(log), Hit(log), message, at)
    BY <1>1, <1>6 DEF ContractInv, InStep
  <2>2. /\ scanner \in Scanner /\ message \in Seq(Segments) /\ at \in Nat
        /\ (message # <<>> => at <= Len(Atoms(Last(message))))
        /\ Fenced(log) \in Seq(Words)
    BY Parts
  <2>3. f = Settle(scanner)
    BY <1>x DEF SettledNow
  <2>4. \/ Fenced(log) \o Fenced(x) = Told(message, at)
        \/ Opened(message) /\ (Hit(log) \/ Hit(x) \/ f.scanner.inside)
    BY <1>x, <2>1, <2>2, <2>3, Settled
  <2>5. Told(message, at) = w
    BY <2>1, <2>2, HeardIs
  <2>6. CASE Fenced(log') = w
    BY <1>1, <1>4, <1>5, <2>6
  <2>7. CASE LeftOpen
    BY <2>7
  <2> QED
    BY <1>3, <1>5, <2>4, <2>5, <2>6, <2>7
<1>7. CASE closing # {}
  <2>1. Misses(log, w, Opened(message), expect)
    BY <1>7 DEF ContractInv, Awaited
  <2>2. UnmetOf(expect, ToSet(w)) = Unmet(ToSet(w))
    BY DEF UnmetOf, Unmet
  <2> HIDE DEF w
  <2>3. LeftOpen \/ Unmet(ToSet(w)) # {}
    BY <1>5, <2>1, <2>2 DEF Misses
  <2> QED
    BY <1>5, <2>3
<1> QED
  BY <1>6, <1>7

(* Nothing else asks for a repair.                                          *)
LEMMA InvRepair ==
    ASSUME ContractInv, [ContractNext]_contractVars, stage = "prompt", stage' = "repair"
    PROVE  \/ Unmet(ToSet(Written')) # {}
           \/ Dangling(ToSet(Written'))
           \/ LeftOpen \/ Reasons' \cap FenceReasons # {}
<1>1. stage' # stage /\ stage # "idle" /\ stage' # "idle" /\ stage # "repair"
  OBVIOUS
<1>2. PromptReturns
  BY <1>1 DEF ContractNext, contractVars, BeginTurn, Write, Ingest, RepairEnds,
              PromptFails, Cut, FallbackEnds
<1> QED
  BY <1>2, RepairStep

(* An agent is asked to repair a turn only if it owes something, whatever   *)
(* it wrote and wherever its text was cut (turn.ts:182-199).                *)
THEOREM RepairsOwed == ContractSpec => RepairIsOwed
<1>1. ContractInv /\ [ContractNext]_contractVars =>
        [stage = "prompt" /\ stage' = "repair" =>
           \/ Unmet(ToSet(Written')) # {}
           \/ Dangling(ToSet(Written'))
           \/ LeftOpen \/ Reasons' \cap FenceReasons # {}]_contractVars
  BY InvRepair
<1> QED
  BY <1>1, ContractKept, PTL DEF ContractSpec, RepairIsOwed
=============================================================================
