---------------------------- MODULE Verification ----------------------------
(***************************************************************************)
(* From a repository to a verdict: where an objective's verification spec  *)
(* comes from (verification/resolve.ts, detect.ts, mergeSpec), the policy  *)
(* that refuses its commands, one run of the EvidenceCollector with the    *)
(* process group of each command (collector.ts, run-command.ts), what the  *)
(* agent may add to it (recordEvidence), and the risk the task's diff is   *)
(* given (verification/risk.ts, risk-policy.ts).                           *)
(*                                                                         *)
(* A command group is its leader, the shell, and one descendant that holds *)
(* the output pipe.  A descendant that closes the pipe, or leaves the      *)
(* group, is out of the model: the first is not waited for, the second is  *)
(* out of killGroup's reach.                                               *)
(***************************************************************************)
EXTENDS Naturals, FiniteSets, FiniteSetsExt

CONSTANTS
    Repos,      \* the repositories: how .vadd/config.json reads, the spec in it,
                \* and the files of each directory
    Overrides,  \* the user's override: some leaves of a spec
    Diffs,      \* what a task may have changed since its checkpoint
    Denied,     \* the commands the denylist refuses
    Unset       \* a leaf of the override that is there, and undefined

VARIABLES
    repo,       \* the repository the objective is created in
    mode,       \* standard or investigation
    spec,       \* verification_spec, NoSpec for null
    phase,      \* new, refused, ready, running, collected, judged, stopped, failed
    left,       \* the commands not run yet
    current,    \* the command that is running
    leader,     \* its shell: none, up, exit 0, exit 1 or signalled
    helper,     \* a descendant is alive and holds the pipe
    stubborn,   \* which of the two survive a SIGTERM
    timer,      \* the command's timeout is set
    grace,      \* the escalation: off, set or over
    aborted,    \* the signal of the verifying state
    rows,       \* the evidence rows of the run, by command id
    judged,     \* the agent's rows linked to a check
    fate,       \* history: how each command came to its end
    diff,       \* the task's diff
    risk        \* taskRisk, "unknown" before the run has ended

origin == <<repo, mode, spec>>
process == <<current, leader, helper, stubborn, timer, grace>>
vars == <<origin, phase, left, process, aborted, rows, judged, fate, diff, risk>>

-----------------------------------------------------------------------------
(* The spec.                                                               *)

Command(id, required) == [id |-> id, required |-> required, allowWarn |-> FALSE]
Leaves == {"setup", "commands", "checks", "protected", "maxLines"}
Bare == [setup |-> {}, commands |-> {}, checks |-> {}, protected |-> {},
         maxLines |-> 1]
CheckId == <<"check", "0">>
InvestigationSpec == [Bare EXCEPT !.checks = {CheckId}]
NoSpec == [Bare EXCEPT !.maxLines = 0]

(* The schemas refuse two commands of one id.  A check id stands for its    *)
(* kind too: every reader of the rows asks for "test" or for "check", so a  *)
(* command that happens to be called check-0 is not taken for one.          *)
Opinions(leaf) ==
    {o[leaf] : o \in {x \in Overrides : leaf \in DOMAIN x /\ x[leaf] # Unset}}
CommandLists == {r.authored.commands : r \in Repos} \cup Opinions("commands")
CheckLists == {r.authored.checks : r \in Repos} \cup Opinions("checks")
                \cup {{CheckId}}
UniqueIds(commands) == \A c, d \in commands : c.id = d.id => c = d

ASSUME VerificationAssumption ==
    /\ \A commands \in CommandLists : UniqueIds(commands)
    /\ \A id \in UNION CheckLists :
         /\ \A c \in UNION CommandLists : c.id # id
         /\ \A r \in Repos : \A dir \in DOMAIN r.dirs :
              \A name \in {"test", "lint", "build"} : <<dir, name>> # id

(* mergeSpec: leaf by leaf, and a leaf left undefined is no opinion.        *)
Merged(base, override) ==
    [l \in Leaves |-> IF l \in DOMAIN override /\ override[l] # Unset
                      THEN override[l] ELSE base[l]]

Skipped == {"node_modules", "vendor", "dist", "build"}

(* The families of one directory, in the order they are looked for.         *)
Families(files) ==
    << files \cap {"script test", "script lint", "script build"},
       IF "composer.json" \in files
       THEN files \cap {"phpunit.xml", "phpstan.neon"} ELSE {},
       files \cap {"Makefile"}, files \cap {"go.mod"}, files \cap {"Cargo.toml"} >>

NameOf(file) ==
    CASE file \in {"script lint", "phpstan.neon"} -> "lint"
      [] file = "script build" -> "build"
      [] OTHER -> "test"

(* The first family that matches wins.                                      *)
DetectIn(files) ==
    LET hits == {i \in DOMAIN Families(files) : Families(files)[i] # {}}
    IN IF hits = {} THEN {} ELSE {NameOf(f) : f \in Families(files)[Min(hits)]}

(* The root and its immediate subdirectories; ids are namespaced by         *)
(* directory, and a build is not required.                                  *)
Detected(dirs) ==
    [Bare EXCEPT !.commands =
       UNION {{Command(<<d, n>>, n # "build") : n \in DetectIn(dirs[d])} :
              d \in DOMAIN dirs \ Skipped}]

Resolved(s) == [kind |-> "resolved", spec |-> s]
Unresolved(kind) == [kind |-> kind, spec |-> NoSpec]
BrokenConfigs == {"not JSON", "fails validation"}

FromConfig(r, override) ==
    IF r.config \in BrokenConfigs THEN Unresolved("invalid")
    ELSE Resolved(Merged(r.authored, override))

FromDetection(r, override) ==
    LET merged == Merged(Detected(r.dirs), override)
    IN IF merged.commands = {} /\ merged.checks = {} THEN Unresolved("none")
       ELSE Resolved(merged)

Resolution(r, m, override) ==
    IF m = "investigation" THEN Resolved(Merged(InvestigationSpec, override))
    ELSE IF r.config = "absent" THEN FromDetection(r, override)
    ELSE FromConfig(r, override)

Allowed(command) == command.id \notin Denied

SpecAllowed(s) == \A c \in s.setup \cup s.commands : Allowed(c)

(* The gate of POST /api/projects/:id/objectives.                           *)
Create ==
    /\ phase = "new"
    /\ \E override \in Overrides :
         LET resolution == Resolution(repo, mode, override)
         IN IF \/ resolution.kind = "invalid"
               \/ resolution.kind = "resolved" /\ ~SpecAllowed(resolution.spec)
            THEN phase' = "refused" /\ UNCHANGED spec
            ELSE phase' = "ready" /\ spec' = resolution.spec
    /\ UNCHANGED <<repo, mode, left, process, aborted, rows, judged, fate, diff, risk>>

-----------------------------------------------------------------------------
(* One run.                                                                *)

NoCommand == Command(<<"no", "command">>, FALSE)
Idle ==
    /\ current' = NoCommand /\ leader' = "none" /\ helper' = FALSE
    /\ stubborn' = {} /\ timer' = FALSE /\ grace' = "off"

(* An unresolved spec ends the run before it begins.                        *)
Begin ==
    /\ phase = "ready"
    /\ IF spec = NoSpec THEN phase' = "failed" /\ UNCHANGED left
       ELSE phase' = "running" /\ left' = spec.commands
    /\ UNCHANGED <<origin, process, aborted, rows, judged, fate, diff, risk>>

StatusOf(end, warned) ==
    IF end # "exit 0" THEN "fail" ELSE IF warned THEN "warn" ELSE "pass"

(* One more entry, or a new value for an old one.                           *)
Put(f, key, value) ==
    [k \in DOMAIN f \cup {key} |-> IF k = key THEN value ELSE f[k]]

(* The log is written and the row inserted; either may be refused, and that *)
(* rejects the whole run.                                                   *)
Record(c, end) ==
    /\ fate' = Put(fate, c.id, IF aborted THEN "aborted" ELSE end)
    /\ \/ /\ \E warned \in BOOLEAN : rows' = Put(rows, c.id, StatusOf(end, warned))
          /\ UNCHANGED phase
       \/ phase' = "failed" /\ UNCHANGED rows

Between == phase = "running" /\ current = NoCommand

NextCommand ==
    /\ Between /\ ~aborted
    /\ \E c \in left :
         /\ left' = left \ {c}
         /\ \/ /\ ~Allowed(c)
               /\ Record(c, "refused")
               /\ UNCHANGED process
            \/ /\ Allowed(c)                        \* no such cwd, no spawn
               /\ Record(c, "could not run")
               /\ UNCHANGED process
            \/ /\ Allowed(c)
               /\ current' = c
               /\ leader' = "up"
               /\ helper' \in BOOLEAN
               /\ stubborn' \in SUBSET {"leader", "helper"}
               /\ timer' = TRUE
               /\ grace' = "off"
               /\ UNCHANGED <<phase, rows, fate>>
    /\ UNCHANGED <<origin, aborted, judged, diff, risk>>

(* The commands have been run, or an abort stops before the next.           *)
AllRun ==
    /\ Between
    /\ aborted \/ left = {}
    /\ phase' = IF aborted THEN "stopped" ELSE "collected"
    /\ UNCHANGED <<origin, left, process, aborted, rows, judged, fate, diff, risk>>

LeaderExits ==
    /\ leader = "up"
    /\ leader' \in {"exit 0", "exit 1"}
    /\ UNCHANGED <<origin, phase, left, current, helper, stubborn, timer, grace,
                   aborted, rows, judged, fate, diff, risk>>

HelperExits ==
    /\ helper /\ helper' = FALSE
    /\ UNCHANGED <<origin, phase, left, current, leader, stubborn, timer, grace,
                   aborted, rows, judged, fate, diff, risk>>

(* killGroup: who gets the signal and does not survive it.                  *)
KillGroup(surviving) ==
    /\ leader' = IF leader = "up" /\ "leader" \notin surviving
                 THEN "signalled" ELSE leader
    /\ helper' = (helper /\ "helper" \in surviving)

StopOnce == KillGroup(stubborn) /\ UNCHANGED grace
Stop == KillGroup(stubborn) /\ grace' = (IF grace = "off" THEN "set" ELSE grace)

TimerFires ==
    /\ timer /\ timer' = FALSE
    /\ Stop
    /\ UNCHANGED <<origin, phase, left, current, stubborn, aborted, rows, judged,
                   fate, diff, risk>>

GraceOver ==
    /\ grace = "set" /\ grace' = "over"
    /\ KillGroup({})
    /\ UNCHANGED <<origin, phase, left, current, stubborn, timer, aborted, rows,
                   judged, fate, diff, risk>>

(* PAUSE or CANCEL: the state is left and its signal aborts.                *)
Abort ==
    /\ phase = "running" /\ ~aborted
    /\ aborted' = TRUE
    /\ IF current = NoCommand THEN UNCHANGED <<leader, helper, grace>> ELSE Stop
    /\ UNCHANGED <<origin, phase, left, current, stubborn, timer, rows, judged,
                   fate, diff, risk>>

(* The pipe is closed and the shell gone: runCommand returns.               *)
Settles ==
    /\ current # NoCommand /\ leader # "up" /\ ~helper
    /\ IF aborted
       THEN /\ phase' = "stopped"
            /\ fate' = Put(fate, current.id, "aborted")
            /\ UNCHANGED rows
       ELSE Record(current, leader)
    /\ Idle
    /\ UNCHANGED <<origin, left, aborted, judged, diff, risk>>

-----------------------------------------------------------------------------
(* The agent's evidence, and the risk.                                     *)

LinkedByName(kind, id) == id \in spec.checks \cup {c.id : c \in spec.commands}

(* Only a check event naming a check of the spec is linked to it.           *)
Linked(kind, id) == kind = "check" /\ id \in spec.checks

AgentReports ==
    /\ phase = "judged"
    /\ \E kind \in {"check", "test"}, status \in {"pass", "fail"},
          id \in spec.checks \cup {c.id : c \in spec.commands} :
         /\ Linked(kind, id)
         /\ IF id \in spec.checks
            THEN judged' = Put(judged, id, status) /\ UNCHANGED rows
            ELSE rows' = Put(rows, id, status) /\ UNCHANGED judged
    /\ UNCHANGED <<origin, phase, left, process, aborted, fate, diff, risk>>

DefaultProtected == {"migration"}
LockOrManifest == {"lockfile", "manifest"}
Protected(files, globs) == files \cap globs

ClassifyTaskRisk(d) ==
    LET counted == d.files # {} /\ d.files \subseteq {"code"}
    IN IF \/ Protected(d.files, DefaultProtected \cup spec.protected) # {}
          \/ d.files \cap LockOrManifest # {}
          \/ d.lines > spec.maxLines
          \/ counted /\ d.removed > d.added
       THEN "high" ELSE "low"

(* computeTaskRisk: high if the task has no checkpoint, or git fails.       *)
Judge ==
    /\ phase = "collected"
    /\ phase' = "judged"
    /\ diff' \in Diffs
    /\ risk' \in {"high", ClassifyTaskRisk(diff')}
    /\ UNCHANGED <<origin, left, process, aborted, rows, judged, fate>>

-----------------------------------------------------------------------------
Init ==
    /\ repo \in Repos
    /\ mode \in {"standard", "investigation"}
    /\ spec = NoSpec
    /\ phase = "new"
    /\ left = {}
    /\ current = NoCommand /\ leader = "none" /\ helper = FALSE
    /\ stubborn = {} /\ timer = FALSE /\ grace = "off"
    /\ aborted = FALSE
    /\ rows = <<>> /\ judged = <<>> /\ fate = <<>>
    /\ diff = [files |-> {}, lines |-> 0, removed |-> 0, added |-> 0]
    /\ risk = "unknown"

Next ==
    \/ Create \/ Begin \/ NextCommand \/ AllRun
    \/ LeaderExits \/ HelperExits \/ TimerFires \/ GraceOver \/ Abort \/ Settles
    \/ Judge \/ AgentReports

(* Timers fire, and what runs without awaiting a command proceeds.  Nothing *)
(* is assumed of the command.                                               *)
Spec ==
    /\ Init /\ [][Next]_vars
    /\ WF_vars(TimerFires) /\ WF_vars(GraceOver) /\ WF_vars(Settles)
    /\ WF_vars(NextCommand) /\ WF_vars(AllRun)

-----------------------------------------------------------------------------
Guard(required, checks, warn) ==
    INSTANCE Evidence WITH Commands <- required, Checks <- checks, AllowWarn <- warn

Required == {c.id : c \in {x \in spec.commands : x.required}}
MayWarn == {c.id : c \in {x \in spec.commands : x.required /\ x.allowWarn}}

(* What currentEvidence hands the guard once the run is the machine's own.  *)
CurrentItems ==
    [i \in Required \cup spec.checks |->
       IF i \in DOMAIN rows THEN rows[i]
       ELSE IF i \in DOMAIN judged THEN judged[i] ELSE "missing"]

Complete ==
    /\ phase = "judged"
    /\ Guard(Required, spec.checks, MayWarn)!EvidenceComplete(CurrentItems, {})

(* A complete evidence set was earned: the objective has something to prove *)
(* and it was authored or found, never what a broken config fell back to;   *)
(* every required command exited 0 by itself in this run, warning only      *)
(* where it may; the agent vouched for the checks alone.  A failure is a    *)
(* command's own and never that of a pause.  And an approval nobody is      *)
(* asked for (complete, and low risk) is of a diff that the commit will     *)
(* carry whole.                                                             *)
ApprovalIsEarned ==
    /\ Complete =>
         /\ spec.commands \cup spec.checks # {}
         /\ mode = "investigation" \/ repo.config \notin BrokenConfigs
         /\ \A c \in spec.commands : c.required =>
              fate[c.id] = "exit 0" /\ (rows[c.id] = "warn" => c.allowWarn)
         /\ risk = "low" => Protected(diff.files, spec.protected) = {}
    /\ \A id \in DOMAIN rows : rows[id] = "fail" => fate[id] # "aborted"

(* However a command behaves - hanging, ignoring SIGTERM, leaving a         *)
(* descendant on its pipe - and whenever the user pauses, a run ends.       *)
SuitesEnd == phase = "running" ~> phase # "running"
=============================================================================
