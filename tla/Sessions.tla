------------------------------ MODULE Sessions ------------------------------
(***************************************************************************)
(* The adapter processes of one objective, across the requests that ask    *)
(* for one, prompt it, stop it, and the death and restart of the server    *)
(* (agent/registry.ts, agent/acp-agent-port.ts, the turn's hold on its     *)
(* prompt in workflow/turn.ts, index.ts, boot/reconcile.ts).               *)
(*                                                                         *)
(* A port is one AcpAgentPort with its child process, its entry in the     *)
(* registry and its agent_sessions row; they are numbered in the order     *)
(* the registry makes them. A caller is a request, a workflow effect or    *)
(* the shutdown handler, between two awaits.                               *)
(***************************************************************************)
EXTENDS Naturals, FiniteSets

CONSTANTS Callers,     \* requests and effects that may be under way at a time
          Shutdown,    \* the signal handler of index.ts
          NoCaller,    \* nobody
          AgentKinds,  \* which adapters the project may use
          MaxStarts,   \* bound: how many adapters are spawned
          MaxCrashes   \* bound: how often the server dies without a handler

ASSUME SessionsAssumption ==
    /\ Shutdown \notin Callers
    /\ NoCaller \notin Callers \cup {Shutdown}
    /\ AgentKinds \subseteq {"claude-code", "codex"}
    /\ MaxStarts \in Nat
    /\ MaxCrashes \in Nat

VARIABLES server,    \* the process: up, closing (shutdown under way), down
          kind,      \* the agentKind of the objective's project
          child,     \* each port's process
          start,     \* how far each port's start has come
          row,       \* the status of each port's agent_sessions row
          live,      \* the port in #live, or 0
          starting,  \* the port in #starting, or 0
          reject,    \* whose prompt each port's #rejectPending rejects
          turn,      \* whose turn each port's pipeline has open
          stopped,   \* the ports whose stop() was called
          killed,    \* the ports whose child was sent SIGKILL
          caller,    \* where each caller waits, and on which port
          leaked,    \* history: children the code has let go of
          bare,      \* history: prompts whose reject another prompt cleared
          crashes    \* how often the server died without a handler

registry == <<live, starting>>
port == <<start, reject, turn, stopped, killed>>
vars == <<server, kind, child, start, row, live, starting, reject, turn,
          stopped, killed, caller, leaked, bare, crashes>>

Ports == 1..MaxStarts
Actors == Callers \cup {Shutdown}
Idle == [at |-> "idle", port |-> 0]
Waits(at, p) == [at |-> at, port |-> p]

Init == /\ server = "up"
        /\ kind \in AgentKinds
        /\ child = [p \in Ports |-> "none"]
        /\ start = [p \in Ports |-> "none"]
        /\ row = [p \in Ports |-> "none"]
        /\ live = 0 /\ starting = 0
        /\ reject = [p \in Ports |-> NoCaller]
        /\ turn = [p \in Ports |-> NoCaller]
        /\ stopped = {} /\ killed = {}
        /\ caller = [c \in Actors |-> Idle]
        /\ leaked = {} /\ bare = {}
        /\ crashes = 0

Serving == server \in {"up", "closing"}

-----------------------------------------------------------------------------
(* Starting an adapter.                                                    *)

Unused == {p \in Ports : start[p] = "none"}

\* The callers that await port p's start, once it has failed, give up.
GiveUp(p) == [c \in Actors |->
    IF caller[c] \in {Waits("joining", p), Waits("stopWaiting", p)}
    THEN Idle ELSE caller[c]]

\* The turn guard and the prompt: a second turn on the same session is
\* refused, and the new prompt's reject replaces the one in the port.
BeginPrompt(c) ==
    IF turn[live] = NoCaller
    THEN /\ caller' = [caller EXCEPT ![c] = Waits("prompting", live)]
         /\ turn' = [turn EXCEPT ![live] = c]
         /\ reject' = [reject EXCEPT ![live] = c]
         /\ bare' = bare \ {c}
    ELSE /\ caller' = [caller EXCEPT ![c] = Idle]
         /\ UNCHANGED <<turn, reject, bare>>

LiveOnly == 0

\* The start a caller joins instead of spawning a second child.
InFlight == starting

\* ensure(), for a caller that finds an entry: it prompts at once.
Reuse(c) ==
    /\ Serving /\ c \in Callers /\ caller[c] = Idle
    /\ live # 0
    /\ BeginPrompt(c)
    /\ UNCHANGED <<server, kind, child, start, row, registry, stopped, killed,
                   leaked, crashes>>

\* ensure(), for a caller that finds a start under way: it awaits that one.
Join(c) ==
    /\ Serving /\ c \in Callers /\ caller[c] = Idle
    /\ live = 0 /\ InFlight # 0
    /\ caller' = [caller EXCEPT ![c] = Waits("joining", InFlight)]
    /\ UNCHANGED <<server, kind, child, row, registry, port, leaked, bare,
                   crashes>>

\* ensure(), for the first: spawn, and #starting is set before any await.
Spawn(c) ==
    /\ Serving /\ c \in Callers /\ caller[c] = Idle
    /\ live = 0 /\ InFlight = 0
    /\ \E p \in Unused :
        /\ \A q \in Unused : p <= q
        /\ child' = [child EXCEPT ![p] = "up"]
        /\ start' = [start EXCEPT ![p] = "initialize"]
        /\ starting' = p
        /\ caller' = [caller EXCEPT ![c] = Waits("joining", p)]
    /\ UNCHANGED <<server, kind, row, live, reject, turn, stopped, killed,
                   leaked, bare, crashes>>

\* The adapter answers initialize; session/new is sent, with no race.
Initialized(p) ==
    /\ Serving
    /\ start[p] = "initialize" /\ child[p] = "up"
    /\ start' = [start EXCEPT ![p] = "newSession"]
    /\ UNCHANGED <<server, kind, child, row, registry, reject, turn, stopped,
                   killed, caller, leaked, bare, crashes>>

\* The adapter refuses initialize or session/new: the start rejects, and
\* nothing stops the child.
Refuses(p) ==
    /\ Serving
    /\ start[p] \in {"initialize", "newSession"} /\ child[p] = "up"
    /\ start' = [start EXCEPT ![p] = "failed"]
    /\ starting' = 0
    /\ caller' = GiveUp(p)
    /\ leaked' = leaked \cup {p}
    /\ UNCHANGED <<server, kind, child, row, live, reject, turn, stopped,
                   killed, bare, crashes>>

\* The session exists: its row, its entry, and the end of #starting.
SessionStarted(p) ==
    /\ Serving
    /\ start[p] = "newSession" /\ child[p] = "up"
    /\ start' = [start EXCEPT ![p] = "done"]
    /\ row' = [row EXCEPT ![p] = "running"]
    /\ live' = p
    /\ starting' = 0
    /\ UNCHANGED <<server, kind, child, reject, turn, stopped, killed, caller,
                   leaked, bare, crashes>>

\* A caller of ensure() resumes after the start it joined, in any order with
\* a stop that waited for it; without an entry its turn is rejected.
Resume(c) ==
    /\ Serving
    /\ \E p \in Ports : caller[c] = Waits("joining", p) /\ start[p] = "done"
    /\ IF live # 0
       THEN BeginPrompt(c)
       ELSE /\ caller' = [caller EXCEPT ![c] = Idle]
            /\ UNCHANGED <<turn, reject, bare>>
    /\ UNCHANGED <<server, kind, child, start, row, registry, stopped, killed,
                   leaked, crashes>>

-----------------------------------------------------------------------------
(* Prompts and turns.                                                      *)

\* The end of caller c's turn on port p, whichever settles it.
Closes(c, p) == IF turn[p] = c THEN NoCaller ELSE turn[p]

\* The adapter answers a prompt. The prompt's finally clears the port's one
\* reject, which may by now be another prompt's.
Answer(c) ==
    /\ Serving
    /\ \E p \in Ports :
        /\ caller[c] = Waits("prompting", p) /\ child[p] = "up"
        /\ bare' = IF reject[p] \in {c, NoCaller} THEN bare
                   ELSE bare \cup {reject[p]}
        /\ reject' = [reject EXCEPT ![p] = NoCaller]
        /\ turn' = [turn EXCEPT ![p] = Closes(c, p)]
    /\ caller' = [caller EXCEPT ![c] = Idle]
    /\ UNCHANGED <<server, kind, child, start, row, registry, stopped, killed,
                   leaked, crashes>>

\* A cancel, or the turn's timeout, closes the turn; the prompt stays out.
EndTurn(c) ==
    /\ Serving
    /\ \E p \in Ports :
        /\ caller[c] = Waits("prompting", p) /\ turn[p] = c
        /\ turn' = [turn EXCEPT ![p] = NoCaller]
    /\ UNCHANGED <<server, kind, child, start, row, registry, reject, stopped,
                   killed, caller, leaked, bare, crashes>>

-----------------------------------------------------------------------------
(* The end of an adapter.                                                  *)

RejectsNothing(p) == {}

\* Whose prompt port p's death or stop rejects.
Rejects(p) == {reject[p]} \ {NoCaller}

StillListed(p) == live

\* What #live holds once the exit handler of port p has run: it looks the
\* entry up by the objective, so it removes whichever port is there.
Unlisted(p) == 0

RejectsNoStart(p) == FALSE

\* Whether port p's death rejects its start: the race covers initialize only.
RejectsStart(p) == start[p] = "initialize"

\* What the exit handler writes to the row of the entry it finds.
ExitStatus == "failed"

\* The child dies while the server runs, by itself or of a signal.
Exit(p) ==
    /\ Serving
    /\ child[p] = "up"
    /\ child' = [child EXCEPT ![p] = "gone"]
    /\ live' = IF live = 0 THEN 0 ELSE Unlisted(p)
    /\ row' = [q \in Ports |-> IF q = live THEN ExitStatus ELSE row[q]]
    /\ leaked' = leaked \cup ({live} \ {0, p})
    /\ IF p \in stopped
       THEN UNCHANGED <<start, starting, reject, turn, caller>>
       ELSE /\ IF RejectsStart(p)
               THEN /\ start' = [start EXCEPT ![p] = "failed"]
                    /\ starting' = 0
               ELSE UNCHANGED <<start, starting>>
            /\ caller' = [c \in Actors |->
                    IF c \in Rejects(p) THEN Idle
                    ELSE IF RejectsStart(p) THEN GiveUp(p)[c] ELSE caller[c]]
            /\ turn' = [turn EXCEPT ![p] =
                    IF @ \in Rejects(p) THEN NoCaller ELSE @]
            /\ reject' = [reject EXCEPT ![p] = NoCaller]
    /\ UNCHANGED <<server, kind, stopped, killed, bare, crashes>>

\* stop(), past its wait: the entry goes first, the pending prompt is
\* rejected, SIGTERM is sent.
StopsLive(c) ==
    /\ live' = 0
    /\ stopped' = stopped \cup {live}
    /\ turn' = [turn EXCEPT ![live] =
            IF @ \in Rejects(live) THEN NoCaller ELSE @]
    /\ reject' = [reject EXCEPT ![live] = NoCaller]
    /\ caller' = [d \in Actors |->
            IF d = c THEN Waits("killing", live)
            ELSE IF d \in Rejects(live) THEN Idle ELSE caller[d]]

StopLive(c) ==
    /\ Serving /\ c \in Callers
    /\ \/ caller[c] = Idle /\ starting = 0
       \/ \E p \in Ports : /\ caller[c] = Waits("stopWaiting", p)
                           /\ start[p] = "done"
    /\ live # 0
    /\ StopsLive(c)
    /\ UNCHANGED <<server, kind, child, start, row, starting, killed, leaked,
                   bare, crashes>>

\* A stop that finds a start under way waits for it.
StopWaits(c) ==
    /\ Serving /\ c \in Callers /\ caller[c] = Idle
    /\ starting # 0
    /\ caller' = [caller EXCEPT ![c] = Waits("stopWaiting", starting)]
    /\ UNCHANGED <<server, kind, child, row, registry, port, leaked, bare,
                   crashes>>

\* The start it waited for is over and its entry is gone again.
StopFindsNone(c) ==
    /\ Serving
    /\ \E p \in Ports : /\ caller[c] = Waits("stopWaiting", p)
                        /\ start[p] = "done"
    /\ live = 0
    /\ caller' = [caller EXCEPT ![c] = Idle]
    /\ UNCHANGED <<server, kind, child, row, registry, port, leaked, bare,
                   crashes>>

\* The child's exit ends the wait of the stop that asked for it.
ChildStopped(c) ==
    /\ Serving
    /\ \E p \in Ports :
        /\ caller[c] = Waits("killing", p) /\ child[p] = "gone"
        /\ row' = [row EXCEPT ![p] = "stopped"]
    /\ caller' = [caller EXCEPT ![c] = Idle]
    /\ UNCHANGED <<server, kind, child, registry, port, leaked, bare, crashes>>

WaitsForever(c) == FALSE

\* Whether the 3 s timer of a stop may fire.
TimerSet(c) == caller[c].at = "killing"

\* The 3 s pass first: SIGKILL, and the stop ends without the exit.
KillTimer(c) ==
    /\ Serving
    /\ TimerSet(c)
    /\ \E p \in Ports :
        /\ caller[c] = Waits("killing", p) /\ child[p] = "up"
        /\ killed' = killed \cup {p}
        /\ row' = [row EXCEPT ![p] = "stopped"]
    /\ caller' = [caller EXCEPT ![c] = Idle]
    /\ UNCHANGED <<server, kind, child, registry, start, reject, turn, stopped,
                   leaked, bare, crashes>>

-----------------------------------------------------------------------------
(* The end and the return of the server.                                   *)

\* SIGINT or SIGTERM: stopAll() stops what #live holds; it does not look at
\* #starting.
Close ==
    /\ server = "up"
    /\ server' = "closing"
    /\ IF live # 0
       THEN StopsLive(Shutdown)
       ELSE UNCHANGED <<live, stopped, turn, reject, caller>>
    /\ UNCHANGED <<kind, child, start, row, starting, killed, leaked, bare,
                   crashes>>

\* With the process goes all its memory. A child whose row is not there to
\* say so is nobody's from now on.
Die ==
    /\ server' = "down"
    /\ live' = 0 /\ starting' = 0
    /\ start' = [p \in Ports |->
            IF start[p] \in {"initialize", "newSession"} THEN "failed"
            ELSE start[p]]
    /\ reject' = [p \in Ports |-> NoCaller]
    /\ turn' = [p \in Ports |-> NoCaller]
    /\ caller' = [c \in Actors |-> Idle]
    /\ bare' = {}
    /\ leaked' = leaked \cup
            {p \in Ports : child[p] = "up" /\ row[p] = "none"}
    /\ UNCHANGED <<kind, child, row, stopped, killed>>

ExitProcess == /\ server = "closing"
               /\ caller[Shutdown] = Idle
               /\ Die
               /\ UNCHANGED crashes

Crash == /\ Serving
         /\ crashes < MaxCrashes
         /\ crashes' = crashes + 1
         /\ Die

\* A child may see its pipes close, or be told to die, with no one to notice.
ExitUnseen(p) ==
    /\ server = "down"
    /\ child[p] = "up"
    /\ child' = [child EXCEPT ![p] = "gone"]
    /\ UNCHANGED <<server, kind, row, registry, port, caller, leaked, bare,
                   crashes>>

RecognisedByRow == FALSE

\* killIfAdapter reads the command line and knows one adapter's name.
Recognised == kind = "claude-code"

\* reconcileOnBoot: every running row becomes orphaned; its child, when its
\* command line is recognised, is killed.
Boot ==
    /\ server = "down"
    /\ server' = "up"
    /\ LET ours == {p \in Ports : row[p] = "running"}
       IN  /\ row' = [p \in Ports |->
                    IF p \in ours THEN "orphaned" ELSE row[p]]
           /\ child' = [p \in Ports |->
                    IF p \in ours /\ Recognised /\ child[p] = "up"
                    THEN "gone" ELSE child[p]]
           /\ leaked' = leaked \cup
                    {p \in ours : kind = "codex" /\ child[p] = "up"}
    /\ UNCHANGED <<kind, registry, port, caller, bare, crashes>>

-----------------------------------------------------------------------------
Next ==
    \/ \E c \in Callers : \/ Reuse(c) \/ Join(c) \/ Spawn(c) \/ Resume(c)
                          \/ Answer(c) \/ EndTurn(c)
                          \/ StopLive(c) \/ StopWaits(c) \/ StopFindsNone(c)
    \/ \E c \in Actors : ChildStopped(c) \/ KillTimer(c)
    \/ \E p \in Ports : \/ Initialized(p) \/ Refuses(p) \/ SessionStarted(p)
                        \/ Exit(p) \/ ExitUnseen(p)
    \/ Close \/ ExitProcess \/ Crash \/ Boot

Spec == Init /\ [][Next]_vars

\* The timer of a stop fires, and a resolved wait resumes; nothing is assumed
\* of the adapter, of the user or of the server's restart.
Fairness == \A c \in Actors : WF_vars(ChildStopped(c) \/ KillTimer(c))

FairSpec == Spec /\ Fairness

-----------------------------------------------------------------------------
(* Properties.                                                             *)

BeingKilled(p) == \E c \in Actors : caller[c] = Waits("killing", p)

\* While the server runs, an agent_sessions row says running exactly when its
\* adapter is the one in the registry or a stop is still waiting for it: the
\* exit handler, the stops and the boot repair keep the table and the memory
\* together (registry.ts:159-230, reconcile.ts:103-113).
RowsTellTheTruth ==
    Serving => \A p \in Ports :
        row[p] = "running" <=> p = live \/ BeingKilled(p)

\* Every child that runs under a running server can be reached by a stop:
\* concurrent prompts, a stop during the handshake and a restart lose none,
\* but for the paths `leaked` names (registry.ts:86-113, :212-219).
NoOrphans ==
    Serving => \A p \in Ports : child[p] = "up" =>
        \/ p \in {live, starting} \cup killed \cup leaked
        \/ BeingKilled(p)

\* An open turn does not outlive its adapter: when the process dies or is
\* stopped the prompt is rejected at once, unless an abandoned prompt's
\* answer has cleared its reject (acp-agent-port.ts:387-416).
TurnsDieWithTheirAgent ==
    \A p \in Ports : (child[p] = "gone" \/ p \in stopped) =>
        turn[p] \in bare \cup {NoCaller}

\* No caller waits for the handshake of a process that is gone
\* (acp-agent-port.ts:214-218).
HandshakeWaitsForNoCorpse ==
    \A p \in Ports : start[p] = "initialize" => child[p] = "up"

\* A stop always ends, whatever the adapter does with SIGTERM, unless the
\* server dies first (acp-agent-port.ts:420-430).
StopsEnd == \A c \in Actors :
    (caller[c].at = "killing") ~> (caller[c].at # "killing")

\* The registry's two maps implement the one slot of AgentSlot: at most one
\* of them holds a port, a port enters #live only from #starting, and a new
\* start never overtakes one under way (registry.ts:57-59, :98-114).
Slot == INSTANCE AgentSlot WITH
    holder <- IF live # 0 THEN live ELSE starting,
    phase <- IF live # 0 THEN "live"
             ELSE IF starting # 0 THEN "starting" ELSE "empty",
    used <- Cardinality(Ports \ Unused)

OneSlot == Slot!Spec
==============================================================================
