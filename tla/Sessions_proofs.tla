--------------------------- MODULE Sessions_proofs ---------------------------
(* Proofs about the adapter processes, for every set of callers, every      *)
(* number of adapters and every number of crashes.                          *)
EXTENDS Sessions, FiniteSetTheorems, TLAPS

-----------------------------------------------------------------------------
(* The inductive invariant, part by part.                                  *)

Places == [at : {"idle", "joining", "stopWaiting", "prompting", "killing"},
           port : {0} \cup Ports]

TypeOK ==
    /\ server \in {"up", "closing", "down"}
    /\ kind \in AgentKinds
    /\ child \in [Ports -> {"none", "up", "gone"}]
    /\ start \in [Ports -> {"none", "initialize", "newSession", "done", "failed"}]
    /\ row \in [Ports -> {"none", "running", "stopped", "failed", "orphaned"}]
    /\ live \in {0} \cup Ports /\ starting \in {0} \cup Ports
    /\ reject \in [Ports -> Actors \cup {NoCaller}]
    /\ turn \in [Ports -> Actors \cup {NoCaller}]
    /\ stopped \subseteq Ports /\ killed \subseteq Ports
    /\ caller \in [Actors -> Places]
    /\ leaked \subseteq Ports /\ bare \subseteq Actors
    /\ crashes \in Nat

(* What the two maps hold: a start under way is the one in #starting, and   *)
(* an entry is a started adapter that runs and was not stopped.             *)
SlotInv ==
    /\ \A p \in Ports : start[p] \in {"initialize", "newSession"} <=> p = starting
    /\ live # 0 => /\ starting = 0 /\ start[live] = "done"
                   /\ child[live] = "up" /\ live \notin stopped
    /\ \A p \in Ports : start[p] = "initialize" => child[p] = "up"
    /\ \A p \in stopped : start[p] = "done"
    /\ ~ Serving => live = 0 /\ starting = 0

(* Who waits where: prompts wait on the port that names them, and a port    *)
(* is being killed by one caller, after it was stopped.                     *)
CallerInv ==
    /\ \A c \in Actors, p \in Ports :
          reject[p] = c \/ turn[p] = c => caller[c] = Waits("prompting", p)
    /\ \A c \in Actors : caller[c].at = "killing" => caller[c].port \in stopped
    /\ \A c, d \in Actors :
          caller[c].at = "killing" /\ caller[d] = caller[c] => c = d
    /\ server = "up" => caller[Shutdown] = Idle
    /\ ~ Serving => \A c \in Actors : caller[c] = Idle

(* A row is written once its start is done.                                 *)
RowInv ==
    /\ RowsTellTheTruth
    /\ \A p \in Ports : start[p] # "done" => row[p] = "none"

(* While the server is down, the rows name every child it may come back to. *)
OrphanInv ==
    /\ NoOrphans
    /\ ~ Serving => \A p \in Ports : child[p] = "up" =>
          p \in killed \cup leaked \/ row[p] = "running"

(* An open turn is the one its port can reject, or is known to be bare.     *)
TurnInv ==
    /\ TurnsDieWithTheirAgent
    /\ \A p \in Ports : turn[p] \in {NoCaller, reject[p]} \cup bare

-----------------------------------------------------------------------------
(* The parts are preserved, each by every step.                            *)

(* Port numbers are positive, so 0 names none of them.                      *)
LEMMA PortsPositive ==
    /\ 0 \notin Ports
    /\ Ports \subseteq Nat
  BY SessionsAssumption DEF Ports

LEMMA TypeInit == Init => TypeOK
  BY SessionsAssumption DEF Init, TypeOK, Idle, Places, Actors

(* Where a caller waits tells which port and for what.                       *)
LEMMA WaitsFacts ==
    ASSUME NEW a, NEW b, NEW p, NEW q
    PROVE  /\ Waits(a, p).at = a /\ Waits(a, p).port = p
           /\ Waits(a, p) = Waits(b, q) => a = b /\ p = q
<1>1. \A x, y : Waits(x, y).at = x /\ Waits(x, y).port = y
  BY DEF Waits
<1> QED
  BY <1>1

LEMMA PromptFacts ==
    ASSUME CallerInv, NEW d \in Actors, NEW p \in Ports, reject[p] = d \/ turn[p] = d
    PROVE  /\ caller[d] = Waits("prompting", p)
           /\ caller[d].at = "prompting" /\ caller[d].port = p
<1>1. caller[d] = Waits("prompting", p)
  BY DEF CallerInv
<1> QED
  BY <1>1, WaitsFacts

(* What the synchronous part of a stop does: nobody who waits for another    *)
(* kill is disturbed, and one more wait for a kill begins.                   *)
LEMMA StopsLiveEffect ==
    ASSUME TypeOK, SlotInv, CallerInv, live # 0,
           NEW c \in Actors, StopsLive(c),
           caller[c].at \notin {"prompting", "killing"}
    PROVE  /\ turn' \in [Ports -> Actors \cup {NoCaller}]
           /\ reject' \in [Ports -> Actors \cup {NoCaller}]
           /\ caller' \in [Actors -> Places]
           /\ caller'[c] = Waits("killing", live)
           /\ \A d \in Actors : \/ d = c
                                \/ caller'[d] = caller[d]
                                \/ caller'[d] = Idle /\ reject[live] = d
           /\ \A d \in Actors, p \in Ports :
                reject'[p] = d \/ turn'[p] = d => caller'[d] = Waits("prompting", p)
           /\ \A d \in Actors : caller'[d].at = "killing" => caller'[d].port \in stopped'
           /\ \A d, e \in Actors :
                caller'[d].at = "killing" /\ caller'[e] = caller'[d] => d = e
           /\ \A p \in Ports : BeingKilled(p)' <=> BeingKilled(p) \/ p = live
<1> USE SessionsAssumption, PortsPositive DEF TypeOK, StopsLive, Rejects, Actors
<1>1. live \in Ports
  OBVIOUS
<1>2. /\ turn' \in [Ports -> Actors \cup {NoCaller}]
      /\ reject' \in [Ports -> Actors \cup {NoCaller}]
  BY <1>1
<1>3. /\ caller' \in [Actors -> Places]
      /\ caller'[c] = Waits("killing", live)
      /\ \A d \in Actors : \/ d = c
                           \/ caller'[d] = caller[d]
                           \/ caller'[d] = Idle /\ reject[live] = d
  <2>1. Waits("killing", live) \in Places /\ Idle \in Places
    BY <1>1 DEF Places, Idle, Waits
  <2>2. caller' = [d \in Actors |->
            IF d = c THEN Waits("killing", live)
            ELSE IF d \in Rejects(live) THEN Idle ELSE caller[d]]
    OBVIOUS
  <2>3. caller' \in [Actors -> Places]
    BY <2>1, <2>2
  <2>4. caller'[c] = Waits("killing", live)
    BY <2>2
  <2>5. ASSUME NEW d \in Actors
        PROVE  \/ d = c
               \/ caller'[d] = caller[d]
               \/ caller'[d] = Idle /\ reject[live] = d
    BY <2>2 DEF Rejects
  <2> QED
    BY <2>3, <2>4, <2>5
<1>4. ASSUME NEW d \in Actors, NEW p \in Ports, reject'[p] = d \/ turn'[p] = d
      PROVE  caller'[d] = Waits("prompting", p)
  <2>1. reject[p] = d \/ turn[p] = d
    BY <1>4, <1>1
  <2>2. caller[d] = Waits("prompting", p)
    BY <2>1 DEF CallerInv
  <2>3. d # c
    BY <2>1, PromptFacts
  <2>4. reject[live] # d
    <3>1. CASE p = live
      BY <3>1, <1>4, <1>1
    <3>2. CASE p # live
      BY <3>2, <2>1, <1>1, PromptFacts
    <3> QED
      BY <3>1, <3>2
  <2> QED
    BY <2>2, <2>3, <2>4, <1>3
<1>5. ASSUME NEW p \in Ports
      PROVE  BeingKilled(p)' <=> BeingKilled(p) \/ p = live
  <2>1. ASSUME NEW d \in Actors, caller[d] = Waits("killing", p)
        PROVE  caller'[d] = Waits("killing", p)
    <3>1. caller[d].at = "killing"
      BY <2>1, WaitsFacts
    <3>2. d # c /\ reject[live] # d
      BY <3>1, <1>1, PromptFacts
    <3> QED
      BY <2>1, <3>2, <1>3
  <2>2. ASSUME NEW d \in Actors, caller'[d] = Waits("killing", p)
        PROVE  caller[d] = Waits("killing", p) \/ p = live
    BY <2>2, <1>3 DEF Waits, Idle
  <2> QED
    BY <2>1, <2>2, <1>3 DEF BeingKilled
<1>6. ASSUME NEW d \in Actors, caller'[d].at = "killing"
      PROVE  /\ caller'[d].port \in stopped'
             /\ d # c => caller[d] = caller'[d] /\ caller[d].port \in stopped
  <2>1. CASE d = c
    BY <2>1, <1>3, WaitsFacts
  <2>2. CASE d # c
    <3>1. caller'[d] = caller[d]
      BY <2>2, <1>3, <1>6 DEF Idle
    <3> QED
      BY <3>1, <1>6 DEF CallerInv
  <2> QED
    BY <2>1, <2>2
<1>7. ASSUME NEW d \in Actors, NEW e \in Actors,
             caller'[d].at = "killing", caller'[e] = caller'[d]
      PROVE  d = e
  <2>1. live \notin stopped /\ caller'[c].port = live
    BY <1>3, WaitsFacts DEF SlotInv
  <2>2. (d # c /\ e # c) \/ d = e
    BY <2>1, <1>6, <1>7
  <2>3. d # c /\ e # c => caller[d].at = "killing" /\ caller[e] = caller[d]
    BY <1>6, <1>7
  <2> QED
    BY <2>2, <2>3 DEF CallerInv
<1> QED
  BY <1>2, <1>3, <1>4, <1>5, <1>6, <1>7

(* What an exit does to the callers: none that waits for a kill.             *)
LEMMA ExitEffect ==
    ASSUME TypeOK, SlotInv, CallerInv, NEW p \in Ports, Exit(p)
    PROVE  /\ turn' \in [Ports -> Actors \cup {NoCaller}]
           /\ reject' \in [Ports -> Actors \cup {NoCaller}]
           /\ caller' \in [Actors -> Places]
           /\ \A d \in Actors : caller'[d] \in {caller[d], Idle}
           /\ \A d \in Actors, q \in Ports :
                reject'[q] = d \/ turn'[q] = d => caller'[d] = Waits("prompting", q)
           /\ \A d \in Actors : caller'[d].at = "killing" => caller'[d].port \in stopped'
           /\ \A d, e \in Actors :
                caller'[d].at = "killing" /\ caller'[e] = caller'[d] => d = e
           /\ \A q \in Ports : BeingKilled(q)' <=> BeingKilled(q)
<1> USE SessionsAssumption, PortsPositive DEF TypeOK, Exit, Actors
<1>1. /\ turn' \in [Ports -> Actors \cup {NoCaller}]
      /\ reject' \in [Ports -> Actors \cup {NoCaller}]
  BY DEF Rejects
<1>2. /\ caller' \in [Actors -> Places]
      /\ \A d \in Actors : \/ caller'[d] = caller[d]
                           \/ caller'[d] = Idle /\ p \notin stopped /\ reject[p] = d
                           \/ /\ caller'[d] = Idle
                              /\ caller[d].at \in {"joining", "stopWaiting"}
  <2>1. Idle \in Places
    BY DEF Places, Idle
  <2>2. \A d \in Actors : GiveUp(p)[d] \in {caller[d], Idle}
    BY DEF GiveUp
  <2>3. \A d \in Actors : GiveUp(p)[d] # caller[d]
                         => caller[d].at \in {"joining", "stopWaiting"}
    BY WaitsFacts DEF GiveUp
  <2>4. CASE p \in stopped
    BY <2>4
  <2>5. CASE p \notin stopped
    <3>1. caller' = [d \in Actors |->
                IF d \in Rejects(p) THEN Idle
                ELSE IF RejectsStart(p) THEN GiveUp(p)[d] ELSE caller[d]]
      BY <2>5
    <3> QED
      BY <2>1, <2>2, <2>3, <2>5, <3>1 DEF Rejects
  <2> QED
    BY <2>4, <2>5
<1>3. ASSUME NEW d \in Actors, NEW q \in Ports, reject'[q] = d \/ turn'[q] = d
      PROVE  caller'[d] = Waits("prompting", q)
  <2>1. /\ reject[q] = d \/ turn[q] = d
        /\ q = p /\ p \notin stopped => reject[p] # d
    BY <1>3 DEF Rejects
  <2>2. caller[d] = Waits("prompting", q)
    BY <2>1 DEF CallerInv
  <2>3. p \notin stopped => reject[p] # d
    <3>1. CASE q = p
      BY <3>1, <2>1
    <3>2. CASE q # p
      BY <3>2, <2>1, PromptFacts
    <3> QED
      BY <3>1, <3>2
  <2> QED
    BY <2>2, <2>3, <2>1, <1>2, PromptFacts
<1>4. ASSUME NEW q \in Ports
      PROVE  BeingKilled(q)' <=> BeingKilled(q)
  <2>1. ASSUME NEW d \in Actors, caller[d] = Waits("killing", q)
        PROVE  caller'[d] = Waits("killing", q)
    BY <2>1, <1>2, PromptFacts, WaitsFacts
  <2>2. ASSUME NEW d \in Actors, caller'[d] = Waits("killing", q)
        PROVE  caller[d] = Waits("killing", q)
    BY <2>2, <1>2 DEF Waits, Idle
  <2> QED
    BY <2>1, <2>2 DEF BeingKilled
<1>5. ASSUME NEW d \in Actors, caller'[d].at = "killing"
      PROVE  caller'[d] = caller[d]
  BY <1>5, <1>2 DEF Idle
<1>6. \A d \in Actors : caller'[d].at = "killing" => caller'[d].port \in stopped'
  BY <1>5 DEF CallerInv
<1>7. \A d, e \in Actors :
        caller'[d].at = "killing" /\ caller'[e] = caller'[d] => d = e
  BY <1>5 DEF CallerInv
<1> QED
  BY <1>1, <1>2, <1>3, <1>4, <1>6, <1>7

(* Every step keeps the state well typed.                                   *)
LEMMA TypeStep == TypeOK /\ SlotInv /\ CallerInv /\ [Next]_vars => TypeOK'
<1> SUFFICES ASSUME TypeOK, SlotInv, CallerInv, [Next]_vars PROVE TypeOK'
  OBVIOUS
<1> USE SessionsAssumption, PortsPositive DEF TypeOK, Actors, Places, Idle, Waits, Unused
<1>1. ASSUME NEW c \in Callers, Reuse(c) PROVE TypeOK'
  BY <1>1 DEF Reuse, BeginPrompt, registry
<1>2. ASSUME NEW c \in Callers, Join(c) PROVE TypeOK'
  BY <1>2 DEF Join, InFlight, registry, port
<1>3. ASSUME NEW c \in Callers, Spawn(c) PROVE TypeOK'
  BY <1>3 DEF Spawn, InFlight
<1>4. ASSUME NEW c \in Callers, Resume(c) PROVE TypeOK'
  BY <1>4 DEF Resume, BeginPrompt, registry
<1>5. ASSUME NEW c \in Callers, Answer(c) PROVE TypeOK'
  BY <1>5 DEF Answer, registry, Closes
<1>6. ASSUME NEW c \in Callers, EndTurn(c) PROVE TypeOK'
  BY <1>6 DEF EndTurn, registry
<1>7. ASSUME NEW c \in Callers, StopLive(c) PROVE TypeOK'
  BY <1>7 DEF StopLive, StopsLive, Rejects
<1>8. ASSUME NEW c \in Callers, StopWaits(c) PROVE TypeOK'
  BY <1>8 DEF StopWaits, registry, port
<1>9. ASSUME NEW c \in Callers, StopFindsNone(c) PROVE TypeOK'
  BY <1>9 DEF StopFindsNone, registry, port
<1>10. ASSUME NEW c \in Actors, ChildStopped(c) PROVE TypeOK'
  BY <1>10 DEF ChildStopped, registry, port
<1>11. ASSUME NEW c \in Actors, KillTimer(c) PROVE TypeOK'
  BY <1>11 DEF KillTimer, registry
<1>12. ASSUME NEW p \in Ports, Initialized(p) PROVE TypeOK'
  BY <1>12 DEF Initialized, registry
<1>13. ASSUME NEW p \in Ports, Refuses(p) PROVE TypeOK'
  BY <1>13 DEF Refuses, GiveUp
<1>14. ASSUME NEW p \in Ports, SessionStarted(p) PROVE TypeOK'
  BY <1>14 DEF SessionStarted
<1>15. ASSUME NEW p \in Ports, Exit(p) PROVE TypeOK'
  <2> USE <1>15
  <2>1. live' \in {0} \cup Ports /\ starting' \in {0} \cup Ports /\ leaked' \subseteq Ports
    BY DEF Exit, Unlisted
  <2>2. child' \in [Ports -> {"none", "up", "gone"}]
    BY DEF Exit
  <2>3. row' \in [Ports -> {"none", "running", "stopped", "failed", "orphaned"}]
    BY DEF Exit, ExitStatus
  <2>4. start' \in [Ports -> {"none", "initialize", "newSession", "done", "failed"}]
    BY DEF Exit, RejectsStart
  <2> QED
    BY <2>1, <2>2, <2>3, <2>4, ExitEffect DEF Exit
<1>16. ASSUME NEW p \in Ports, ExitUnseen(p) PROVE TypeOK'
  BY <1>16 DEF ExitUnseen, registry, port
<1>17. CASE Close
  <2> USE <1>17
  <2>1. CASE live = 0
    BY <2>1 DEF Close
  <2>2. CASE live # 0
    <3>1. Shutdown \in Actors /\ StopsLive(Shutdown)
      BY <2>2 DEF Close
    <3>2. caller[Shutdown] = Idle
      BY DEF Close, CallerInv
    <3>3. caller[Shutdown].at \notin {"prompting", "killing"}
      BY <3>2
    <3>4. /\ turn' \in [Ports -> Actors \cup {NoCaller}]
          /\ reject' \in [Ports -> Actors \cup {NoCaller}]
          /\ caller' \in [Actors -> Places]
      BY <2>2, <3>1, <3>3, StopsLiveEffect
    <3>5. live' = 0 /\ stopped' \subseteq Ports
      BY <2>2, <3>1 DEF StopsLive
    <3> HIDE DEF Actors, Places
    <3> QED
      BY <2>2, <3>4, <3>5 DEF Close
  <2> QED
    BY <2>1, <2>2
<1>18. CASE ExitProcess
  BY <1>18 DEF ExitProcess, Die
<1>19. CASE Crash
  <2>1. crashes' \in Nat
    BY <1>19 DEF Crash
  <2> QED
    BY <1>19, <2>1 DEF Crash, Die
<1>20. CASE Boot
  BY <1>20 DEF Boot, registry, port, Recognised
<1>21. CASE UNCHANGED vars
  BY <1>21 DEF vars
<1> QED
  BY <1>1, <1>2, <1>3, <1>4, <1>5, <1>6, <1>7, <1>8, <1>9, <1>10, <1>11, <1>12, <1>13, <1>14, <1>15, <1>16, <1>17, <1>18, <1>19, <1>20, <1>21 DEF Next

(* The maps hold what they should after every step.                          *)
LEMMA SlotStep == TypeOK /\ SlotInv /\ CallerInv /\ [Next]_vars => SlotInv'
<1> SUFFICES ASSUME TypeOK, SlotInv, CallerInv, [Next]_vars PROVE SlotInv'
  OBVIOUS
<1> USE SessionsAssumption, PortsPositive DEF TypeOK, SlotInv, Actors, Serving, Unused, Waits, Idle, CallerInv
<1>1. ASSUME NEW c \in Callers, Reuse(c) PROVE SlotInv'
  BY <1>1 DEF Reuse, BeginPrompt, registry
<1>2. ASSUME NEW c \in Callers, Join(c) PROVE SlotInv'
  BY <1>2 DEF Join, InFlight, registry, port
<1>3. ASSUME NEW c \in Callers, Spawn(c) PROVE SlotInv'
  BY <1>3 DEF Spawn, InFlight
<1>4. ASSUME NEW c \in Callers, Resume(c) PROVE SlotInv'
  BY <1>4 DEF Resume, BeginPrompt, registry
<1>5. ASSUME NEW c \in Callers, Answer(c) PROVE SlotInv'
  BY <1>5 DEF Answer, registry, Closes
<1>6. ASSUME NEW c \in Callers, EndTurn(c) PROVE SlotInv'
  BY <1>6 DEF EndTurn, registry
<1>7. ASSUME NEW c \in Callers, StopLive(c) PROVE SlotInv'
  BY <1>7 DEF StopLive, StopsLive, Rejects
<1>8. ASSUME NEW c \in Callers, StopWaits(c) PROVE SlotInv'
  BY <1>8 DEF StopWaits, registry, port
<1>9. ASSUME NEW c \in Callers, StopFindsNone(c) PROVE SlotInv'
  BY <1>9 DEF StopFindsNone, registry, port
<1>10. ASSUME NEW c \in Actors, ChildStopped(c) PROVE SlotInv'
  BY <1>10 DEF ChildStopped, registry, port
<1>11. ASSUME NEW c \in Actors, KillTimer(c) PROVE SlotInv'
  BY <1>11 DEF KillTimer, registry
<1>12. ASSUME NEW p \in Ports, Initialized(p) PROVE SlotInv'
  BY <1>12 DEF Initialized, registry
<1>13. ASSUME NEW p \in Ports, Refuses(p) PROVE SlotInv'
  BY <1>13 DEF Refuses, GiveUp
<1>14. ASSUME NEW p \in Ports, SessionStarted(p) PROVE SlotInv'
  BY <1>14 DEF SessionStarted
<1>15. ASSUME NEW p \in Ports, Exit(p) PROVE SlotInv'
  BY <1>15 DEF Exit, GiveUp, Rejects, RejectsStart, Unlisted, ExitStatus
<1>16. ASSUME NEW p \in Ports, ExitUnseen(p) PROVE SlotInv'
  BY <1>16 DEF ExitUnseen, registry, port
<1>17. CASE Close
  <2> USE <1>17
  <2>1. start' = start /\ starting' = starting /\ child' = child /\ Serving'
    BY DEF Close
  <2>2. CASE live = 0
    <3>1. live' = live /\ stopped' = stopped
      BY <2>2 DEF Close
    <3> QED
      BY <2>1, <2>2, <3>1
  <2>3. CASE live # 0
    <3>1. live' = 0 /\ stopped' = stopped \cup {live}
      BY <2>3 DEF Close, StopsLive
    <3> QED
      BY <2>1, <2>3, <3>1
  <2> QED
    BY <2>2, <2>3
<1>18. CASE ExitProcess
  BY <1>18 DEF ExitProcess, Die
<1>19. CASE Crash
  BY <1>19 DEF Crash, Die
<1>20. CASE Boot
  BY <1>20 DEF Boot, registry, port, Recognised
<1>21. CASE UNCHANGED vars
  BY <1>21 DEF vars
<1> QED
  BY <1>1, <1>2, <1>3, <1>4, <1>5, <1>6, <1>7, <1>8, <1>9, <1>10, <1>11, <1>12, <1>13, <1>14, <1>15, <1>16, <1>17, <1>18, <1>19, <1>20, <1>21 DEF Next

(* Callers wait where the ports say after every step.                        *)
LEMMA CallerStep == TypeOK /\ SlotInv /\ CallerInv /\ [Next]_vars => CallerInv'
<1> SUFFICES ASSUME TypeOK, SlotInv, CallerInv, [Next]_vars PROVE CallerInv'
  OBVIOUS
<1> USE SessionsAssumption, PortsPositive DEF TypeOK, SlotInv, CallerInv, Actors, Serving, Waits, Idle
<1>1. ASSUME NEW c \in Callers, Reuse(c) PROVE CallerInv'
  BY <1>1 DEF Reuse, BeginPrompt, registry
<1>2. ASSUME NEW c \in Callers, Join(c) PROVE CallerInv'
  BY <1>2 DEF Join, InFlight, registry, port
<1>3. ASSUME NEW c \in Callers, Spawn(c) PROVE CallerInv'
  BY <1>3 DEF Spawn, InFlight
<1>4. ASSUME NEW c \in Callers, Resume(c) PROVE CallerInv'
  BY <1>4 DEF Resume, BeginPrompt, registry
<1>5. ASSUME NEW c \in Callers, Answer(c) PROVE CallerInv'
  BY <1>5 DEF Answer, registry, Closes
<1>6. ASSUME NEW c \in Callers, EndTurn(c) PROVE CallerInv'
  BY <1>6 DEF EndTurn, registry
<1>7. ASSUME NEW c \in Callers, StopLive(c) PROVE CallerInv'
  <2> USE <1>7
  <2>1. live # 0 /\ StopsLive(c) /\ caller[c].at \notin {"prompting", "killing"}
    BY WaitsFacts DEF StopLive
  <2> HIDE DEF BeingKilled, Waits
  <2>2. \A d \in Actors, p \in Ports :
          reject'[p] = d \/ turn'[p] = d => caller'[d] = Waits("prompting", p)
    BY <2>1, StopsLiveEffect
  <2>3. /\ \A d \in Actors : caller'[d].at = "killing" => caller'[d].port \in stopped'
        /\ \A d, e \in Actors :
             caller'[d].at = "killing" /\ caller'[e] = caller'[d] => d = e
    BY <2>1, StopsLiveEffect
  <2>4. Serving /\ server' = server
    BY DEF StopLive
  <2>5. server = "up" => caller'[Shutdown] = Idle
    BY <2>1 DEF StopsLive, StopLive
  <2> QED
    BY <2>2, <2>3, <2>4, <2>5
<1>8. ASSUME NEW c \in Callers, StopWaits(c) PROVE CallerInv'
  BY <1>8 DEF StopWaits, registry, port
<1>9. ASSUME NEW c \in Callers, StopFindsNone(c) PROVE CallerInv'
  BY <1>9 DEF StopFindsNone, registry, port
<1>10. ASSUME NEW c \in Actors, ChildStopped(c) PROVE CallerInv'
  BY <1>10 DEF ChildStopped, registry, port
<1>11. ASSUME NEW c \in Actors, KillTimer(c) PROVE CallerInv'
  BY <1>11 DEF KillTimer, registry
<1>12. ASSUME NEW p \in Ports, Initialized(p) PROVE CallerInv'
  BY <1>12 DEF Initialized, registry
<1>13. ASSUME NEW p \in Ports, Refuses(p) PROVE CallerInv'
  BY <1>13 DEF Refuses, GiveUp
<1>14. ASSUME NEW p \in Ports, SessionStarted(p) PROVE CallerInv'
  BY <1>14 DEF SessionStarted
<1>15. ASSUME NEW p \in Ports, Exit(p) PROVE CallerInv'
  <2> HIDE DEF BeingKilled, Waits
  <2> QED
    BY <1>15, ExitEffect DEF Exit, RejectsStart
<1>16. ASSUME NEW p \in Ports, ExitUnseen(p) PROVE CallerInv'
  BY <1>16 DEF ExitUnseen, registry, port
<1>17. CASE Close
  <2> USE <1>17
  <2>1. CASE live = 0
    BY <2>1 DEF Close
  <2>2. CASE live # 0
    <3>1. Shutdown \in Actors /\ StopsLive(Shutdown)
      BY <2>2 DEF Close
    <3>2. caller[Shutdown] = Idle
      BY DEF Close, CallerInv
    <3>3. caller[Shutdown].at \notin {"prompting", "killing"}
      BY <3>2
    <3> HIDE DEF BeingKilled, Waits
    <3> QED
      BY <2>2, <3>1, <3>2, <3>3, StopsLiveEffect DEF Close, StopsLive
  <2> QED
    BY <2>1, <2>2
<1>18. CASE ExitProcess
  BY <1>18 DEF ExitProcess, Die
<1>19. CASE Crash
  BY <1>19 DEF Crash, Die
<1>20. CASE Boot
  BY <1>20 DEF Boot, registry, port, Recognised
<1>21. CASE UNCHANGED vars
  BY <1>21 DEF vars
<1> QED
  BY <1>1, <1>2, <1>3, <1>4, <1>5, <1>6, <1>7, <1>8, <1>9, <1>10, <1>11, <1>12, <1>13, <1>14, <1>15, <1>16, <1>17, <1>18, <1>19, <1>20, <1>21 DEF Next

(* Rows tell the truth after every step.                                     *)
LEMMA RowStep == TypeOK /\ SlotInv /\ CallerInv /\ RowInv /\ [Next]_vars => RowInv'
<1> SUFFICES ASSUME TypeOK, SlotInv, CallerInv, RowInv, [Next]_vars PROVE RowInv'
  OBVIOUS
<1> USE SessionsAssumption, PortsPositive DEF TypeOK, SlotInv, CallerInv, RowInv, RowsTellTheTruth, BeingKilled, Actors, Serving, Waits, Idle, Places
<1>1. ASSUME NEW c \in Callers, Reuse(c) PROVE RowInv'
  BY <1>1 DEF Reuse, BeginPrompt, registry
<1>2. ASSUME NEW c \in Callers, Join(c) PROVE RowInv'
  BY <1>2 DEF Join, InFlight, registry, port
<1>3. ASSUME NEW c \in Callers, Spawn(c) PROVE RowInv'
  <2> USE <1>3
  <2>1. \A q \in Ports : BeingKilled(q)' <=> BeingKilled(q)
    BY WaitsFacts DEF Spawn
  <2>2. Serving /\ live' = live /\ row' = row
    BY DEF Spawn
  <2>3. \A q \in Ports : start'[q] # "done" => row'[q] = "none"
    BY DEF Spawn, Unused
  <2> QED
    BY <2>1, <2>2, <2>3
<1>4. ASSUME NEW c \in Callers, Resume(c) PROVE RowInv'
  BY <1>4 DEF Resume, BeginPrompt, registry
<1>5. ASSUME NEW c \in Callers, Answer(c) PROVE RowInv'
  BY <1>5 DEF Answer, registry, Closes
<1>6. ASSUME NEW c \in Callers, EndTurn(c) PROVE RowInv'
  BY <1>6 DEF EndTurn, registry
<1>7. ASSUME NEW c \in Callers, StopLive(c) PROVE RowInv'
  <2> USE <1>7
  <2>1. live # 0 /\ StopsLive(c) /\ caller[c].at \notin {"prompting", "killing"}
    BY WaitsFacts DEF StopLive
  <2>2. \A q \in Ports : row'[q] = "running" <=> q = live' \/ BeingKilled(q)'
    <3> HIDE DEF BeingKilled, Waits
    <3>1. Serving /\ live' = 0 /\ row' = row
      BY <2>1 DEF StopLive, StopsLive
    <3>2. \A q \in Ports : BeingKilled(q)' <=> BeingKilled(q) \/ q = live
      BY <2>1, StopsLiveEffect
    <3> QED
      BY <3>1, <3>2
  <2>3. \A q \in Ports : start'[q] # "done" => row'[q] = "none"
    BY DEF StopLive
  <2> QED
    BY <2>2, <2>3
<1>8. ASSUME NEW c \in Callers, StopWaits(c) PROVE RowInv'
  BY <1>8 DEF StopWaits, registry, port
<1>9. ASSUME NEW c \in Callers, StopFindsNone(c) PROVE RowInv'
  BY <1>9 DEF StopFindsNone, registry, port
<1>10. ASSUME NEW c \in Actors, ChildStopped(c) PROVE RowInv'
  BY <1>10 DEF ChildStopped, registry, port
<1>11. ASSUME NEW c \in Actors, KillTimer(c) PROVE RowInv'
  BY <1>11 DEF KillTimer, registry
<1>12. ASSUME NEW p \in Ports, Initialized(p) PROVE RowInv'
  BY <1>12 DEF Initialized, registry
<1>13. ASSUME NEW p \in Ports, Refuses(p) PROVE RowInv'
  <2> USE <1>13
  <2>1. \A q \in Ports, d \in Actors :
          caller'[d] = Waits("killing", q) <=> caller[d] = Waits("killing", q)
    <3> HIDE DEF Waits
    <3>1. caller' = [d \in Actors |->
            IF caller[d] \in {Waits("joining", p), Waits("stopWaiting", p)}
            THEN Idle ELSE caller[d]]
      BY DEF Refuses, GiveUp
    <3>2. \A q \in Ports : Idle # Waits("killing", q)
      BY WaitsFacts
    <3> QED
      BY <3>1, <3>2, WaitsFacts
  <2>2. Serving /\ live' = live /\ row' = row
    BY DEF Refuses
  <2>3. \A q \in Ports : start'[q] # "done" => row'[q] = "none"
    BY DEF Refuses
  <2> HIDE DEF Waits
  <2> QED
    BY <2>1, <2>2, <2>3
<1>14. ASSUME NEW p \in Ports, SessionStarted(p) PROVE RowInv'
  BY <1>14 DEF SessionStarted
<1>15. ASSUME NEW p \in Ports, Exit(p) PROVE RowInv'
  <2> USE <1>15
  <2>1. \A q \in Ports : row'[q] = "running" <=> q = live' \/ BeingKilled(q)'
    <3> HIDE DEF BeingKilled, Waits
    <3>1. /\ Serving /\ live' = 0
          /\ row' = [q \in Ports |-> IF q = live THEN "failed" ELSE row[q]]
      BY DEF Exit, Unlisted, ExitStatus
    <3>2. \A q \in Ports : BeingKilled(q)' <=> BeingKilled(q)
      BY ExitEffect
    <3>3. live # 0 => ~ BeingKilled(live)
      BY WaitsFacts DEF BeingKilled
    <3> QED
      BY <3>1, <3>2, <3>3
  <2>2. \A q \in Ports : start'[q] # "done" => row'[q] = "none"
    BY DEF Exit, RejectsStart
  <2> QED
    BY <2>1, <2>2
<1>16. ASSUME NEW p \in Ports, ExitUnseen(p) PROVE RowInv'
  BY <1>16 DEF ExitUnseen, registry, port
<1>17. CASE Close
  <2> USE <1>17
  <2>1. CASE live = 0
    BY <2>1 DEF Close
  <2>2. CASE live # 0
    <3>1. Shutdown \in Actors /\ StopsLive(Shutdown)
      BY <2>2 DEF Close
    <3>2. caller[Shutdown].at \notin {"prompting", "killing"}
      BY DEF Close
    <3> HIDE DEF BeingKilled, Waits
    <3>3. Serving /\ live' = 0 /\ row' = row /\ start' = start
      BY <3>1 DEF Close, StopsLive
    <3>4. \A q \in Ports : BeingKilled(q)' <=> BeingKilled(q) \/ q = live
      BY <2>2, <3>1, <3>2, StopsLiveEffect
    <3> QED
      BY <3>3, <3>4
  <2> QED
    BY <2>1, <2>2
<1>18. CASE ExitProcess
  BY <1>18 DEF ExitProcess, Die
<1>19. CASE Crash
  BY <1>19 DEF Crash, Die
<1>20. CASE Boot
  BY <1>20 DEF Boot, registry, port, Recognised
<1>21. CASE UNCHANGED vars
  BY <1>21 DEF vars
<1> QED
  BY <1>1, <1>2, <1>3, <1>4, <1>5, <1>6, <1>7, <1>8, <1>9, <1>10, <1>11, <1>12, <1>13, <1>14, <1>15, <1>16, <1>17, <1>18, <1>19, <1>20, <1>21 DEF Next

(* No child is lost by any step.                                             *)
LEMMA OrphanStep == TypeOK /\ SlotInv /\ CallerInv /\ RowInv /\ OrphanInv /\ [Next]_vars => OrphanInv'
<1> SUFFICES ASSUME TypeOK, SlotInv, CallerInv, RowInv, OrphanInv, [Next]_vars PROVE OrphanInv'
  OBVIOUS
<1> USE SessionsAssumption, PortsPositive DEF TypeOK, SlotInv, CallerInv, RowInv, RowsTellTheTruth, OrphanInv, NoOrphans, BeingKilled, Actors, Serving, Waits, Idle
<1>1. ASSUME NEW c \in Callers, Reuse(c) PROVE OrphanInv'
  BY <1>1 DEF Reuse, BeginPrompt, registry
<1>2. ASSUME NEW c \in Callers, Join(c) PROVE OrphanInv'
  BY <1>2 DEF Join, InFlight, registry, port
<1>3. ASSUME NEW c \in Callers, Spawn(c) PROVE OrphanInv'
  BY <1>3 DEF Spawn, InFlight
<1>4. ASSUME NEW c \in Callers, Resume(c) PROVE OrphanInv'
  BY <1>4 DEF Resume, BeginPrompt, registry
<1>5. ASSUME NEW c \in Callers, Answer(c) PROVE OrphanInv'
  BY <1>5 DEF Answer, registry, Closes
<1>6. ASSUME NEW c \in Callers, EndTurn(c) PROVE OrphanInv'
  BY <1>6 DEF EndTurn, registry
<1>7. ASSUME NEW c \in Callers, StopLive(c) PROVE OrphanInv'
  <2> USE <1>7
  <2>1. live # 0 /\ StopsLive(c) /\ caller[c].at \notin {"prompting", "killing"}
    BY WaitsFacts DEF StopLive
  <2> HIDE DEF BeingKilled, Waits
  <2> QED
    BY <2>1, StopsLiveEffect DEF StopLive, StopsLive
<1>8. ASSUME NEW c \in Callers, StopWaits(c) PROVE OrphanInv'
  BY <1>8 DEF StopWaits, registry, port
<1>9. ASSUME NEW c \in Callers, StopFindsNone(c) PROVE OrphanInv'
  BY <1>9 DEF StopFindsNone, registry, port
<1>10. ASSUME NEW c \in Actors, ChildStopped(c) PROVE OrphanInv'
  BY <1>10 DEF ChildStopped, registry, port
<1>11. ASSUME NEW c \in Actors, KillTimer(c) PROVE OrphanInv'
  BY <1>11 DEF KillTimer, registry
<1>12. ASSUME NEW p \in Ports, Initialized(p) PROVE OrphanInv'
  BY <1>12 DEF Initialized, registry
<1>13. ASSUME NEW p \in Ports, Refuses(p) PROVE OrphanInv'
  BY <1>13 DEF Refuses, GiveUp
<1>14. ASSUME NEW p \in Ports, SessionStarted(p) PROVE OrphanInv'
  BY <1>14 DEF SessionStarted
<1>15. ASSUME NEW p \in Ports, Exit(p) PROVE OrphanInv'
  <2> USE <1>15
  <2> HIDE DEF BeingKilled, Waits
  <2>1. \A q \in Ports : BeingKilled(q)' <=> BeingKilled(q)
    BY ExitEffect
  <2>2. /\ Serving /\ Serving' /\ live' = 0 /\ killed' = killed
        /\ leaked' = leaked \cup ({live} \ {0, p})
        /\ \A q \in Ports : child'[q] = "up" => child[q] = "up" /\ q # p
        /\ starting' = starting \/ starting = p
    BY DEF Exit, Unlisted, RejectsStart
  <2> QED
    BY <2>1, <2>2
<1>16. ASSUME NEW p \in Ports, ExitUnseen(p) PROVE OrphanInv'
  BY <1>16 DEF ExitUnseen, registry, port
<1>17. CASE Close
  <2> USE <1>17
  <2>1. CASE live = 0
    BY <2>1 DEF Close
  <2>2. CASE live # 0
    <3>1. Shutdown \in Actors /\ StopsLive(Shutdown)
      BY <2>2 DEF Close
    <3>2. caller[Shutdown] = Idle
      BY DEF Close, CallerInv
    <3>3. caller[Shutdown].at \notin {"prompting", "killing"}
      BY <3>2
    <3> HIDE DEF BeingKilled, Waits
    <3> QED
      BY <2>2, <3>1, <3>2, <3>3, StopsLiveEffect DEF Close, StopsLive
  <2> QED
    BY <2>1, <2>2
<1>18. CASE ExitProcess
  BY <1>18 DEF ExitProcess, Die
<1>19. CASE Crash
  BY <1>19 DEF Crash, Die
<1>20. CASE Boot
  BY <1>20 DEF Boot, registry, port, Recognised
<1>21. CASE UNCHANGED vars
  BY <1>21 DEF vars
<1> QED
  BY <1>1, <1>2, <1>3, <1>4, <1>5, <1>6, <1>7, <1>8, <1>9, <1>10, <1>11, <1>12, <1>13, <1>14, <1>15, <1>16, <1>17, <1>18, <1>19, <1>20, <1>21 DEF Next

(* Turns die with their agents at every step.                                *)
LEMMA TurnStep == TypeOK /\ SlotInv /\ CallerInv /\ TurnInv /\ [Next]_vars => TurnInv'
<1> SUFFICES ASSUME TypeOK, SlotInv, CallerInv, TurnInv, [Next]_vars PROVE TurnInv'
  OBVIOUS
<1> USE SessionsAssumption, PortsPositive DEF TypeOK, SlotInv, CallerInv, TurnInv, TurnsDieWithTheirAgent, Actors, Serving, Waits, Idle
<1>1. ASSUME NEW c \in Callers, Reuse(c) PROVE TurnInv'
  <2> USE <1>1
  <2>1. BeginPrompt(c) \/ UNCHANGED <<turn, reject, bare>>
    BY DEF Reuse
  <2>2. \A q \in Ports : turn[q] # c
    <3>1. c \in Actors /\ caller[c].at # "prompting"
      BY WaitsFacts DEF Reuse
    <3> QED
      BY <3>1, PromptFacts
  <2>3. live # 0 => live \in Ports /\ child[live] = "up" /\ live \notin stopped
    OBVIOUS
  <2>4. child' = child /\ stopped' = stopped
    BY DEF Reuse
  <2>5. CASE UNCHANGED <<turn, reject, bare>>
    BY <2>5, <2>4
  <2>6. CASE live # 0 /\ BeginPrompt(c) /\ turn[live] = NoCaller
    BY <2>2, <2>3, <2>4, <2>6 DEF BeginPrompt
  <2> QED
    BY <2>1, <2>5, <2>6 DEF BeginPrompt, Reuse
<1>2. ASSUME NEW c \in Callers, Join(c) PROVE TurnInv'
  BY <1>2 DEF Join, InFlight, registry, port
<1>3. ASSUME NEW c \in Callers, Spawn(c) PROVE TurnInv'
  BY <1>3 DEF Spawn, InFlight
<1>4. ASSUME NEW c \in Callers, Resume(c) PROVE TurnInv'
  <2> USE <1>4
  <2>1. BeginPrompt(c) \/ UNCHANGED <<turn, reject, bare>>
    BY DEF Resume
  <2>2. \A q \in Ports : turn[q] # c
    <3>1. c \in Actors /\ caller[c].at # "prompting"
      BY WaitsFacts DEF Resume
    <3> QED
      BY <3>1, PromptFacts
  <2>3. live # 0 => live \in Ports /\ child[live] = "up" /\ live \notin stopped
    OBVIOUS
  <2>4. child' = child /\ stopped' = stopped
    BY DEF Resume
  <2>5. CASE UNCHANGED <<turn, reject, bare>>
    BY <2>5, <2>4
  <2>6. CASE live # 0 /\ BeginPrompt(c) /\ turn[live] = NoCaller
    BY <2>2, <2>3, <2>4, <2>6 DEF BeginPrompt
  <2> QED
    BY <2>1, <2>5, <2>6 DEF BeginPrompt, Resume
<1>5. ASSUME NEW c \in Callers, Answer(c) PROVE TurnInv'
  BY <1>5 DEF Answer, registry, Closes
<1>6. ASSUME NEW c \in Callers, EndTurn(c) PROVE TurnInv'
  BY <1>6 DEF EndTurn, registry
<1>7. ASSUME NEW c \in Callers, StopLive(c) PROVE TurnInv'
  BY <1>7 DEF StopLive, StopsLive, Rejects
<1>8. ASSUME NEW c \in Callers, StopWaits(c) PROVE TurnInv'
  BY <1>8 DEF StopWaits, registry, port
<1>9. ASSUME NEW c \in Callers, StopFindsNone(c) PROVE TurnInv'
  BY <1>9 DEF StopFindsNone, registry, port
<1>10. ASSUME NEW c \in Actors, ChildStopped(c) PROVE TurnInv'
  BY <1>10 DEF ChildStopped, registry, port
<1>11. ASSUME NEW c \in Actors, KillTimer(c) PROVE TurnInv'
  BY <1>11 DEF KillTimer, registry
<1>12. ASSUME NEW p \in Ports, Initialized(p) PROVE TurnInv'
  BY <1>12 DEF Initialized, registry
<1>13. ASSUME NEW p \in Ports, Refuses(p) PROVE TurnInv'
  BY <1>13 DEF Refuses, GiveUp
<1>14. ASSUME NEW p \in Ports, SessionStarted(p) PROVE TurnInv'
  BY <1>14 DEF SessionStarted
<1>15. ASSUME NEW p \in Ports, Exit(p) PROVE TurnInv'
  BY <1>15 DEF Exit, GiveUp, Rejects, RejectsStart, Unlisted, ExitStatus
<1>16. ASSUME NEW p \in Ports, ExitUnseen(p) PROVE TurnInv'
  <2>1. \A d \in Actors : caller[d].at = "idle"
    BY <1>16 DEF ExitUnseen
  <2>2. ASSUME NEW q \in Ports PROVE turn[q] = NoCaller
    <3>1. turn[q] \in Actors => caller[turn[q]].at = "prompting"
      BY PromptFacts
    <3>2. turn[q] \in Actors \cup {NoCaller}
      OBVIOUS
    <3> QED
      BY <2>1, <3>1, <3>2
  <2> QED
    BY <1>16, <2>2 DEF ExitUnseen, registry, port
<1>17. CASE Close
  BY <1>17 DEF Close, StopsLive, Rejects
<1>18. CASE ExitProcess
  BY <1>18 DEF ExitProcess, Die
<1>19. CASE Crash
  BY <1>19 DEF Crash, Die
<1>20. CASE Boot
  <2>1. \A d \in Actors : caller[d].at = "idle"
    BY <1>20 DEF Boot
  <2>2. ASSUME NEW q \in Ports PROVE turn[q] = NoCaller
    <3>1. turn[q] \in Actors => caller[turn[q]].at = "prompting"
      BY PromptFacts
    <3>2. turn[q] \in Actors \cup {NoCaller}
      OBVIOUS
    <3> QED
      BY <2>1, <3>1, <3>2
  <2> QED
    BY <1>20, <2>2 DEF Boot, registry, port
<1>21. CASE UNCHANGED vars
  BY <1>21 DEF vars
<1> QED
  BY <1>1, <1>2, <1>3, <1>4, <1>5, <1>6, <1>7, <1>8, <1>9, <1>10, <1>11, <1>12, <1>13, <1>14, <1>15, <1>16, <1>17, <1>18, <1>19, <1>20, <1>21 DEF Next

-----------------------------------------------------------------------------
(* Theorems.                                                               *)

IInv == TypeOK /\ SlotInv /\ CallerInv /\ RowInv /\ OrphanInv /\ TurnInv

LEMMA InvInit == Init => IInv
<1> SUFFICES ASSUME Init PROVE IInv
  OBVIOUS
<1> USE SessionsAssumption, PortsPositive, TypeInit DEF Init, Serving, Idle, Actors
<1>1. SlotInv /\ CallerInv
  BY DEF SlotInv, CallerInv
<1>2. \A p \in Ports : ~ BeingKilled(p)
  BY WaitsFacts DEF BeingKilled
<1>3. RowInv /\ OrphanInv /\ TurnInv
  BY <1>2 DEF RowInv, RowsTellTheTruth, OrphanInv, NoOrphans, TurnInv,
              TurnsDieWithTheirAgent
<1> QED
  BY <1>1, <1>3 DEF IInv

LEMMA InvStep == IInv /\ [Next]_vars => IInv'
  BY TypeStep, SlotStep, CallerStep, RowStep, OrphanStep, TurnStep DEF IInv

LEMMA InvAlways == Spec => []IInv
<1>1. IInv /\ [Next]_vars => IInv'
  BY InvStep
<1> QED
  BY InvInit, <1>1, PTL DEF Spec

(* The state is well typed.                                                  *)
THEOREM SessionsTypeCorrect == Spec => []TypeOK
<1>1. IInv => TypeOK
  BY DEF IInv
<1> QED
  BY InvAlways, <1>1, PTL

(* Rows and registry agree: a row says running exactly for the adapter in    *)
(* #live and for those a stop still waits for (registry.ts:159-230).         *)
THEOREM RowsTrue == Spec => []RowsTellTheTruth
<1>1. IInv => RowsTellTheTruth
  BY DEF IInv, RowInv
<1> QED
  BY InvAlways, <1>1, PTL

(* No child is lost but by the paths `leaked` names (registry.ts:86-113).    *)
THEOREM NoneOrphaned == Spec => []NoOrphans
<1>1. IInv => NoOrphans
  BY DEF IInv, OrphanInv
<1> QED
  BY InvAlways, <1>1, PTL

(* A dead adapter's prompt is rejected unless its reject had been cleared by *)
(* another's answer (acp-agent-port.ts:387-416).                             *)
THEOREM TurnsDie == Spec => []TurnsDieWithTheirAgent
<1>1. IInv => TurnsDieWithTheirAgent
  BY DEF IInv, TurnInv
<1> QED
  BY InvAlways, <1>1, PTL

(* Nobody awaits the handshake of a dead process (acp-agent-port.ts:214-218). *)
THEOREM NoCorpse == Spec => []HandshakeWaitsForNoCorpse
<1>1. IInv => HandshakeWaitsForNoCorpse
  BY DEF IInv, SlotInv, HandshakeWaitsForNoCorpse
<1> QED
  BY InvAlways, <1>1, PTL

-----------------------------------------------------------------------------
(* The refinement: the registry implements the slot.                       *)

UsedUpTo(n) == \A p \in Ports : start[p] = "none" <=> n < p

LEMMA UsedCount ==
    ASSUME NEW n \in 0..MaxStarts, NEW s,
           \A p \in Ports : s[p] = "none" <=> n < p
    PROVE  Cardinality(Ports \ {p \in Ports : s[p] = "none"}) = n
<1>1. Ports \ {p \in Ports : s[p] = "none"} = 1..n
  BY SessionsAssumption DEF Ports
<1>2. n \in Int /\ 1 \in Int /\ n >= 0
  BY SessionsAssumption
<1>3. Cardinality(1..n) = IF 1 > n THEN 0 ELSE n - 1 + 1
  BY <1>2, FS_Interval
<1>4. Cardinality(1..n) = n
  BY <1>2, <1>3
<1> QED
  BY <1>1, <1>4

(* Only a spawn uses a port, and it takes the next one.                      *)
LEMMA OrderStep ==
    ASSUME TypeOK, SlotInv, [Next]_vars, NEW n \in 0..MaxStarts, UsedUpTo(n)
    PROVE  \/ UsedUpTo(n)' /\ starting' \in {starting, 0}
           \/ /\ n < MaxStarts /\ UsedUpTo(n + 1)'
              /\ live = 0 /\ starting = 0 /\ live' = 0 /\ starting' = n + 1
<1> USE SessionsAssumption, PortsPositive DEF TypeOK, UsedUpTo
<1>1. ASSUME NEW c \in Callers, Reuse(c) PROVE UsedUpTo(n)' /\ starting' \in {starting, 0}
  BY <1>1 DEF Reuse, registry
<1>2. ASSUME NEW c \in Callers, Join(c) PROVE UsedUpTo(n)' /\ starting' \in {starting, 0}
  BY <1>2 DEF Join, registry, port
<1>3. ASSUME NEW c \in Callers, Resume(c) PROVE UsedUpTo(n)' /\ starting' \in {starting, 0}
  BY <1>3 DEF Resume, registry
<1>4. ASSUME NEW c \in Callers, Answer(c) PROVE UsedUpTo(n)' /\ starting' \in {starting, 0}
  BY <1>4 DEF Answer, registry
<1>5. ASSUME NEW c \in Callers, EndTurn(c) PROVE UsedUpTo(n)' /\ starting' \in {starting, 0}
  BY <1>5 DEF EndTurn, registry
<1>6. ASSUME NEW c \in Callers, StopLive(c) PROVE UsedUpTo(n)' /\ starting' \in {starting, 0}
  BY <1>6 DEF StopLive
<1>7. ASSUME NEW c \in Callers, StopWaits(c) PROVE UsedUpTo(n)' /\ starting' \in {starting, 0}
  BY <1>7 DEF StopWaits, registry, port
<1>8. ASSUME NEW c \in Callers, StopFindsNone(c) PROVE UsedUpTo(n)' /\ starting' \in {starting, 0}
  BY <1>8 DEF StopFindsNone, registry, port
<1>9. ASSUME NEW a \in Actors, ChildStopped(a) PROVE UsedUpTo(n)' /\ starting' \in {starting, 0}
  BY <1>9 DEF ChildStopped, registry, port
<1>10. ASSUME NEW a \in Actors, KillTimer(a) PROVE UsedUpTo(n)' /\ starting' \in {starting, 0}
  BY <1>10 DEF KillTimer, registry
<1>11. ASSUME NEW p \in Ports, Initialized(p) PROVE UsedUpTo(n)' /\ starting' \in {starting, 0}
  BY <1>11 DEF Initialized, registry, SlotInv
<1>12. ASSUME NEW p \in Ports, Refuses(p) PROVE UsedUpTo(n)' /\ starting' \in {starting, 0}
  BY <1>12 DEF Refuses, SlotInv
<1>13. ASSUME NEW p \in Ports, SessionStarted(p) PROVE UsedUpTo(n)' /\ starting' \in {starting, 0}
  BY <1>13 DEF SessionStarted, SlotInv
<1>14. ASSUME NEW p \in Ports, Exit(p) PROVE UsedUpTo(n)' /\ starting' \in {starting, 0}
  BY <1>14 DEF Exit, RejectsStart, SlotInv
<1>15. ASSUME NEW p \in Ports, ExitUnseen(p) PROVE UsedUpTo(n)' /\ starting' \in {starting, 0}
  BY <1>15 DEF ExitUnseen, registry, port
<1>16. ASSUME Close PROVE UsedUpTo(n)' /\ starting' \in {starting, 0}
  BY <1>16 DEF Close
<1>17. ASSUME ExitProcess PROVE UsedUpTo(n)' /\ starting' \in {starting, 0}
  BY <1>17 DEF ExitProcess, Die
<1>18. ASSUME Crash PROVE UsedUpTo(n)' /\ starting' \in {starting, 0}
  BY <1>18 DEF Crash, Die
<1>19. ASSUME Boot PROVE UsedUpTo(n)' /\ starting' \in {starting, 0}
  BY <1>19 DEF Boot, registry, port
<1>20. ASSUME NEW c \in Callers, Spawn(c)
      PROVE  /\ n < MaxStarts /\ UsedUpTo(n + 1)'
             /\ live = 0 /\ starting = 0 /\ live' = 0 /\ starting' = n + 1
  <2> USE <1>20
  <2>1. PICK p \in Unused : /\ \A q \in Unused : p <= q
                           /\ start' = [start EXCEPT ![p] = "initialize"]
                           /\ starting' = p
    BY DEF Spawn
  <2>2. p = n + 1 /\ n < MaxStarts
    <3>1. p \in 1..MaxStarts /\ start[p] = "none"
      BY <2>1 DEF Unused, Ports
    <3>2. n < p
      BY <3>1 DEF Ports
    <3>3. n + 1 \in Unused
      BY <3>1, <3>2 DEF Unused, Ports
    <3> QED
      BY <2>1, <3>1, <3>2, <3>3
  <2>3. UsedUpTo(n + 1)'
    BY <2>1, <2>2 DEF Ports
  <2> QED
    BY <2>1, <2>2, <2>3 DEF Spawn, InFlight
<1>21. ASSUME UNCHANGED vars PROVE UsedUpTo(n)' /\ starting' \in {starting, 0}
  BY <1>21 DEF vars
<1> QED
  BY <1>1, <1>2, <1>3, <1>4, <1>5, <1>6, <1>7, <1>8, <1>9, <1>10, <1>11, <1>12, <1>13, <1>14, <1>15, <1>16, <1>17, <1>18, <1>19, <1>20, <1>21 DEF Next


(* The ways the two maps may change in a step.                               *)
SlotMoves ==
    \/ live' = live /\ starting' = starting
    \/ live = 0 /\ starting = 0 /\ live' = 0 /\ starting' # 0
    \/ live = 0 /\ starting # 0 /\ live' = starting /\ starting' = 0
    \/ (live # 0 \/ starting # 0) /\ live' = 0 /\ starting' = 0

LEMMA MovesStep ==
    ASSUME TypeOK, SlotInv, [Next]_vars
    PROVE  SlotMoves
<1> USE SessionsAssumption, PortsPositive DEF TypeOK, SlotInv, SlotMoves, Unused
<1>1. ASSUME NEW c \in Callers, Reuse(c) PROVE SlotMoves
  BY <1>1 DEF Reuse, registry
<1>2. ASSUME NEW c \in Callers, Join(c) PROVE SlotMoves
  BY <1>2 DEF Join, registry
<1>3. ASSUME NEW c \in Callers, Spawn(c) PROVE SlotMoves
  BY <1>3 DEF Spawn, InFlight
<1>4. ASSUME NEW c \in Callers, Resume(c) PROVE SlotMoves
  BY <1>4 DEF Resume, registry
<1>5. ASSUME NEW c \in Callers, Answer(c) PROVE SlotMoves
  BY <1>5 DEF Answer, registry
<1>6. ASSUME NEW c \in Callers, EndTurn(c) PROVE SlotMoves
  BY <1>6 DEF EndTurn, registry
<1>7. ASSUME NEW c \in Callers, StopLive(c) PROVE SlotMoves
  BY <1>7 DEF StopLive, StopsLive
<1>8. ASSUME NEW c \in Callers, StopWaits(c) PROVE SlotMoves
  BY <1>8 DEF StopWaits, registry
<1>9. ASSUME NEW c \in Callers, StopFindsNone(c) PROVE SlotMoves
  BY <1>9 DEF StopFindsNone, registry
<1>10. ASSUME NEW a \in Actors, ChildStopped(a) PROVE SlotMoves
  BY <1>10 DEF ChildStopped, registry
<1>11. ASSUME NEW a \in Actors, KillTimer(a) PROVE SlotMoves
  BY <1>11 DEF KillTimer, registry
<1>12. ASSUME NEW p \in Ports, Initialized(p) PROVE SlotMoves
  BY <1>12 DEF Initialized, registry
<1>13. ASSUME NEW p \in Ports, Refuses(p) PROVE SlotMoves
  BY <1>13 DEF Refuses
<1>14. ASSUME NEW p \in Ports, SessionStarted(p) PROVE SlotMoves
  BY <1>14 DEF SessionStarted
<1>15. ASSUME NEW p \in Ports, Exit(p) PROVE SlotMoves
  BY <1>15 DEF Exit, Unlisted, RejectsStart
<1>16. ASSUME NEW p \in Ports, ExitUnseen(p) PROVE SlotMoves
  BY <1>16 DEF ExitUnseen, registry
<1>17. CASE Close
  BY <1>17 DEF Close, StopsLive
<1>18. CASE ExitProcess
  BY <1>18 DEF ExitProcess, Die
<1>19. CASE Crash
  BY <1>19 DEF Crash, Die
<1>20. CASE Boot
  BY <1>20 DEF Boot, registry
<1>21. CASE UNCHANGED vars
  BY <1>21 DEF vars
<1> QED
  BY <1>1, <1>2, <1>3, <1>4, <1>5, <1>6, <1>7, <1>8, <1>9, <1>10, <1>11, <1>12, <1>13, <1>14, <1>15, <1>16, <1>17, <1>18, <1>19, <1>20, <1>21 DEF Next

(* Init maps to the empty slot.                                              *)
LEMMA SlotInit == Init => Slot!Init /\ UsedUpTo(0)
<1> SUFFICES ASSUME Init PROVE Slot!Init /\ UsedUpTo(0)
  OBVIOUS
<1>1. UsedUpTo(0)
  BY SessionsAssumption DEF Init, UsedUpTo, Ports
<1>2. Cardinality(Ports \ Unused) = 0
  BY <1>1, UsedCount, SessionsAssumption DEF UsedUpTo, Unused
<1> QED
  BY <1>1, <1>2 DEF Init, Slot!Init

(* Every step is a step of the slot or leaves it as it is.                   *)
LEMMA SlotNext ==
    ASSUME IInv, [Next]_vars, NEW n \in 0..MaxStarts, UsedUpTo(n)
    PROVE  /\ [Slot!Next]_(Slot!slot)
           /\ \E m \in 0..MaxStarts : UsedUpTo(m)'
<1> DEFINE used == Cardinality(Ports \ Unused)
<1> USE SessionsAssumption, PortsPositive
<1>1. used = n
  BY UsedCount DEF UsedUpTo, Unused
<1>2. \A m \in 0..MaxStarts : UsedUpTo(m)' => used' = m
  BY UsedCount DEF UsedUpTo, Unused
<1>3. TypeOK /\ SlotInv
  BY DEF IInv
<1>4. SlotMoves
  BY <1>3, MovesStep
<1>5. CASE /\ n < MaxStarts /\ UsedUpTo(n + 1)'
           /\ live = 0 /\ starting = 0 /\ live' = 0 /\ starting' = n + 1
  <2>1. n + 1 \in 0..MaxStarts
    BY <1>5
  <2>2. used' = n + 1
    BY <1>2, <1>5, <2>1
  <2> HIDE DEF used
  <2>3. Slot!Claim
    BY <1>1, <1>5, <2>2 DEF Slot!Claim, used
  <2> QED
    BY <2>1, <2>3, <1>5 DEF Slot!Next
<1>6. CASE UsedUpTo(n)' /\ starting' \in {starting, 0}
  <2>1. used' = used
    BY <1>1, <1>2, <1>6
  <2> HIDE DEF used
  <2>3. CASE live' = live /\ starting' = starting
    BY <2>1, <2>3, <1>6 DEF Slot!slot, used
  <2>4. CASE live = 0 /\ starting = 0 /\ live' = 0 /\ starting' # 0
    BY <2>4, <1>6
  <2>5. CASE live = 0 /\ starting # 0 /\ live' = starting /\ starting' = 0
    BY <2>1, <2>5, <1>6 DEF Slot!Grant, Slot!Next, used
  <2>6. CASE (live # 0 \/ starting # 0) /\ live' = 0 /\ starting' = 0
    BY <2>1, <2>6, <1>6 DEF Slot!Release, Slot!Next, used
  <2> QED
    BY <1>4, <2>3, <2>4, <2>5, <2>6 DEF SlotMoves
<1> QED
  BY <1>3, <1>5, <1>6, OrderStep

(* The registry's two maps implement one slot for one adapter               *)
(* (registry.ts:57-59, :98-114).                                             *)
THEOREM RegistryIsOneSlot == Spec => OneSlot
<1> DEFINE J == IInv /\ \E n \in 0..MaxStarts : UsedUpTo(n)
<1>1. Init => J
  BY InvInit, SlotInit, SessionsAssumption
<1>2. J /\ [Next]_vars => J' /\ [Slot!Next]_(Slot!slot)
  BY InvStep, SlotNext
<1>3. Init => Slot!Init
  BY SlotInit
<1> QED
  BY <1>1, <1>2, <1>3, PTL DEF Spec, OneSlot, Slot!Spec
==============================================================================
