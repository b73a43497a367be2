------------------------------ MODULE Screens ------------------------------
(***************************************************************************)
(* One screen of the web client and the answers it waits for: the Focus    *)
(* View's single-flight refetch, the board's debounced one, and the git    *)
(* console's load, which a generation guards (routes/FocusView.tsx,        *)
(* app/useLiveObjectives.ts, routes/GitConsole.tsx). The first two refetch *)
(* when the event stream says something changed; events carry no state.    *)
(*                                                                         *)
(* A key is what the URL names: an objective for the Focus View, a project *)
(* for the board and the console. The state of a key is how many events    *)
(* there have been about it. A request is answered by the server at one    *)
(* moment and applied by the page at a later one, in any order.            *)
(***************************************************************************)
EXTENDS EventStream, FiniteSets, FiniteSetsExt

CONSTANTS Kinds,        \* which screens: "focus", "board", "console"
          MaxFlight,    \* bound: how many requests are under way at once
          MaxMoves,     \* bound: how often the user goes elsewhere
          MaxAsks,      \* bound: how often the user asks for a reload,
                        \* an older page or a git operation
          MaxFaults     \* bound: how many requests fail

ASSUME ScreensAssumption ==
    /\ Kinds \subseteq {"focus", "board", "console"}
    /\ {MaxFlight, MaxMoves, MaxAsks, MaxFaults} \subseteq Nat

VARIABLES kind,    \* which screen this is
          key,     \* what the URL names
          shown,   \* what is on screen: aggregate, rows or topology
          commits, \* the console's history
          flight,  \* requests the page waits for
          again,   \* the Focus View's pending ref: one more fetch is owed
          timer,   \* the board's debounce timer runs
          gen,     \* the console's generation; the board's request count
          failed,  \* the last fetch failed and says so
          crossed, \* history: an answer came to a screen that had moved on
          moves, asks, faults

screen == <<shown, commits, flight, again, timer, gen, failed, crossed>>
bounds == <<moves, asks, faults>>
vars == <<streamVars, kind, key, screen, bounds>>

Nothing == [key |-> All, ver |-> 0]
Unread == MaxEvents + 1
Version(k) == Cardinality({n \in 1..Len(log) : log[n] = k})

Request(k, what, g) == [key |-> k, what |-> what, gen |-> g, ver |-> Unread,
                        after |-> Nothing]

Init == /\ StreamInit
        /\ kind \in Kinds
        /\ key \in Keys
        /\ scope = IF kind = "focus" THEN key ELSE All
        /\ shown = Nothing /\ commits = <<>>
        /\ gen = IF kind = "focus" THEN 0 ELSE 1
        /\ flight = {Request(key, IF kind = "console" THEN "topology"
                                  ELSE "state", gen)}
        /\ again = FALSE /\ timer = FALSE
        /\ failed = FALSE /\ crossed = FALSE
        /\ moves = 0 /\ asks = 0 /\ faults = 0

Room == Cardinality(flight) < MaxFlight

-----------------------------------------------------------------------------
(* Asking.                                                                 *)

\* refetch() of the Focus View: one at a time, the rest owed as one.
FocusRefetch == IF flight # {}
    THEN again' = TRUE /\ UNCHANGED <<flight, gen>>
    ELSE /\ flight' = {Request(key, "state", 0)}
         /\ UNCHANGED <<again, gen>>

\* refetch() of the board for key k, whatever is under way.
BoardRefetch(k) == /\ Room
                   /\ gen' = gen + 1
                   /\ flight' = flight \cup {Request(k, "state", gen')}
                   /\ UNCHANGED again

\* load() of the console, over the requests rest, with the key its closure
\* captured.
Load(k, rest) == /\ gen' = gen + 1
                 /\ flight' = rest \cup {Request(k, "topology", gen')}

Ask(k) == CASE kind = "focus" -> FocusRefetch
            [] kind = "board" -> BoardRefetch(k)
            [] kind = "console" -> /\ Room
                                   /\ Load(k, flight)
                                   /\ UNCHANGED again

\* A message on the stream: the Focus View refetches, the board waits for
\* the burst to end. The console has no stream.
Message ==
    /\ kind # "console"
    /\ Receive
    /\ IF kind = "focus"
       THEN /\ FocusRefetch
            /\ failed' = FALSE /\ UNCHANGED timer
       ELSE /\ timer' = TRUE
            /\ UNCHANGED <<flight, again, gen, failed>>
    /\ UNCHANGED <<kind, key, shown, commits, crossed, bounds>>

\* The debounce timer ends: one refetch for the burst.
TimerFires == /\ timer
              /\ timer' = FALSE
              /\ BoardRefetch(key)
              /\ UNCHANGED <<streamVars, kind, key, shown, commits, failed,
                             crossed, bounds>>

\* A command, alt-tab or Refresh asks for what the screen shows. The Focus View
\* awaits its command first and then asks for what it showed when the user gave
\* it (FocusView.tsx:116-134): here the two are one step.
Poke == /\ asks < MaxAsks /\ asks' = asks + 1
        /\ Ask(key)
        /\ failed' = IF kind = "console" THEN FALSE ELSE failed
        /\ UNCHANGED <<streamVars, kind, key, shown, commits, timer, crossed,
                       moves, faults>>

\* The user goes to another objective or project. The Focus View keeps what
\* it shows, and a fetch under way makes the new one wait; the board clears
\* its rows and its timer; the console clears its errors.
Move(k) ==
    /\ moves < MaxMoves /\ moves' = moves + 1
    /\ k # key /\ key' = k
    /\ CASE kind = "focus" ->
              /\ Open(k)
              /\ IF flight # {} THEN again' = TRUE /\ UNCHANGED flight
                 ELSE /\ flight' = {Request(k, "state", 0)}
                      /\ UNCHANGED again
              /\ UNCHANGED <<shown, timer, gen, failed>>
         [] kind = "board" ->
              /\ Open(All)
              /\ BoardRefetch(k)
              /\ shown' = Nothing /\ timer' = FALSE /\ failed' = FALSE
         [] kind = "console" ->
              /\ Room
              /\ Load(k, flight) /\ failed' = FALSE
              /\ UNCHANGED <<stream, again, shown, timer>>
    /\ UNCHANGED <<log, kind, commits, crossed, asks, faults>>

\* loadMore(): the page after the last commit on screen, one at a time. A load
\* under way is dropped, even if the screen still waits for its first answer.
LoadMore ==
    /\ kind = "console" /\ asks < MaxAsks /\ asks' = asks + 1
    /\ Room
    /\ commits # <<>>
    /\ \A r \in flight : r.what # "more"
    /\ gen' = gen + 1
    /\ flight' = flight \cup
            {[Request(key, "more", gen') EXCEPT !.after = Last(commits)]}
    /\ crossed' = (crossed \/ Last(commits).key # key \/ shown.key # key)
    /\ UNCHANGED <<streamVars, kind, key, shown, commits, again, timer, failed,
                   moves, faults>>

\* runMutation(): controls are disabled while one runs.
Mutate == /\ kind = "console" /\ asks < MaxAsks /\ asks' = asks + 1
          /\ Room
          /\ \A r \in flight : r.what # "mutate"
          /\ shown # Nothing
          /\ flight' = flight \cup {Request(key, "mutate", 0)}
          /\ UNCHANGED <<streamVars, kind, key, shown, commits, again, timer,
                         gen, failed, crossed, moves, faults>>

-----------------------------------------------------------------------------
(* Answers.                                                                *)

\* The server answers: it reads the state there is now.
Answer(r) == /\ r.ver = Unread
             /\ flight' = (flight \ {r}) \cup
                    {[r EXCEPT !.ver = Version(r.key)]}
             /\ UNCHANGED <<streamVars, kind, key, shown, commits, again,
                            timer, gen, failed, crossed, bounds>>

Content(r) == [key |-> r.key, ver |-> r.ver]
Outcomes == {"ok"} \cup (IF faults < MaxFaults THEN {"error"} ELSE {})
Faulty(o) == faults' = IF o = "error" THEN faults + 1 ELSE faults

NeverOwed(r) == FALSE

\* Whether the Focus View fetches once more when a fetch ends.
Owed(r) == again

\* The end of the Focus View's fetch; what was owed is asked for with the
\* same closure, and so for the same key.
FocusApplies(r, o) ==
    /\ kind = "focus"
    /\ shown' = IF o = "ok" THEN Content(r) ELSE shown
    /\ failed' = (o = "error")
    /\ again' = FALSE
    /\ flight' = IF Owed(r) THEN {Request(r.key, "state", 0)} ELSE {}
    /\ crossed' = (crossed \/ r.key # key)
    /\ UNCHANGED <<commits, gen>>

\* The board's answer lands whichever request it belongs to.
BoardApplies(r, o) ==
    /\ kind = "board"
    /\ shown' = IF o = "ok" THEN Content(r) ELSE shown
    /\ failed' = (o = "error")
    /\ flight' = flight \ {r}
    /\ crossed' = (crossed \/ \A q \in flight : q.gen # gen)
    /\ UNCHANGED <<commits, again, gen>>

AlwaysCurrent(r) == TRUE

\* The console's guard after every await.
Current(r) == r.gen = gen

\* The steps of load() one after the other; an answer of an older generation
\* is dropped, and its load with it. The remotes and the strays, which load()
\* asks for last and keeps apart, are left out (GitConsole.tsx:159-182).
LoadApplies(r, o) ==
    /\ kind = "console" /\ r.what \in {"topology", "history"}
    /\ IF ~ Current(r)
       THEN /\ flight' = flight \ {r}
            /\ UNCHANGED <<shown, commits, failed>>
       ELSE CASE r.what = "topology" /\ o = "ok" ->
                   /\ shown' = Content(r)
                   /\ flight' = (flight \ {r}) \cup
                            {Request(r.key, "history", r.gen)}
                   /\ UNCHANGED <<commits, failed>>
              [] r.what = "topology" /\ o = "error" ->
                   /\ shown' = Nothing /\ commits' = <<>>
                   /\ failed' = TRUE
                   /\ flight' = flight \ {r}
              [] r.what = "history" ->
                   /\ commits' = IF o = "ok" THEN <<Content(r)>> ELSE <<>>
                   /\ failed' = (o = "error")
                   /\ flight' = flight \ {r}
                   /\ UNCHANGED shown
    /\ UNCHANGED <<again, gen, crossed>>

\* GET /git/log: a cursor the project's history does not reach is refused.
KnownCursor(r) == r.after.key = r.key

\* An older page is appended to what is there.
MoreApplies(r, o) ==
    /\ r.what = "more"
    /\ IF ~ Current(r) THEN UNCHANGED <<commits, failed>>
       ELSE IF o = "ok" /\ KnownCursor(r)
       THEN commits' = Append(commits, r.after) /\ UNCHANGED failed
       ELSE failed' = TRUE /\ UNCHANGED commits
    /\ flight' = flight \ {r}
    /\ UNCHANGED <<shown, again, gen, crossed>>

\* A mutation's answer ends in load(), for the project it was sent to.
MutateApplies(r) ==
    /\ r.what = "mutate"
    /\ Load(r.key, flight \ {r})
    /\ failed' = FALSE
    /\ crossed' = (crossed \/ r.key # key)
    /\ UNCHANGED <<shown, commits, again>>

Apply(r) ==
    /\ r.ver # Unread
    /\ \E o \in Outcomes :
        /\ Faulty(o)
        /\ \/ FocusApplies(r, o) \/ BoardApplies(r, o)
           \/ LoadApplies(r, o) \/ MoreApplies(r, o)
           \/ MutateApplies(r)
    /\ UNCHANGED <<streamVars, kind, key, timer, moves, asks>>

-----------------------------------------------------------------------------
Unmoved == UNCHANGED <<kind, key, screen, bounds>>

Next == \/ \E k \in Keys : Emit(k) /\ Unmoved
        \/ kind # "console" /\ (Connect \/ Drop) /\ Unmoved
        \/ Message \/ TimerFires \/ Poke \/ LoadMore \/ Mutate
        \/ \E k \in Keys : Move(k)
        \/ \E r \in flight : Answer(r) \/ Apply(r)

Spec == Init /\ [][Next]_vars

\* The browser reconnects and delivers, timers fire, and requests to the
\* local server are answered; nothing is assumed of the user.
FairSpec == /\ Spec
            /\ WF_vars(Connect /\ Unmoved)
            /\ WF_vars(Message)
            /\ WF_vars(TimerFires)
            /\ WF_vars(\E r \in flight : Answer(r) \/ Apply(r))

-----------------------------------------------------------------------------
(* Properties.                                                             *)

\* Once nothing is under way a screen shows what its URL names, unless an
\* answer crossed a move or another answer: in those cases it does not
\* (FocusView.tsx:69-88, useLiveObjectives.ts:32-49, GitConsole.tsx:123-183).
QuietScreenFits ==
    flight = {} /\ ~ timer /\ ~ crossed /\ ~ failed =>
        /\ shown.key = key
        /\ \A i \in 1..Len(commits) : commits[i].key = key

\* A page of older commits only ever stands behind the page it continues:
\* a reload and a "load more" under way together do not mix two readings of
\* the history (GitConsole.tsx:82-90, :191-211).
PagesContinue ==
    \A i \in 2..Len(commits) : commits[i] = commits[1]

\* The stream is a change signal and nothing more, yet every change reaches
\* the screen: once changes stop, the Focus View and the board come to show
\* the last state, unless a fetch failed or answers crossed
\* (FocusView.tsx:65-114, useLiveObjectives.ts:51-78).
Fresh == shown = [key |-> key, ver |-> Version(key)]
ScreenCatchesUp == kind # "console" => <>[](Fresh \/ failed \/ crossed)
=============================================================================
