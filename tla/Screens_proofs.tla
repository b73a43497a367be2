--------------------------- MODULE Screens_proofs ---------------------------
(***************************************************************************)
(* What a screen shows once it is quiet, for every number of keys, events, *)
(* moves, requests and failures: what its URL names; and in the console,   *)
(* pages of one history only.                                              *)
(*                                                                         *)
(* The argument is about the request whose answer the page still waits     *)
(* for, the one that carries the present generation (Now): there is at     *)
(* most one (GenInv), an older page among them continues what is on screen *)
(* (PageInv), and unless something crossed it is for the key of the URL,   *)
(* and what is on screen is for that key when there is none (KeyInv).      *)
(*                                                                         *)
(* About the stream below it: what is on the wire continues the cursor     *)
(* (WireInv), what was seen ends there (SeenInv), and nothing of the scope *)
(* is missing from the two (CoverInv).                                     *)
(***************************************************************************)
EXTENDS Screens, FiniteSetTheorems, SequenceTheorems, WellFoundedInduction,
        TLAPS

Contents == [key : Keys \cup {All}, ver : Nat]
Asked == {"state", "topology", "history", "more", "mutate"}
Requests == [key : Keys, what : Asked, gen : Nat, ver : Nat, after : Contents]

\* The page's variables stay in their types.
PageTypeOK ==
    /\ log \in Seq(Keys)
    /\ kind \in {"focus", "board", "console"}
    /\ key \in Keys
    /\ shown \in Contents
    /\ commits \in Seq(Contents)
    /\ flight \in SUBSET Requests
    /\ gen \in Nat

Now(r) == r.gen = gen

GenInv ==
    kind # "focus" =>
        /\ gen >= 1
        /\ \A r \in flight : r.gen <= gen
        /\ \A q, r \in flight : Now(q) /\ Now(r) => q = r

KindInv ==
    /\ kind # "console" => \A r \in flight : r.what = "state"
    /\ kind = "console" => \A r \in flight : r.what # "state"
    /\ \A r \in flight : r.what = "mutate" => r.gen = 0
    /\ kind # "console" => commits = <<>>
    /\ kind # "board" => ~timer

PageInv ==
    /\ \A r \in flight : Now(r) /\ r.what = "more" =>
           Len(commits) >= 1 /\ r.after = commits[1]
    /\ \A i \in 1..Len(commits) : commits[i] = commits[1]

KeyInv ==
    ~crossed =>
        /\ kind # "focus" => \A r \in flight : Now(r) => r.key = key
        /\ kind = "console" =>
             /\ \A r \in flight : Now(r) /\ r.what \in {"history", "more"}
                    => shown.key = key
             /\ \A r \in flight : Now(r) /\ r.what = "more"
                    => commits[1].key = key
             /\ ~failed /\ (\A r \in flight : ~Now(r)) =>
                    /\ shown.key = key
                    /\ \A i \in 1..Len(commits) : commits[i].key = key
        /\ kind # "console" /\ ~failed /\ flight = {} => shown.key = key

IInv == PageTypeOK /\ GenInv /\ KindInv /\ PageInv /\ KeyInv

-----------------------------------------------------------------------------
(* Requests.                                                               *)

LEMMA Requested ==
    ASSUME NEW k \in Keys, NEW what \in Asked, NEW g \in Nat
    PROVE  /\ Request(k, what, g) \in Requests
           /\ Request(k, what, g).key = k
           /\ Request(k, what, g).what = what
           /\ Request(k, what, g).gen = g
           /\ Request(k, what, g).ver = Unread
  <1>1. Unread \in Nat /\ Nothing \in Contents
    BY StreamAssumption DEF Unread, Nothing, Contents
  <1> QED
    BY <1>1 DEF Request, Requests

LEMMA Versions ==
    ASSUME PageTypeOK, NEW k
    PROVE  Version(k) \in Nat
  <1> DEFINE S == {n \in 1..Len(log) : log[n] = k}
  <1>1. Len(log) \in Nat
    BY DEF PageTypeOK
  <1>2. IsFiniteSet(1..Len(log)) /\ S \subseteq 1..Len(log)
    BY <1>1, FS_Interval
  <1>3. IsFiniteSet(S)
    BY <1>2, FS_Subset
  <1> QED
    BY <1>3, FS_CardinalityType DEF Version

LEMMA Contained ==
    ASSUME NEW r \in Requests
    PROVE  Content(r) \in Contents /\ Content(r).key = r.key
  BY DEF Requests, Contents, Content

\* A request of a new generation is the only one of it.
LEMMA NewRequest ==
    ASSUME IInv, kind # "focus", NEW new \in Requests,
           NEW rest \in SUBSET flight, gen' = gen + 1, new.gen = gen',
           flight' = rest \cup {new}, UNCHANGED kind
    PROVE  /\ flight' \in SUBSET Requests /\ gen' \in Nat /\ GenInv'
           /\ \A r \in flight' : r.gen = gen' => r = new
           /\ new.gen = gen' /\ new \in flight'
  <1> USE DEF IInv, PageTypeOK
  <1>1. flight \in SUBSET Requests /\ gen \in Nat
    OBVIOUS
  <1>2. \A r \in flight : r.gen \in Nat /\ r.gen <= gen
    BY <1>1 DEF Requests, GenInv
  <1>3. \A r \in rest : r.gen \in Nat /\ r.gen < gen'
    BY <1>1, <1>2
  <1> QED
    BY <1>1, <1>3 DEF GenInv, Now

-----------------------------------------------------------------------------
(* The initial state, and each action.                                     *)

\* The first request is under way and nothing is shown.
LEMMA InitIInv == Init => IInv
  <1> SUFFICES ASSUME Init PROVE IInv
    OBVIOUS
  <1>1. kind \in {"focus", "board", "console"} /\ key \in Keys
    BY ScreensAssumption DEF Init
  <1>2. Nothing \in Contents /\ gen \in {0, 1}
    BY DEF Init, Nothing, Contents
  <1> DEFINE what == IF kind = "console" THEN "topology" ELSE "state"
  <1>3. what \in Asked
    BY DEF Asked
  <1>4. /\ Request(key, what, gen) \in Requests
        /\ Request(key, what, gen).key = key
        /\ Request(key, what, gen).what = what
        /\ Request(key, what, gen).gen = gen
    BY <1>1, <1>2, <1>3, Requested
  <1>5. flight = {Request(key, what, gen)}
    BY DEF Init
  <1>6. log \in Seq(Keys) /\ commits \in Seq(Contents) /\ Len(commits) = 0
    BY DEF Init, StreamInit
  <1>7. PageTypeOK
    BY <1>1, <1>2, <1>4, <1>5, <1>6 DEF Init, PageTypeOK
  <1>8. GenInv
    BY <1>4, <1>5 DEF Init, GenInv, Now
  <1>9. KindInv
    BY <1>4, <1>5 DEF Init, KindInv
  <1>10. PageInv
    BY <1>4, <1>5, <1>6 DEF PageInv
  <1>11. KeyInv
    BY <1>4, <1>5 DEF Init, KeyInv, Now
  <1> QED
    BY <1>7, <1>8, <1>9, <1>10, <1>11 DEF IInv

\* What a fetch of the Focus View's does to what is under way.
LEMMA FocusAsks ==
    ASSUME IInv, kind = "focus", FocusRefetch
    PROVE  /\ flight' \in SUBSET Requests /\ flight' # {} /\ gen' = gen
           /\ \A r \in flight' : r.what = "state"
  <1>1. key \in Keys /\ "state" \in Asked /\ flight \in SUBSET Requests
    BY DEF IInv, PageTypeOK, Asked
  <1>2. \A r \in flight : r.what = "state"
    BY DEF IInv, KindInv
  <1> QED
    BY <1>1, <1>2, Requested DEF FocusRefetch

\* A fetch of the board's for one of its keys.
LEMMA BoardAsks ==
    ASSUME IInv, kind = "board", NEW k \in Keys, BoardRefetch(k), kind' = kind
    PROVE  /\ flight' \in SUBSET Requests /\ gen' \in Nat /\ GenInv'
           /\ flight' # {}
           /\ \A r \in flight' : r.what = "state"
           /\ \A r \in flight' : r.gen = gen' => r.key = k
  <1> DEFINE new == Request(k, "state", gen')
  <1>1. gen \in Nat /\ gen' = gen + 1 /\ "state" \in Asked
    BY DEF IInv, PageTypeOK, BoardRefetch, Asked
  <1>2. new \in Requests /\ new.key = k /\ new.what = "state" /\ new.gen = gen'
    BY <1>1, Requested
  <1>3. flight' = flight \cup {new}
    BY DEF BoardRefetch
  <1>4. \A r \in flight : r.what = "state"
    BY DEF IInv, KindInv
  <1> HIDE DEF new
  <1> QED
    BY <1>1, <1>2, <1>3, <1>4, NewRequest

\* A load of the console's.
LEMMA ConsoleLoads ==
    ASSUME IInv, kind = "console", NEW k \in Keys, NEW rest \in SUBSET flight,
           Load(k, rest), kind' = kind
    PROVE  /\ flight' \in SUBSET Requests /\ gen' \in Nat /\ GenInv'
           /\ \A r \in flight' : r.what # "state"
           /\ \A r \in flight' : r.what = "mutate" => r.gen = 0
           /\ \A r \in flight' : r.gen = gen' =>
                  r.key = k /\ r.what = "topology"
           /\ \E r \in flight' : r.gen = gen'
  <1> DEFINE new == Request(k, "topology", gen')
  <1>1. gen \in Nat /\ gen' = gen + 1 /\ "topology" \in Asked
    BY DEF IInv, PageTypeOK, Load, Asked
  <1>2. new \in Requests /\ new.key = k /\ new.what = "topology"
        /\ new.gen = gen'
    BY <1>1, Requested
  <1>3. flight' = rest \cup {new}
    BY DEF Load
  <1>4. /\ \A r \in flight : r.what # "state"
        /\ \A r \in flight : r.what = "mutate" => r.gen = 0
    BY DEF IInv, KindInv
  <1> HIDE DEF new
  <1> QED
    BY <1>1, <1>2, <1>3, <1>4, NewRequest

\* An event changes the log and nothing of the page.
LEMMA Emitting ==
    ASSUME IInv, NEW k \in Keys, Emit(k), Unmoved
    PROVE  IInv'
  <1> USE DEF IInv
  <1>1. log' \in Seq(Keys)
    BY DEF Emit, PageTypeOK
  <1>2. UNCHANGED <<kind, key, shown, commits, flight, again, timer, gen,
                    failed, crossed>>
    BY DEF Unmoved, screen
  <1>3. PageTypeOK'
    BY <1>1, <1>2
       DEF PageTypeOK
  <1>4. GenInv'
    BY <1>1, <1>2
       DEF PageTypeOK, GenInv, Now
  <1>5. KindInv'
    BY <1>1, <1>2
       DEF KindInv
  <1>6. PageInv'
    BY <1>1, <1>2
       DEF PageTypeOK, GenInv, KindInv, PageInv, Now
  <1>7. KeyInv'
    BY <1>1, <1>2
       DEF PageTypeOK, GenInv, KindInv, PageInv, KeyInv, Now
  <1> QED
    BY <1>3, <1>4, <1>5, <1>6, <1>7

\* Nor does the connection.
LEMMA Connecting ==
    ASSUME IInv, Connect \/ Drop, Unmoved
    PROVE  IInv'
  <1> USE DEF IInv
  <1>1. UNCHANGED <<log, kind, key, shown, commits, flight, again, timer, gen,
                    failed, crossed>>
    BY DEF Unmoved, screen, Connect, Drop
  <1>2. PageTypeOK'
    BY <1>1
       DEF PageTypeOK
  <1>3. GenInv'
    BY <1>1
       DEF PageTypeOK, GenInv, Now
  <1>4. KindInv'
    BY <1>1
       DEF KindInv
  <1>5. PageInv'
    BY <1>1
       DEF PageTypeOK, GenInv, KindInv, PageInv, Now
  <1>6. KeyInv'
    BY <1>1
       DEF PageTypeOK, GenInv, KindInv, PageInv, KeyInv, Now
  <1> QED
    BY <1>2, <1>3, <1>4, <1>5, <1>6

\* A message makes the page fetch, or its timer run.
LEMMA Messaging ==
    ASSUME IInv, Message
    PROVE  IInv'
  <1> USE DEF IInv
  <1>1. /\ UNCHANGED <<log, kind, key, shown, commits, crossed>>
        /\ kind # "console"
    BY DEF Message, Receive
  <1>2. CASE kind = "focus"
    <2>1. /\ flight' \in SUBSET Requests /\ flight' # {} /\ gen' = gen
          /\ \A r \in flight' : r.what = "state"
      BY <1>2, FocusAsks DEF Message
    <2>2. UNCHANGED timer
      BY <1>2 DEF Message
    <2>3. PageTypeOK'
      BY <1>1, <1>2, <2>1, <2>2
         DEF PageTypeOK
    <2>4. GenInv'
      BY <1>1, <1>2, <2>1, <2>2
         DEF PageTypeOK, GenInv, Now
    <2>5. KindInv'
      BY <1>1, <1>2, <2>1, <2>2
         DEF KindInv, PageTypeOK, Requests
    <2>6. PageInv'
      BY <1>1, <1>2, <2>1, <2>2
         DEF PageTypeOK, GenInv, KindInv, PageInv, Now
    <2>7. KeyInv'
      BY <1>1, <1>2, <2>1, <2>2
         DEF PageTypeOK, GenInv, KindInv, PageInv, KeyInv, Now
    <2> QED
      BY <2>3, <2>4, <2>5, <2>6, <2>7
  <1>3. CASE kind # "focus"
    <2>1. UNCHANGED <<flight, again, gen, failed>> /\ timer' = TRUE
      BY <1>3 DEF Message
    <2>2. kind = "board"
      BY <1>1, <1>3 DEF PageTypeOK
    <2>3. PageTypeOK'
      BY <1>1, <1>3, <2>1, <2>2
         DEF PageTypeOK
    <2>4. GenInv'
      BY <1>1, <1>3, <2>1, <2>2
         DEF PageTypeOK, GenInv, Now
    <2>5. KindInv'
      BY <1>1, <1>3, <2>1, <2>2
         DEF KindInv
    <2>6. PageInv'
      BY <1>1, <1>3, <2>1, <2>2
         DEF PageTypeOK, GenInv, KindInv, PageInv, Now
    <2>7. KeyInv'
      BY <1>1, <1>3, <2>1, <2>2
         DEF PageTypeOK, GenInv, KindInv, PageInv, KeyInv, Now
    <2> QED
      BY <2>3, <2>4, <2>5, <2>6, <2>7
  <1> QED
    BY <1>2, <1>3

\* The board's timer makes it fetch.
LEMMA Firing ==
    ASSUME IInv, TimerFires
    PROVE  IInv'
  <1> USE DEF IInv
  <1>1. UNCHANGED <<log, kind, key, shown, commits, failed, crossed>>
        /\ timer' = FALSE /\ timer
    BY DEF TimerFires, streamVars
  <1>2. kind = "board" /\ key \in Keys
    BY <1>1 DEF KindInv, PageTypeOK
  <1>3. /\ flight' \in SUBSET Requests /\ gen' \in Nat /\ GenInv'
        /\ flight' # {}
        /\ \A r \in flight' : r.what = "state"
        /\ \A r \in flight' : r.gen = gen' => r.key = key
    BY <1>1, <1>2, BoardAsks DEF TimerFires
  <1>4. PageTypeOK'
    BY <1>1, <1>2, <1>3
       DEF PageTypeOK
  <1>5. GenInv'
    BY <1>1, <1>2, <1>3
       DEF PageTypeOK, GenInv, Now
  <1>6. KindInv'
    BY <1>1, <1>2, <1>3
       DEF KindInv, PageTypeOK, Requests
  <1>7. PageInv'
    BY <1>1, <1>2, <1>3
       DEF PageTypeOK, GenInv, KindInv, PageInv, Now
  <1>8. KeyInv'
    BY <1>1, <1>2, <1>3
       DEF PageTypeOK, GenInv, KindInv, PageInv, KeyInv, Now
  <1> QED
    BY <1>4, <1>5, <1>6, <1>7, <1>8

\* A command or an alt-tab asks for what the screen shows.
LEMMA Poking ==
    ASSUME IInv, Poke
    PROVE  IInv'
  <1> USE DEF IInv
  <1>1. UNCHANGED <<log, kind, key, shown, commits, timer, crossed>> /\ Ask(key)
        /\ key \in Keys
    BY DEF Poke, streamVars, PageTypeOK
  <1>2. CASE kind = "focus"
    <2>1. /\ flight' \in SUBSET Requests /\ flight' # {} /\ gen' = gen
          /\ \A r \in flight' : r.what = "state"
      BY <1>1, <1>2, FocusAsks DEF Ask
    <2>2. PageTypeOK'
      BY <1>1, <1>2, <2>1
         DEF PageTypeOK
    <2>3. GenInv'
      BY <1>1, <1>2, <2>1
         DEF PageTypeOK, GenInv, Now
    <2>4. KindInv'
      BY <1>1, <1>2, <2>1
         DEF KindInv
    <2>5. PageInv'
      BY <1>1, <1>2, <2>1
         DEF PageTypeOK, GenInv, KindInv, PageInv, Now
    <2>6. KeyInv'
      BY <1>1, <1>2, <2>1
         DEF PageTypeOK, GenInv, KindInv, PageInv, KeyInv, Now
    <2> QED
      BY <2>2, <2>3, <2>4, <2>5, <2>6
  <1>3. CASE kind = "board"
    <2>1. /\ flight' \in SUBSET Requests /\ gen' \in Nat /\ GenInv'
          /\ flight' # {}
          /\ \A r \in flight' : r.what = "state"
          /\ \A r \in flight' : r.gen = gen' => r.key = key
      BY <1>1, <1>3, BoardAsks DEF Ask
    <2>2. PageTypeOK'
      BY <1>1, <1>3, <2>1
         DEF PageTypeOK
    <2>3. GenInv'
      BY <1>1, <1>3, <2>1
         DEF PageTypeOK, GenInv, Now
    <2>4. KindInv'
      BY <1>1, <1>3, <2>1
         DEF KindInv
    <2>5. PageInv'
      BY <1>1, <1>3, <2>1
         DEF PageTypeOK, GenInv, KindInv, PageInv, Now
    <2>6. KeyInv'
      BY <1>1, <1>3, <2>1
         DEF PageTypeOK, GenInv, KindInv, PageInv, KeyInv, Now
    <2> QED
      BY <2>2, <2>3, <2>4, <2>5, <2>6
  <1>4. CASE kind = "console"
    <2>1. /\ flight' \in SUBSET Requests /\ gen' \in Nat /\ GenInv'
          /\ \A r \in flight' : r.what # "state"
          /\ \A r \in flight' : r.what = "mutate" => r.gen = 0
          /\ \A r \in flight' : r.gen = gen' =>
                 r.key = key /\ r.what = "topology"
          /\ \E r \in flight' : r.gen = gen'
      <3>1. Load(key, flight)
        BY <1>1, <1>4 DEF Ask
      <3> QED
        BY <1>1, <1>4, <3>1, ConsoleLoads
    <2>2. PageTypeOK'
      BY <1>1, <1>4, <2>1
         DEF PageTypeOK
    <2>3. GenInv'
      BY <1>1, <1>4, <2>1
         DEF PageTypeOK, GenInv, Now
    <2>4. KindInv'
      BY <1>1, <1>4, <2>1
         DEF KindInv
    <2>5. PageInv'
      BY <1>1, <1>4, <2>1
         DEF PageTypeOK, GenInv, KindInv, PageInv, Now
    <2>6. KeyInv'
      BY <1>1, <1>4, <2>1
         DEF PageTypeOK, GenInv, KindInv, PageInv, KeyInv, Now
    <2> QED
      BY <2>2, <2>3, <2>4, <2>5, <2>6
  <1> QED
    BY <1>2, <1>3, <1>4 DEF PageTypeOK

\* Another key: the page asks for it, or owes the question.
LEMMA Going ==
    ASSUME IInv, NEW k \in Keys, Move(k)
    PROVE  IInv'
  <1> USE DEF IInv
  <1>1. UNCHANGED <<log, kind, commits, crossed>> /\ key' = k
    BY DEF Move
  <1>2. CASE kind = "focus"
    <2>1. /\ UNCHANGED <<shown, timer, gen, failed>>
          /\ \/ flight # {} /\ UNCHANGED flight
             \/ flight' = {Request(k, "state", 0)}
      BY <1>2 DEF Move
    <2> DEFINE new == Request(k, "state", 0)
    <2>2. new \in Requests /\ new.what = "state"
      <3>1. "state" \in Asked /\ 0 \in Nat /\ k \in Keys
        BY DEF Asked
      <3> QED
        BY <3>1, Requested
    <2>3. \/ flight # {} /\ UNCHANGED flight
          \/ flight' = {new}
      BY <2>1
    <2> HIDE DEF new
    <2>4. /\ flight' \in SUBSET Requests /\ flight' # {}
          /\ \A r \in flight' : r.what = "state"
      BY <1>2, <2>2, <2>3 DEF PageTypeOK, KindInv
    <2>5. PageTypeOK'
      BY <1>1, <1>2, <2>1, <2>4
         DEF PageTypeOK
    <2>6. GenInv'
      BY <1>1, <1>2, <2>1, <2>4
         DEF PageTypeOK, GenInv, Now
    <2>7. KindInv'
      BY <1>1, <1>2, <2>1, <2>4
         DEF KindInv
    <2>8. PageInv'
      BY <1>1, <1>2, <2>1, <2>4
         DEF PageTypeOK, GenInv, KindInv, PageInv, Now
    <2>9. KeyInv'
      BY <1>1, <1>2, <2>1, <2>4
         DEF PageTypeOK, GenInv, KindInv, PageInv, KeyInv, Now
    <2> QED
      BY <2>5, <2>6, <2>7, <2>8, <2>9
  <1>3. CASE kind = "board"
    <2>1. BoardRefetch(k) /\ shown' = Nothing /\ timer' = FALSE
      BY <1>3 DEF Move
    <2>2. /\ flight' \in SUBSET Requests /\ gen' \in Nat /\ GenInv'
          /\ flight' # {}
          /\ \A r \in flight' : r.what = "state"
          /\ \A r \in flight' : r.gen = gen' => r.key = k
      BY <1>1, <1>3, <2>1, BoardAsks
    <2>3. Nothing \in Contents
      BY DEF Nothing, Contents
    <2>4. PageTypeOK'
      BY <1>1, <1>3, <2>1, <2>2, <2>3
         DEF PageTypeOK
    <2>5. GenInv'
      BY <1>1, <1>3, <2>1, <2>2, <2>3
         DEF PageTypeOK, GenInv, Now
    <2>6. KindInv'
      BY <1>1, <1>3, <2>1, <2>2, <2>3
         DEF KindInv
    <2>7. PageInv'
      BY <1>1, <1>3, <2>1, <2>2, <2>3
         DEF PageTypeOK, GenInv, KindInv, PageInv, Now
    <2>8. KeyInv'
      BY <1>1, <1>3, <2>1, <2>2, <2>3
         DEF PageTypeOK, GenInv, KindInv, PageInv, KeyInv, Now
    <2> QED
      BY <2>4, <2>5, <2>6, <2>7, <2>8
  <1>4. CASE kind = "console"
    <2>1. Load(k, flight) /\ UNCHANGED <<shown, timer>>
      BY <1>4 DEF Move
    <2>2. /\ flight' \in SUBSET Requests /\ gen' \in Nat /\ GenInv'
          /\ \A r \in flight' : r.what # "state"
          /\ \A r \in flight' : r.what = "mutate" => r.gen = 0
          /\ \A r \in flight' : r.gen = gen' => r.key = k /\ r.what = "topology"
          /\ \E r \in flight' : r.gen = gen'
      BY <1>1, <1>4, <2>1, ConsoleLoads
    <2>3. PageTypeOK'
      BY <1>1, <1>4, <2>1, <2>2
         DEF PageTypeOK
    <2>4. GenInv'
      BY <1>1, <1>4, <2>1, <2>2
         DEF PageTypeOK, GenInv, Now
    <2>5. KindInv'
      BY <1>1, <1>4, <2>1, <2>2
         DEF KindInv
    <2>6. PageInv'
      BY <1>1, <1>4, <2>1, <2>2
         DEF PageTypeOK, GenInv, KindInv, PageInv, Now
    <2>7. KeyInv'
      BY <1>1, <1>4, <2>1, <2>2
         DEF PageTypeOK, GenInv, KindInv, PageInv, KeyInv, Now
    <2> QED
      BY <2>3, <2>4, <2>5, <2>6, <2>7
  <1> QED
    BY <1>2, <1>3, <1>4 DEF PageTypeOK

\* An older page is asked for behind the page on screen.
LEMMA LoadingMore ==
    ASSUME IInv, LoadMore
    PROVE  IInv'
  <1> USE DEF IInv
  <1>1. /\ UNCHANGED <<log, kind, key, shown, commits, timer, failed>>
        /\ kind = "console" /\ commits # <<>> /\ gen' = gen + 1
        /\ crossed' = (crossed \/ Last(commits).key # key \/ shown.key # key)
    BY DEF LoadMore, streamVars
  <1>2. /\ commits \in Seq(Contents) /\ Len(commits) \in Nat
        /\ Len(commits) >= 1 /\ Last(commits) = commits[1]
        /\ commits[1] \in Contents
    BY <1>1 DEF PageTypeOK, PageInv, Last
  <1> DEFINE asked == Request(key, "more", gen')
             new == [asked EXCEPT !.after = Last(commits)]
  <1>3. /\ asked \in Requests /\ asked.key = key /\ asked.what = "more"
        /\ asked.gen = gen'
    BY <1>1, Requested DEF PageTypeOK, Asked
  <1> HIDE DEF asked
  <1>4. /\ new \in Requests /\ new.key = key /\ new.what = "more"
        /\ new.gen = gen' /\ new.after = commits[1]
    BY <1>2, <1>3 DEF Requests
  <1>5. flight' = flight \cup {new}
    BY DEF LoadMore, asked
  <1> HIDE DEF new
  <1>6. /\ flight' \in SUBSET Requests /\ gen' \in Nat /\ GenInv'
        /\ \A r \in flight' : r.gen = gen' => r = new
        /\ new.gen = gen' /\ new \in flight'
    BY <1>1, <1>4, <1>5, flight \in SUBSET flight, NewRequest
  <1>7. PageTypeOK'
    BY <1>1, <1>2, <1>4, <1>5, <1>6
       DEF PageTypeOK
  <1>8. GenInv'
    BY <1>1, <1>2, <1>4, <1>5, <1>6
       DEF PageTypeOK, GenInv, Now
  <1>9. KindInv'
    BY <1>1, <1>2, <1>4, <1>5, <1>6
       DEF KindInv
  <1>10. PageInv'
    BY <1>1, <1>2, <1>4, <1>5, <1>6
       DEF PageTypeOK, GenInv, KindInv, PageInv, Now
  <1>11. KeyInv'
    BY <1>1, <1>2, <1>4, <1>5, <1>6
       DEF PageTypeOK, GenInv, KindInv, PageInv, KeyInv, Now
  <1> QED
    BY <1>7, <1>8, <1>9, <1>10, <1>11

\* A git operation is sent; it is of no generation.
LEMMA Mutating ==
    ASSUME IInv, Mutate
    PROVE  IInv'
  <1> USE DEF IInv
  <1>1. /\ UNCHANGED <<log, kind, key, shown, commits, timer, gen, failed,
                       crossed>>
        /\ kind = "console" /\ flight' = flight \cup {Request(key, "mutate", 0)}
    BY DEF Mutate, streamVars
  <1> DEFINE new == Request(key, "mutate", 0)
  <1>2. /\ new \in Requests /\ new.key = key /\ new.what = "mutate"
        /\ new.gen = 0
    BY Requested DEF PageTypeOK, Asked
  <1>3. flight' = flight \cup {new}
    BY <1>1
  <1> HIDE DEF new
  <1>4. PageTypeOK'
    BY <1>1, <1>2, <1>3
       DEF PageTypeOK
  <1>5. GenInv'
    BY <1>1, <1>2, <1>3
       DEF PageTypeOK, GenInv, Now
  <1>6. KindInv'
    BY <1>1, <1>2, <1>3
       DEF KindInv
  <1>7. PageInv'
    BY <1>1, <1>2, <1>3
       DEF PageTypeOK, GenInv, KindInv, PageInv, Now
  <1>8. KeyInv'
    BY <1>1, <1>2, <1>3
       DEF PageTypeOK, GenInv, KindInv, PageInv, KeyInv, Now
  <1> QED
    BY <1>4, <1>5, <1>6, <1>7, <1>8

\* The server's answer changes what a request carries and nothing else.
LEMMA Answering ==
    ASSUME IInv, NEW r \in flight, Answer(r)
    PROVE  IInv'
  <1> USE DEF IInv
  <1> DEFINE new == [r EXCEPT !.ver = Version(r.key)]
  <1>1. /\ UNCHANGED <<log, kind, key, shown, commits, timer, gen, failed,
                       crossed>>
        /\ flight' = (flight \ {r}) \cup {new}
    BY DEF Answer, streamVars
  <1>2. r \in Requests
    BY DEF PageTypeOK
  <1>3. /\ new \in Requests /\ new.key = r.key /\ new.what = r.what
        /\ new.gen = r.gen /\ new.after = r.after
    BY <1>2, Versions DEF Requests
  <1> HIDE DEF new
  <1>4. PageTypeOK'
    BY <1>1, <1>2, <1>3
       DEF PageTypeOK
  <1>5. GenInv'
    BY <1>1, <1>2, <1>3
       DEF PageTypeOK, GenInv, Now
  <1>6. KindInv'
    BY <1>1, <1>2, <1>3
       DEF KindInv
  <1>7. PageInv'
    BY <1>1, <1>2, <1>3
       DEF PageTypeOK, GenInv, KindInv, PageInv, Now
  <1>8. KeyInv'
    BY <1>1, <1>2, <1>3
       DEF PageTypeOK, GenInv, KindInv, PageInv, KeyInv, Now
  <1> QED
    BY <1>4, <1>5, <1>6, <1>7, <1>8

\* The Focus View shows the answer of the only fetch there is.
LEMMA FocusApplying ==
    ASSUME IInv, NEW r \in flight, NEW o \in Outcomes, FocusApplies(r, o),
           UNCHANGED <<streamVars, kind, key, timer>>
    PROVE  IInv'
  <1> USE DEF IInv
  <1>1. UNCHANGED <<log, kind, key, timer>> /\ r \in Requests
    BY DEF PageTypeOK, streamVars
  <1>2. Content(r) \in Contents /\ Content(r).key = r.key
    BY <1>1, Contained
  <1>3. /\ kind = "focus" /\ UNCHANGED <<commits, gen>>
        /\ shown' = IF o = "ok" THEN Content(r) ELSE shown
        /\ failed' = (o = "error")
        /\ flight' = IF again THEN {Request(r.key, "state", 0)} ELSE {}
        /\ crossed' = (crossed \/ r.key # key)
    BY DEF FocusApplies, Owed
  <1>4. o \in {"ok", "error"}
    BY DEF Outcomes
  <1>5. r.key \in Keys /\ shown' \in Contents
    BY <1>1, <1>2, <1>3 DEF Requests, PageTypeOK
  <1>6. /\ flight' \in SUBSET Requests
        /\ \A q \in flight' : q.what = "state"
    BY <1>3, <1>5, Requested DEF Asked
  <1>7. PageTypeOK'
    BY <1>1, <1>2, <1>3, <1>4, <1>5, <1>6
       DEF PageTypeOK
  <1>8. GenInv'
    BY <1>1, <1>2, <1>3, <1>4, <1>5, <1>6
       DEF PageTypeOK, GenInv, Now
  <1>9. KindInv'
    BY <1>1, <1>2, <1>3, <1>4, <1>5, <1>6
       DEF KindInv
  <1>10. PageInv'
    BY <1>1, <1>2, <1>3, <1>4, <1>5, <1>6
       DEF PageTypeOK, GenInv, KindInv, PageInv, Now
  <1>11. KeyInv'
    BY <1>1, <1>2, <1>3, <1>4, <1>5, <1>6
       DEF PageTypeOK, GenInv, KindInv, PageInv, KeyInv, Now
  <1> QED
    BY <1>7, <1>8, <1>9, <1>10, <1>11

\* The board shows whichever answer comes.
LEMMA BoardApplying ==
    ASSUME IInv, NEW r \in flight, NEW o \in Outcomes, BoardApplies(r, o),
           UNCHANGED <<streamVars, kind, key, timer>>
    PROVE  IInv'
  <1> USE DEF IInv
  <1>1. UNCHANGED <<log, kind, key, timer>> /\ r \in Requests
    BY DEF PageTypeOK, streamVars
  <1>2. Content(r) \in Contents /\ Content(r).key = r.key
    BY <1>1, Contained
  <1>3. /\ kind = "board" /\ UNCHANGED <<commits, gen>>
        /\ shown' = IF o = "ok" THEN Content(r) ELSE shown
        /\ failed' = (o = "error")
        /\ flight' = flight \ {r}
        /\ crossed' = (crossed \/ \A q \in flight : q.gen # gen)
    BY DEF BoardApplies
  <1>4. o \in {"ok", "error"}
    BY DEF Outcomes
  <1>5. shown' \in Contents
    BY <1>2, <1>3 DEF PageTypeOK
  <1>6. PageTypeOK'
    BY <1>1, <1>2, <1>3, <1>4, <1>5
       DEF PageTypeOK
  <1>7. GenInv'
    BY <1>1, <1>2, <1>3, <1>4, <1>5
       DEF PageTypeOK, GenInv, Now
  <1>8. KindInv'
    BY <1>1, <1>2, <1>3, <1>4, <1>5
       DEF KindInv
  <1>9. PageInv'
    BY <1>1, <1>2, <1>3, <1>4, <1>5
       DEF PageTypeOK, GenInv, KindInv, PageInv, Now
  <1>10. KeyInv'
    BY <1>1, <1>2, <1>3, <1>4, <1>5
       DEF PageTypeOK, GenInv, KindInv, PageInv, KeyInv, Now
  <1> QED
    BY <1>6, <1>7, <1>8, <1>9, <1>10

\* The console shows the steps of its last load only.
LEMMA LoadApplying ==
    ASSUME IInv, NEW r \in flight, NEW o \in Outcomes, LoadApplies(r, o),
           UNCHANGED <<streamVars, kind, key, timer>>
    PROVE  IInv'
  <1> USE DEF IInv
  <1>1. UNCHANGED <<log, kind, key, timer>> /\ r \in Requests
    BY DEF PageTypeOK, streamVars
  <1>2. Content(r) \in Contents /\ Content(r).key = r.key
    BY <1>1, Contained
  <1>3. /\ kind = "console" /\ UNCHANGED <<gen, crossed>>
        /\ r.what \in {"topology", "history"}
    BY DEF LoadApplies
  <1>4. o \in {"ok", "error"}
    BY DEF Outcomes
  <1>5. Nothing \in Contents /\ Len(<<>>) = 0 /\ <<>> \in Seq(Contents)
    BY DEF Nothing, Contents
  <1>6. CASE ~Now(r)
    <2>1. flight' = flight \ {r} /\ UNCHANGED <<shown, commits, failed>>
      BY <1>6 DEF LoadApplies, Current, Now
    <2>2. PageTypeOK'
      BY <1>1, <1>3, <1>6, <2>1
         DEF PageTypeOK
    <2>3. GenInv'
      BY <1>1, <1>3, <1>6, <2>1
         DEF PageTypeOK, GenInv, Now
    <2>4. KindInv'
      BY <1>1, <1>3, <1>6, <2>1
         DEF KindInv
    <2>5. PageInv'
      BY <1>1, <1>3, <1>6, <2>1
         DEF PageTypeOK, GenInv, KindInv, PageInv, Now
    <2>6. KeyInv'
      BY <1>1, <1>3, <1>6, <2>1
         DEF PageTypeOK, GenInv, KindInv, PageInv, KeyInv, Now
    <2> QED
      BY <2>2, <2>3, <2>4, <2>5, <2>6
  <1>7. CASE Now(r) /\ r.what = "topology" /\ o = "ok"
    <2> DEFINE new == Request(r.key, "history", r.gen)
    <2>1. /\ shown' = Content(r) /\ UNCHANGED <<commits, failed>>
          /\ flight' = (flight \ {r}) \cup {new}
      BY <1>7 DEF LoadApplies, Current, Now
    <2>2. /\ new \in Requests /\ new.key = r.key /\ new.what = "history"
          /\ new.gen = r.gen
      BY <1>1, Requested DEF Requests, Asked
    <2> HIDE DEF new
    <2>3. PageTypeOK'
      BY <1>1, <1>2, <1>3, <1>7, <2>1, <2>2
         DEF PageTypeOK
    <2>4. GenInv'
      BY <1>1, <1>2, <1>3, <1>7, <2>1, <2>2
         DEF PageTypeOK, GenInv, Now
    <2>5. KindInv'
      BY <1>1, <1>2, <1>3, <1>7, <2>1, <2>2
         DEF KindInv
    <2>6. PageInv'
      BY <1>1, <1>2, <1>3, <1>7, <2>1, <2>2
         DEF PageTypeOK, GenInv, KindInv, PageInv, Now
    <2>7. KeyInv'
      BY <1>1, <1>2, <1>3, <1>7, <2>1, <2>2
         DEF PageTypeOK, GenInv, KindInv, PageInv, KeyInv, Now
    <2> QED
      BY <2>3, <2>4, <2>5, <2>6, <2>7
  <1>8. CASE Now(r) /\ r.what = "topology" /\ o = "error"
    <2>1. /\ shown' = Nothing /\ commits' = <<>> /\ failed' = TRUE
          /\ flight' = flight \ {r}
      BY <1>8 DEF LoadApplies, Current, Now
    <2>2. PageTypeOK'
      BY <1>1, <1>3, <1>5, <1>8, <2>1
         DEF PageTypeOK
    <2>3. GenInv'
      BY <1>1, <1>3, <1>5, <1>8, <2>1
         DEF PageTypeOK, GenInv, Now
    <2>4. KindInv'
      BY <1>1, <1>3, <1>5, <1>8, <2>1
         DEF KindInv
    <2>5. PageInv'
      BY <1>1, <1>3, <1>5, <1>8, <2>1
         DEF PageTypeOK, GenInv, KindInv, PageInv, Now
    <2>6. KeyInv'
      BY <1>1, <1>3, <1>5, <1>8, <2>1
         DEF PageTypeOK, GenInv, KindInv, PageInv, KeyInv, Now
    <2> QED
      BY <2>2, <2>3, <2>4, <2>5, <2>6
  <1>9. CASE Now(r) /\ r.what = "history"
    <2>1. /\ commits' = IF o = "ok" THEN <<Content(r)>> ELSE <<>>
          /\ failed' = (o = "error")
          /\ flight' = flight \ {r} /\ UNCHANGED shown
      BY <1>9 DEF LoadApplies, Current, Now
    <2>2. /\ commits' \in Seq(Contents) /\ Len(commits') \in {0, 1}
          /\ Len(commits') = 1 => commits'[1].key = r.key
      BY <1>2, <1>5, <2>1
    <2>3. PageTypeOK'
      BY <1>1, <1>3, <1>4, <1>9, <2>1, <2>2
         DEF PageTypeOK
    <2>4. GenInv'
      BY <1>1, <1>3, <1>4, <1>9, <2>1, <2>2
         DEF PageTypeOK, GenInv, Now
    <2>5. KindInv'
      BY <1>1, <1>3, <1>4, <1>9, <2>1, <2>2
         DEF KindInv
    <2>6. PageInv'
      BY <1>1, <1>3, <1>4, <1>9, <2>1, <2>2
         DEF PageTypeOK, GenInv, KindInv, PageInv, Now
    <2>7. KeyInv'
      BY <1>1, <1>3, <1>4, <1>9, <2>1, <2>2
         DEF PageTypeOK, GenInv, KindInv, PageInv, KeyInv, Now
    <2> QED
      BY <2>3, <2>4, <2>5, <2>6, <2>7
  <1> QED
    BY <1>3, <1>4, <1>6, <1>7, <1>8, <1>9

\* An older page lands behind the page it continues, or not at all.
LEMMA MoreApplying ==
    ASSUME IInv, NEW r \in flight, NEW o \in Outcomes, MoreApplies(r, o),
           UNCHANGED <<streamVars, kind, key, timer>>
    PROVE  IInv'
  <1> USE DEF IInv
  <1>1. UNCHANGED <<log, kind, key, timer>> /\ r \in Requests
    BY DEF PageTypeOK, streamVars
  <1>2. Content(r) \in Contents /\ Content(r).key = r.key
    BY <1>1, Contained
  <1>3. /\ UNCHANGED <<shown, gen, crossed>> /\ flight' = flight \ {r}
        /\ r.what = "more" /\ kind = "console"
    BY DEF MoreApplies, KindInv, PageTypeOK
  <1>4. CASE UNCHANGED <<commits, failed>> /\ ~Now(r)
    <2>1. PageTypeOK'
      BY <1>1, <1>3, <1>4
         DEF PageTypeOK
    <2>2. GenInv'
      BY <1>1, <1>3, <1>4
         DEF PageTypeOK, GenInv, Now
    <2>3. KindInv'
      BY <1>1, <1>3, <1>4
         DEF KindInv
    <2>4. PageInv'
      BY <1>1, <1>3, <1>4
         DEF PageTypeOK, GenInv, KindInv, PageInv, Now
    <2>5. KeyInv'
      BY <1>1, <1>3, <1>4
         DEF PageTypeOK, GenInv, KindInv, PageInv, KeyInv, Now
    <2> QED
      BY <2>1, <2>2, <2>3, <2>4, <2>5
  <1>5. CASE Now(r) /\ failed' = TRUE /\ UNCHANGED commits
    <2>1. PageTypeOK'
      BY <1>1, <1>3, <1>5
         DEF PageTypeOK
    <2>2. GenInv'
      BY <1>1, <1>3, <1>5
         DEF PageTypeOK, GenInv, Now
    <2>3. KindInv'
      BY <1>1, <1>3, <1>5
         DEF KindInv
    <2>4. PageInv'
      BY <1>1, <1>3, <1>5
         DEF PageTypeOK, GenInv, KindInv, PageInv, Now
    <2>5. KeyInv'
      BY <1>1, <1>3, <1>5
         DEF PageTypeOK, GenInv, KindInv, PageInv, KeyInv, Now
    <2> QED
      BY <2>1, <2>2, <2>3, <2>4, <2>5
  <1>6. CASE Now(r) /\ UNCHANGED failed /\ commits' = Append(commits, r.after)
    <2>1. /\ commits \in Seq(Contents) /\ r.after = commits[1]
          /\ Len(commits) \in Nat /\ Len(commits) >= 1
          /\ commits[1] \in Contents
      BY <1>3, <1>6 DEF PageInv, PageTypeOK
    <2>2. /\ commits' \in Seq(Contents) /\ Len(commits') = Len(commits) + 1
          /\ \A i \in 1..Len(commits) : commits'[i] = commits[i]
          /\ commits'[Len(commits) + 1] = commits[1]
      BY <1>6, <2>1, AppendProperties
    <2>3. \A i \in 1..Len(commits') : commits'[i] = commits[1]
      BY <2>1, <2>2 DEF PageInv
    <2>4. commits'[1] = commits[1]
      BY <2>1, <2>2
    <2>5. PageTypeOK'
      BY <1>1, <1>3, <1>6, <2>1, <2>2, <2>3, <2>4
         DEF PageTypeOK
    <2>6. GenInv'
      BY <1>1, <1>3, <1>6, <2>1, <2>2, <2>3, <2>4
         DEF PageTypeOK, GenInv, Now
    <2>7. KindInv'
      BY <1>1, <1>3, <1>6, <2>1, <2>2, <2>3, <2>4
         DEF KindInv
    <2>8. PageInv'
      BY <1>1, <1>3, <1>6, <2>1, <2>2, <2>3, <2>4
         DEF PageTypeOK, GenInv, KindInv, PageInv, Now
    <2>9. KeyInv'
      BY <1>1, <1>3, <1>6, <2>1, <2>2, <2>3, <2>4
         DEF PageTypeOK, GenInv, KindInv, PageInv, KeyInv, Now
    <2> QED
      BY <2>5, <2>6, <2>7, <2>8, <2>9
  <1> QED
    BY <1>4, <1>5, <1>6 DEF MoreApplies, Current, Now

\* The end of an operation loads the project it was sent to.
LEMMA MutationApplying ==
    ASSUME IInv, NEW r \in flight, NEW o \in Outcomes, MutateApplies(r),
           UNCHANGED <<streamVars, kind, key, timer>>
    PROVE  IInv'
  <1> USE DEF IInv
  <1>1. UNCHANGED <<log, kind, key, timer>> /\ r \in Requests
    BY DEF PageTypeOK, streamVars
  <1>2. Content(r) \in Contents /\ Content(r).key = r.key
    BY <1>1, Contained
  <1>3. /\ UNCHANGED <<shown, commits>> /\ failed' = FALSE
        /\ crossed' = (crossed \/ r.key # key)
        /\ r.what = "mutate" /\ kind = "console" /\ Load(r.key, flight \ {r})
    BY DEF MutateApplies, KindInv, PageTypeOK
  <1>4. r.key \in Keys
    BY <1>1 DEF Requests
  <1>5. /\ flight' \in SUBSET Requests /\ gen' \in Nat /\ GenInv'
        /\ \A q \in flight' : q.what # "state"
        /\ \A q \in flight' : q.what = "mutate" => q.gen = 0
        /\ \A q \in flight' : q.gen = gen' =>
               q.key = r.key /\ q.what = "topology"
        /\ \E q \in flight' : q.gen = gen'
    BY <1>1, <1>3, <1>4, ConsoleLoads
  <1>6. PageTypeOK'
    BY <1>1, <1>3, <1>4, <1>5
       DEF PageTypeOK
  <1>7. GenInv'
    BY <1>1, <1>3, <1>4, <1>5
       DEF PageTypeOK, GenInv, Now
  <1>8. KindInv'
    BY <1>1, <1>3, <1>4, <1>5
       DEF KindInv
  <1>9. PageInv'
    BY <1>1, <1>3, <1>4, <1>5
       DEF PageTypeOK, GenInv, KindInv, PageInv, Now
  <1>10. KeyInv'
    BY <1>1, <1>3, <1>4, <1>5
       DEF PageTypeOK, GenInv, KindInv, PageInv, KeyInv, Now
  <1> QED
    BY <1>6, <1>7, <1>8, <1>9, <1>10

\* Every step keeps the invariant.
LEMMA StepIInv == IInv /\ [Next]_vars => IInv'
  <1> SUFFICES ASSUME IInv, [Next]_vars PROVE IInv'
    OBVIOUS
  <1>1. ASSUME NEW k \in Keys, Emit(k) /\ Unmoved PROVE IInv'
    BY <1>1, Emitting
  <1>2. CASE (Connect \/ Drop) /\ Unmoved
    BY <1>2, Connecting
  <1>3. CASE Message \/ TimerFires \/ Poke \/ LoadMore \/ Mutate
    BY <1>3, Messaging, Firing, Poking, LoadingMore, Mutating
  <1>4. ASSUME NEW k \in Keys, Move(k) PROVE IInv'
    BY <1>4, Going
  <1>5. ASSUME NEW r \in flight, Answer(r) PROVE IInv'
    BY <1>5, Answering
  <1>6. ASSUME NEW r \in flight, Apply(r) PROVE IInv'
    <2>1. PICK o \in Outcomes :
            \/ FocusApplies(r, o) \/ BoardApplies(r, o)
            \/ LoadApplies(r, o) \/ MoreApplies(r, o) \/ MutateApplies(r)
      BY <1>6 DEF Apply
    <2>2. UNCHANGED <<streamVars, kind, key, timer>>
      BY <1>6 DEF Apply
    <2> QED
      BY <2>1, <2>2, FocusApplying, BoardApplying, LoadApplying, MoreApplying,
         MutationApplying
  <1>7. CASE UNCHANGED vars
    <2>1. UNCHANGED <<log, kind, key, shown, commits, flight, again, timer, gen,
                    failed, crossed>>
      BY <1>7 DEF vars, streamVars, screen
    <2> QED
      BY <2>1 DEF IInv, PageTypeOK, GenInv, KindInv, PageInv, KeyInv, Now
  <1> QED
    BY <1>1, <1>2, <1>3, <1>4, <1>5, <1>6, <1>7 DEF Next

\* The invariant holds throughout.
LEMMA Inductive == Spec => []IInv
  BY InitIInv, StepIInv, PTL DEF Spec

-----------------------------------------------------------------------------
(* The event stream: putting ids in order.                                 *)

LEMMA FiniteIds ==
    ASSUME NEW n \in Nat, NEW S \in SUBSET (1..n)
    PROVE  IsFiniteSet(S) /\ Cardinality(S) \in Nat
  <1>1. IsFiniteSet(1..n)
    BY FS_Interval
  <1>2. IsFiniteSet(S)
    BY <1>1, FS_Subset
  <1> QED
    BY <1>2, FS_CardinalityType

\* Every set of numbers up to a bound can be put in order: the least bound of
\* which that were not so would be one more than a bound of which it is.
LEMMA OrderExists ==
    ASSUME NEW n \in Nat, NEW S \in SUBSET (1..n)
    PROVE  \E b \in [1..Cardinality(S) -> S] : Increasing(b)
  <1> DEFINE Ordered(T) == \E b \in [1..Cardinality(T) -> T] : Increasing(b)
             Bad == {m \in Nat : \E T \in SUBSET (1..m) : ~Ordered(T)}
  <1>1. SUFFICES ASSUME Bad # {} PROVE FALSE
    <2>1. n \notin Bad
      BY <1>1
    <2> QED
      BY <2>1
  <1>2. PICK m \in Bad : \A k \in Bad : ~(<<k, m>> \in OpToRel(<, Nat))
    <2>1. Bad \subseteq Nat
      OBVIOUS
    <2> HIDE DEF Bad
    <2> QED
      BY <1>1, <2>1, WFMin, NatLessThanWellFounded
  <1>3. m \in Nat /\ \A k \in Bad : ~(k < m)
    BY <1>2 DEF OpToRel
  <1>4. PICK T \in SUBSET (1..m) : ~Ordered(T)
    OBVIOUS
  <1>5. IsFiniteSet(T) /\ Cardinality(T) \in Nat
    BY <1>3, FiniteIds
  <1>6. T # {}
    <2>1. ASSUME T = {} PROVE FALSE
      <3>1. <<>> \in [1..Cardinality(T) -> T] /\ Increasing(<<>>)
        BY <2>1, FS_EmptySet DEF Increasing
      <3> QED
        BY <1>4, <3>1
    <2> QED
      BY <2>1
  <1>7. m - 1 \in Nat /\ m - 1 \notin Bad
    <2> HIDE DEF Bad, Ordered
    <2>1. PICK x \in T : x \in 1..m
      BY <1>4, <1>6
    <2>2. m \in Nat /\ m >= 1
      BY <1>3, <2>1
    <2> QED
      BY <1>3, <2>2
  <1> DEFINE U == T \ {m}
  <1>8. U \in SUBSET (1..m - 1)
    BY <1>3, <1>4
  <1>9. PICK b \in [1..Cardinality(U) -> U] : Increasing(b)
    BY <1>7, <1>8
  <1>10. m \in T
    <2>1. ASSUME m \notin T PROVE FALSE
      <3>1. U = T
        BY <2>1
      <3> QED
        BY <1>4, <1>9, <3>1
    <2> QED
      BY <2>1
  <1>11. /\ Cardinality(U) \in Nat
         /\ Cardinality(T) = Cardinality(U) + 1
    <2>1. /\ IsFiniteSet(U)
          /\ Cardinality(U) = IF m \in T THEN Cardinality(T) - 1
                                         ELSE Cardinality(T)
      BY <1>5, FS_RemoveElement
    <2>2. Cardinality(U) \in Nat
      BY <2>1, FS_CardinalityType
    <2> QED
      BY <1>5, <1>10, <2>1, <2>2
  <1> HIDE DEF Bad, Ordered
  <1> DEFINE c == [i \in 1..Cardinality(T) |-> IF i = Cardinality(T) THEN m ELSE b[i]]
  <1>12. c \in [1..Cardinality(T) -> T]
    <2>1. ASSUME NEW i \in 1..Cardinality(T), i # Cardinality(T)
          PROVE  b[i] \in T
      <3>1. i \in 1..Cardinality(U)
        BY <1>11, <2>1
      <3> QED
        BY <1>9, <3>1
    <2> QED
      BY <1>10, <2>1
  <1>13. Increasing(c)
    <2> SUFFICES ASSUME NEW i \in 1..Cardinality(T), NEW j \in 1..Cardinality(T), i < j
                 PROVE  c[i] < c[j]
      BY DEF Increasing
    <2>1. i \in 1..Cardinality(U) /\ c[i] = b[i] /\ b[i] \in U
      <3>1. i \in 1..Cardinality(U) /\ i # Cardinality(T)
        BY <1>11
      <3> QED
        BY <1>9, <3>1
    <2>2. CASE j = Cardinality(T)
      <3>1. c[j] = m /\ b[i] \in 1..m - 1
        BY <1>8, <2>1, <2>2
      <3> QED
        BY <1>3, <2>1, <3>1
    <2>3. CASE j # Cardinality(T)
      <3>1. j \in 1..Cardinality(U) /\ c[j] = b[j]
        BY <1>11, <2>3
      <3> QED
        BY <1>9, <2>1, <3>1 DEF Increasing
    <2> QED
      BY <2>2, <2>3
  <1> QED
    BY <1>4, <1>12, <1>13 DEF Ordered

\* What InOrder returns: a sequence of the set, increasing, and all of it.
LEMMA InOrders ==
    ASSUME NEW n \in Nat, NEW S \in SUBSET (1..n)
    PROVE  /\ InOrder(S) \in Seq(S)
           /\ Increasing(InOrder(S))
           /\ ToSet(InOrder(S)) = S
  <1> DEFINE b == InOrder(S)
  <1>1. b \in [1..Cardinality(S) -> S] /\ Increasing(b)
    BY OrderExists DEF InOrder
  <1>2. IsFiniteSet(S) /\ Cardinality(S) \in Nat
    BY FiniteIds
  <1> HIDE DEF b
  <1>3. IsFiniteSet(1..Cardinality(S)) /\ Cardinality(1..Cardinality(S)) = Cardinality(S)
    BY <1>2, FS_Interval
  <1>4. \A i, j \in 1..Cardinality(S) : b[i] = b[j] => i = j
    <2> TAKE i, j \in 1..Cardinality(S)
    <2>1. b[i] \in 1..n /\ b[j] \in 1..n
      BY <1>1
    <2>2. i < j => b[i] < b[j]
      BY <1>1 DEF Increasing
    <2>3. j < i => b[j] < b[i]
      BY <1>1 DEF Increasing
    <2> QED
      BY <1>2, <2>1, <2>2, <2>3
  <1>5. b \in Injection(1..Cardinality(S), S)
    BY <1>1, <1>4 DEF Injection, IsInjective
  <1>6. b \in Surjection(1..Cardinality(S), S)
    BY <1>2, <1>3, <1>5, FS_Injection
  <1>7. b \in Seq(S) /\ DOMAIN b = 1..Cardinality(S)
    BY <1>1, <1>2
  <1>8. ToSet(b) = S
    BY <1>1, <1>6, <1>7 DEF Surjection, ToSet
  <1> QED
    BY <1>1, <1>7, <1>8 DEF b

-----------------------------------------------------------------------------
(* The event stream: what is on the wire and what was received.            *)

StreamTypeOK ==
    /\ log \in Seq(Keys)
    /\ conn \in {"connecting", "open"}
    /\ wire \in Seq(Nat)
    /\ last \in 0..Len(log)
    /\ seen \in Seq(Nat)

\* On the wire is what follows the cursor, in order and of the scope.
WireInv ==
    /\ Increasing(wire)
    /\ \A n \in ToSet(wire) : n \in last + 1 .. Len(log) /\ InScope(log[n])
    /\ conn = "connecting" => wire = <<>>

\* What was received goes up to the cursor.
SeenInv ==
    /\ Increasing(seen)
    /\ \A n \in ToSet(seen) : n \in 1..last /\ InScope(log[n])
    /\ \A n \in cut : n \in 1..Len(log) /\ InScope(log[n])

\* Nothing of the scope is missing: not below the cursor, and nowhere as long
\* as the stream is open.
CoverInv ==
    \A n \in 1..Len(log) :
        InScope(log[n]) /\ (n <= last \/ conn = "open")
            => n \in ToSet(seen) \cup cut \cup ToSet(wire)

StreamInv == StreamTypeOK /\ WireInv /\ SeenInv /\ CoverInv

LEMMA Elements ==
    ASSUME NEW X, NEW s \in Seq(X)
    PROVE  /\ DOMAIN s = 1..Len(s) /\ Len(s) \in Nat
           /\ ToSet(s) = {s[i] : i \in 1..Len(s)}
           /\ ToSet(s) \subseteq X
  BY LenProperties DEF ToSet

\* One more element, larger than the others.
LEMMA OneMore ==
    ASSUME NEW s \in Seq(Nat), NEW n \in Nat
    PROVE  /\ Append(s, n) \in Seq(Nat)
           /\ ToSet(Append(s, n)) = ToSet(s) \cup {n}
           /\ Increasing(s) /\ (\A m \in ToSet(s) : m < n)
                => Increasing(Append(s, n))
  <1> DEFINE t == Append(s, n)
  <1>1. /\ t \in Seq(Nat) /\ Len(t) = Len(s) + 1 /\ Len(s) \in Nat
        /\ \A i \in 1..Len(s) : t[i] = s[i]
        /\ t[Len(s) + 1] = n
    BY AppendProperties, LenProperties
  <1> HIDE DEF t
  <1>2. /\ DOMAIN t = 1..Len(s) + 1 /\ DOMAIN s = 1..Len(s)
        /\ ToSet(s) = {s[i] : i \in 1..Len(s)}
        /\ ToSet(t) = {t[i] : i \in 1..Len(s) + 1}
    BY <1>1, Elements
  <1>3. ToSet(t) = ToSet(s) \cup {n}
    BY <1>1, <1>2
  <1>4. ASSUME Increasing(s), \A m \in ToSet(s) : m < n
        PROVE  Increasing(t)
    <2> SUFFICES ASSUME NEW i \in 1..Len(s) + 1, NEW j \in 1..Len(s) + 1, i < j
                 PROVE  t[i] < t[j]
      BY <1>2 DEF Increasing
    <2>1. i \in 1..Len(s) /\ t[i] = s[i] /\ s[i] \in ToSet(s)
      BY <1>1, <1>2
    <2>2. CASE j = Len(s) + 1
      BY <1>1, <1>4, <2>1, <2>2
    <2>3. CASE j # Len(s) + 1
      <3>1. j \in 1..Len(s)
        <4>1. Len(s) \in Nat
          BY <1>1
        <4> QED
          BY <2>3, <4>1
      <3>2. t[j] = s[j]
        BY <1>1, <3>1
      <3> QED
        BY <1>2, <1>4, <2>1, <3>1, <3>2 DEF Increasing
    <2> QED
      BY <2>2, <2>3
  <1> QED
    BY <1>1, <1>3, <1>4 DEF t

\* The first of an increasing sequence, and the rest.
LEMMA FirstAndRest ==
    ASSUME NEW s \in Seq(Nat), s # <<>>, Increasing(s)
    PROVE  /\ Head(s) \in ToSet(s) /\ Tail(s) \in Seq(Nat)
           /\ Increasing(Tail(s))
           /\ \A m \in ToSet(Tail(s)) : m \in ToSet(s) /\ Head(s) < m
           /\ \A m \in ToSet(s) : m = Head(s) \/ m \in ToSet(Tail(s))
  <1> DEFINE t == Tail(s)
  <1>1. /\ t \in Seq(Nat) /\ Len(t) = Len(s) - 1 /\ Len(s) \in Nat \ {0}
        /\ \A i \in 1..Len(t) : t[i] = s[i + 1]
        /\ Head(s) = s[1]
    BY HeadTailProperties, LenProperties, EmptySeq
  <1> HIDE DEF t
  <1>2. /\ DOMAIN t = 1..Len(s) - 1 /\ DOMAIN s = 1..Len(s)
        /\ ToSet(s) = {s[i] : i \in 1..Len(s)}
        /\ ToSet(t) = {t[i] : i \in 1..Len(s) - 1}
    BY <1>1, Elements
  <1>3. \A i \in 1..Len(s) - 1 : t[i] = s[i + 1] /\ i + 1 \in 1..Len(s)
    BY <1>1
  <1>4. 1 \in 1..Len(s)
    BY <1>1
  <1>5. Increasing(t)
    <2> SUFFICES ASSUME NEW i \in 1..Len(s) - 1, NEW j \in 1..Len(s) - 1, i < j
                 PROVE  t[i] < t[j]
      BY <1>2 DEF Increasing
    <2>1. i + 1 < j + 1
      BY <1>1
    <2> QED
      BY <1>2, <1>3, <2>1 DEF Increasing
  <1>6. ASSUME NEW m \in ToSet(t) PROVE m \in ToSet(s) /\ Head(s) < m
    <2>1. PICK i \in 1..Len(s) - 1 : m = t[i]
      BY <1>2
    <2>2. m = s[i + 1] /\ i + 1 \in 1..Len(s) /\ 1 < i + 1
      BY <1>1, <1>3, <2>1
    <2> QED
      BY <1>1, <1>2, <1>4, <2>2 DEF Increasing
  <1>7. ASSUME NEW m \in ToSet(s) PROVE m = Head(s) \/ m \in ToSet(t)
    <2>1. PICK i \in 1..Len(s) : m = s[i]
      BY <1>2
    <2>2. CASE i = 1
      BY <1>1, <2>1, <2>2
    <2>3. CASE i # 1
      <3>1. i - 1 \in 1..Len(s) - 1 /\ (i - 1) + 1 = i
        BY <1>1, <2>3
      <3>2. m = t[i - 1]
        BY <1>3, <2>1, <3>1
      <3> QED
        BY <1>2, <3>1, <3>2
    <2> QED
      BY <2>2, <2>3
  <1> QED
    BY <1>1, <1>2, <1>4, <1>5, <1>6, <1>7 DEF t

\* The most recent part of an increasing backlog is increasing.
LEMMA RecentPart ==
    ASSUME NEW b \in Seq(Nat), Increasing(b), Len(b) > ReplayLimit
    PROVE  /\ Truncated(b) \in Seq(Nat)
           /\ Increasing(Truncated(b))
           /\ ToSet(Truncated(b)) \subseteq ToSet(b)
  <1> DEFINE t == Truncated(b)
             from == Len(b) - ReplayLimit
  <1>1. Len(b) \in Nat /\ ReplayLimit \in Nat /\ from \in Nat
    BY StreamAssumption, LenProperties
  <1>2. t = SubSeq(b, from + 1, Len(b))
    BY DEF Truncated, Kept
  <1> HIDE DEF t
  <1>3. \A i \in from + 1 .. Len(b) : b[i] \in Nat
    BY <1>1, ElementOfSeq
  <1>4. /\ t \in Seq(Nat)
        /\ Len(t) = IF from + 1 <= Len(b) THEN Len(b) - (from + 1) + 1 ELSE 0
        /\ \A i \in 1..Len(b) - (from + 1) + 1 : t[i] = b[from + 1 + i - 1]
    BY <1>1, <1>2, <1>3, SubSeqProperties
  <1>5. /\ DOMAIN t = 1..Len(t) /\ DOMAIN b = 1..Len(b) /\ Len(t) \in Nat
        /\ ToSet(b) = {b[i] : i \in 1..Len(b)}
        /\ ToSet(t) = {t[i] : i \in 1..Len(t)}
    BY <1>4, Elements
  <1>6. \A i \in 1..Len(t) : from + i \in 1..Len(b) /\ t[i] = b[from + i]
    BY <1>1, <1>4
  <1> HIDE DEF from
  <1>7. Increasing(t)
    <2> SUFFICES ASSUME NEW i \in 1..Len(t), NEW j \in 1..Len(t), i < j
                 PROVE  t[i] < t[j]
      BY <1>5 DEF Increasing
    <2>1. from + i < from + j
      BY <1>1
    <2> QED
      BY <1>5, <1>6, <2>1 DEF Increasing
  <1>8. ToSet(t) \subseteq ToSet(b)
    BY <1>5, <1>6
  <1> QED
    BY <1>4, <1>7, <1>8 DEF t

\* What the replay finds: all that follows the cursor in the scope.
LEMMA Replayed ==
    ASSUME StreamInv
    PROVE  /\ Backlog(last) \in Seq(Nat)
           /\ Increasing(Backlog(last))
           /\ ToSet(Backlog(last)) =
                {n \in 1..Len(log) : n > last /\ InScope(log[n])}
  <1> DEFINE S == {n \in 1..Len(log) : n > last /\ InScope(log[n])}
  <1>1. Len(log) \in Nat /\ S \in SUBSET (1..Len(log)) /\ S \subseteq Nat
    BY DEF StreamInv, StreamTypeOK
  <1>2. Backlog(last) = InOrder(S)
    BY DEF Backlog, After
  <1> HIDE DEF S
  <1>3. /\ InOrder(S) \in Seq(S) /\ Increasing(InOrder(S))
        /\ ToSet(InOrder(S)) = S
    BY <1>1, InOrders
  <1>4. InOrder(S) \in Seq(Nat)
    BY <1>1, <1>3, SeqMonotonic
  <1> QED
    BY <1>2, <1>3, <1>4 DEF S

\* An emitted event is appended to the log and, in the same step, to the wire
\* of an open stream.
LEMMA StreamEmits ==
    ASSUME StreamInv, NEW k \in Keys, Emit(k)
    PROVE  StreamInv'
  <1> USE DEF StreamInv, StreamTypeOK
  <1>1. /\ log' \in Seq(Keys) /\ Len(log') = Len(log) + 1 /\ Len(log) \in Nat
        /\ \A n \in 1..Len(log) : log'[n] = log[n]
        /\ log'[Len(log) + 1] = k
    BY AppendProperties, LenProperties DEF Emit
  <1>2. UNCHANGED <<scope, conn, last, seen, cut, drops>>
    BY DEF Emit
  <1>3. \A n \in 1..Len(log) : /\ n \in 1..Len(log')
                               /\ InScope(log[n])' <=> InScope(log[n])
    BY <1>1, <1>2 DEF InScope
  <1>6. last \in Nat /\ last <= Len(log)
    BY <1>1
  <1>7. SeenInv'
    <2>1. \A n \in 1..last : n \in 1..Len(log)
      BY <1>1, <1>6
    <2> QED
      BY <1>2, <1>3, <2>1 DEF SeenInv
  <1>4. CASE conn = "open" /\ InScope(k)
    <2>1. wire' = Append(wire, Len(log) + 1)
      BY <1>1, <1>4 DEF Emit
    <2>2. \A m \in ToSet(wire) : m < Len(log) + 1
      BY <1>1 DEF WireInv
    <2>3. /\ wire' \in Seq(Nat) /\ ToSet(wire') = ToSet(wire) \cup {Len(log) + 1}
          /\ Increasing(wire')
      BY <1>1, <2>1, <2>2, OneMore DEF WireInv
    <2>4. WireInv'
      <3>1. ASSUME NEW n \in ToSet(wire')
            PROVE  n \in last' + 1 .. Len(log') /\ InScope(log[n])'
        <4>1. CASE n \in ToSet(wire)
          <5>1. n \in last + 1 .. Len(log) /\ InScope(log[n])
            BY <4>1 DEF WireInv
          <5>2. n \in 1..Len(log) /\ n \in last' + 1 .. Len(log')
            BY <1>1, <1>2, <1>6, <5>1
          <5> QED
            BY <1>3, <5>1, <5>2
        <4>2. CASE n = Len(log) + 1
          BY <1>1, <1>2, <1>4, <4>2 DEF InScope
        <4> QED
          BY <2>3, <4>1, <4>2
      <3> QED
        BY <1>2, <1>4, <2>3, <3>1 DEF WireInv
    <2>5. CoverInv'
      <3> SUFFICES ASSUME NEW n \in 1..Len(log'), InScope(log[n])'
                   PROVE  n \in ToSet(seen) \cup cut \cup ToSet(wire')
        BY <1>2 DEF CoverInv
      <3>1. n \in 1..Len(log) \/ n = Len(log) + 1
        BY <1>1
      <3> QED
        BY <1>3, <1>4, <2>3, <3>1 DEF CoverInv
    <2> QED
      BY <1>1, <1>2, <1>7, <2>3, <2>4, <2>5
  <1>5. CASE ~(conn = "open" /\ InScope(k))
    <2>1. UNCHANGED wire
      BY <1>5 DEF Emit
    <2>2. WireInv'
      BY <1>1, <1>2, <2>1 DEF WireInv, InScope
    <2>3. CoverInv'
      BY <1>1, <1>2, <1>5, <2>1 DEF CoverInv, InScope
    <2> QED
      BY <1>1, <1>2, <1>7, <2>1, <2>2, <2>3
  <1> QED
    BY <1>4, <1>5

\* The replay and the attachment, one step: what follows the cursor is written
\* or announced as cut.
LEMMA StreamConnects ==
    ASSUME StreamInv, Connect
    PROVE  StreamInv'
  <1> USE DEF StreamInv, StreamTypeOK
  <1> DEFINE b == Backlog(last)
  <1>1. /\ b \in Seq(Nat) /\ Increasing(b)
        /\ ToSet(b) = {n \in 1..Len(log) : n > last /\ InScope(log[n])}
    BY Replayed
  <1>2. /\ UNCHANGED <<log, scope, last, seen, drops>>
        /\ conn = "connecting" /\ conn' = "open" /\ wire = <<>>
    BY DEF Connect, WireInv
  <1>3. /\ wire' \in Seq(Nat) /\ Increasing(wire')
        /\ ToSet(wire') \subseteq ToSet(b)
        /\ cut' = cut \cup (ToSet(b) \ ToSet(wire'))
    <2>1. CASE Len(b) > ReplayLimit
      <3>1. /\ wire' = Truncated(b)
            /\ cut' = cut \cup (ToSet(b) \ ToSet(Truncated(b)))
        BY <2>1 DEF Connect
      <3> HIDE DEF b
      <3> QED
        BY <1>1, <2>1, <3>1, RecentPart
    <2>2. CASE ~(Len(b) > ReplayLimit)
      <3>1. wire' = b /\ cut' = cut
        BY <2>2 DEF Connect
      <3> QED
        BY <1>1, <3>1
    <2> QED
      BY <2>1, <2>2
  <1> HIDE DEF b
  <1>4. Len(log) \in Nat /\ last \in Nat
    BY LenProperties
  <1>5. WireInv'
    BY <1>1, <1>2, <1>3, <1>4 DEF WireInv, InScope
  <1>6. SeenInv'
    BY <1>1, <1>2, <1>3 DEF SeenInv, InScope
  <1>7. CoverInv'
    <2> SUFFICES ASSUME NEW n \in 1..Len(log), InScope(log[n])
                 PROVE  n \in ToSet(seen) \cup cut' \cup ToSet(wire')
      BY <1>2 DEF CoverInv, InScope
    <2>1. CASE n <= last
      <3>1. ToSet(wire) = {}
        BY <1>2 DEF ToSet
      <3>2. n \in ToSet(seen) \cup cut
        BY <2>1, <3>1 DEF CoverInv
      <3> QED
        BY <1>3, <3>2
    <2>2. CASE n > last
      BY <1>1, <1>3, <2>2
    <2> QED
      BY <1>4, <2>1, <2>2
  <1> QED
    BY <1>2, <1>3, <1>5, <1>6, <1>7

\* The message received is the next one: the cursor passes over nothing.
LEMMA StreamDelivers ==
    ASSUME StreamInv, Receive
    PROVE  StreamInv'
  <1> USE DEF StreamInv, StreamTypeOK
  <1> DEFINE n == Head(wire)
  <1>1. /\ UNCHANGED <<log, scope, conn, cut, drops>>
        /\ wire # <<>> /\ wire' = Tail(wire)
        /\ last' = n /\ seen' = Append(seen, n)
    BY DEF Receive
  <1>2. /\ n \in ToSet(wire) /\ wire' \in Seq(Nat) /\ Increasing(wire')
        /\ \A m \in ToSet(wire') : m \in ToSet(wire) /\ n < m
        /\ \A m \in ToSet(wire) : m = n \/ m \in ToSet(wire')
    BY <1>1, FirstAndRest DEF WireInv
  <1>3. n \in last + 1 .. Len(log) /\ InScope(log[n]) /\ conn = "open"
    BY <1>1, <1>2 DEF WireInv
  <1> HIDE DEF n
  <1>4. Len(log) \in Nat /\ last \in Nat /\ n \in Nat
    BY <1>3, LenProperties
  <1>5. \A m \in ToSet(seen) : m < n
    BY <1>3, <1>4 DEF SeenInv
  <1>6. /\ seen' \in Seq(Nat) /\ ToSet(seen') = ToSet(seen) \cup {n}
        /\ Increasing(seen')
    BY <1>1, <1>4, <1>5, OneMore DEF SeenInv
  <1>7. ToSet(wire) \subseteq Nat
    BY Elements
  <1>8. WireInv'
    BY <1>1, <1>2, <1>3, <1>4, <1>7 DEF WireInv, InScope
  <1>9. SeenInv'
    BY <1>1, <1>3, <1>4, <1>6 DEF SeenInv, InScope
  <1>10. CoverInv'
    BY <1>1, <1>2, <1>3, <1>6 DEF CoverInv, InScope
  <1> QED
    BY <1>1, <1>2, <1>3, <1>4, <1>6, <1>8, <1>9, <1>10

\* What is lost with the socket lies after the cursor.
LEMMA StreamDrops ==
    ASSUME StreamInv, Drop
    PROVE  StreamInv'
  <1> USE DEF StreamInv, StreamTypeOK
  <1>1. /\ UNCHANGED <<log, scope, last, seen, cut>>
        /\ conn' = "connecting" /\ wire' = <<>>
    BY DEF Drop
  <1>2. wire' \in Seq(Nat) /\ ToSet(wire') = {} /\ Increasing(wire')
    BY <1>1 DEF ToSet, Increasing
  <1>3. Len(log) \in Nat /\ last \in Nat
    BY LenProperties
  <1>4. \A n \in ToSet(wire) : ~(n <= last)
    BY <1>3 DEF WireInv
  <1> QED
    BY <1>1, <1>2, <1>3, <1>4 DEF WireInv, SeenInv, CoverInv, InScope

\* Another EventSource begins where nothing was received.
LEMMA StreamReopens ==
    ASSUME StreamInv, NEW s, Open(s), UNCHANGED log
    PROVE  StreamInv'
  <1> USE DEF StreamInv, StreamTypeOK
  <1>1. /\ conn' = "connecting" /\ wire' = <<>> /\ last' = 0
        /\ seen' = <<>> /\ cut' = {}
    BY DEF Open
  <1>2. Len(log) \in Nat /\ <<>> \in Seq(Nat) /\ ToSet(<<>>) = {}
        /\ Increasing(<<>>)
    BY DEF ToSet, Increasing
  <1>3. 0 \in 0..Len(log') /\ \A n \in 1..Len(log') : ~(n <= 0)
    BY <1>2
  <1> QED
    BY <1>1, <1>2, <1>3 DEF WireInv, SeenInv, CoverInv

LEMMA StreamStays ==
    ASSUME StreamInv, UNCHANGED <<log, scope, conn, wire, last, seen, cut>>
    PROVE  StreamInv'
  BY DEF StreamInv, StreamTypeOK, WireInv, SeenInv, CoverInv, InScope

\* Every step of every screen keeps the stream's invariant.
LEMMA StepStream == IInv /\ StreamInv /\ [Next]_vars => StreamInv'
  <1> SUFFICES ASSUME IInv, StreamInv, [Next]_vars PROVE StreamInv'
    OBVIOUS
  <1>1. ASSUME NEW k \in Keys, Emit(k) PROVE StreamInv'
    BY <1>1, StreamEmits
  <1>2. CASE Connect \/ Drop
    BY <1>2, StreamConnects, StreamDrops
  <1>3. CASE Message
    BY <1>3, StreamDelivers DEF Message
  <1>4. CASE TimerFires \/ Poke \/ LoadMore \/ Mutate
    BY <1>4, StreamStays DEF TimerFires, Poke, LoadMore, Mutate, streamVars,
       stream
  <1>5. ASSUME NEW k \in Keys, Move(k) PROVE StreamInv'
    <2>1. UNCHANGED log
      BY <1>5 DEF Move
    <2>2. CASE kind = "focus" \/ kind = "board"
      <3>1. Open(k) \/ Open(All)
        BY <1>5, <2>2 DEF Move
      <3> QED
        BY <2>1, <3>1, StreamReopens
    <2>3. CASE kind = "console"
      BY <1>5, <2>1, <2>3, StreamStays DEF Move, stream
    <2> QED
      BY <2>2, <2>3 DEF IInv, PageTypeOK
  <1>6. ASSUME NEW r \in flight, Answer(r) \/ Apply(r) PROVE StreamInv'
    BY <1>6, StreamStays DEF Answer, Apply, streamVars, stream
  <1>7. CASE UNCHANGED vars
    BY <1>7, StreamStays DEF vars, streamVars, stream
  <1> QED
    BY <1>1, <1>2, <1>3, <1>4, <1>5, <1>6, <1>7 DEF Next

-----------------------------------------------------------------------------
(* The theorems.                                                           *)

\* A quiet screen shows what its URL names, whatever was asked, answered late
\* or failed before (FocusView.tsx:69-88, useLiveObjectives.ts:32-49,
\* GitConsole.tsx:123-183).
THEOREM QuietFits == Spec => []QuietScreenFits
  <1>1. IInv => QuietScreenFits
    <2> SUFFICES ASSUME IInv, flight = {}, ~timer, ~crossed, ~failed
                 PROVE  /\ shown.key = key
                        /\ \A i \in 1..Len(commits) : commits[i].key = key
      BY DEF QuietScreenFits
    <2>1. CASE kind = "console"
      BY <2>1 DEF IInv, KeyInv
    <2>2. CASE kind # "console"
      <3>1. shown.key = key /\ commits = <<>>
        BY <2>2 DEF IInv, KeyInv, KindInv
      <3> QED
        BY <3>1
    <2> QED
      BY <2>1, <2>2
  <1> QED
    BY <1>1, Inductive, PTL

\* The console never appends an older page to another reading of the history
\* (GitConsole.tsx:82-90, :191-211).
THEOREM PagesFollow == Spec => []PagesContinue
  <1>1. IInv => PagesContinue
    <2> SUFFICES ASSUME IInv, NEW i \in 2..Len(commits)
                 PROVE  commits[i] = commits[1]
      BY DEF PagesContinue
    <2>1. Len(commits) \in Nat
      BY DEF IInv, PageTypeOK
    <2> QED
      BY <2>1 DEF IInv, PageInv
  <1> QED
    BY <1>1, Inductive, PTL

\* Whatever is emitted, lost and reconnected, and whatever the replay limit, a
\* page receives the events of its scope once each, in the order of their ids,
\* or is told that they were cut (events.ts:27-61, event-bus.ts:18-25, :73-88).
THEOREM StreamInOrder == Spec => []EventsOnceInOrder
  <1>1. Init => StreamInv
    <2> SUFFICES ASSUME Init PROVE StreamInv
      OBVIOUS
    <2>1. /\ log = <<>> /\ conn = "connecting" /\ wire = <<>> /\ last = 0
          /\ seen = <<>> /\ cut = {}
      BY DEF Init, StreamInit
    <2>2. /\ <<>> \in Seq(Keys) /\ <<>> \in Seq(Nat) /\ Len(<<>>) = 0
          /\ ToSet(<<>>) = {} /\ Increasing(<<>>)
      BY DEF ToSet, Increasing
    <2> QED
      BY <2>1, <2>2 DEF StreamInv, StreamTypeOK, WireInv, SeenInv, CoverInv
  <1>2. StreamInv => EventsOnceInOrder
    <2> SUFFICES ASSUME StreamInv PROVE EventsOnceInOrder
      OBVIOUS
    <2>1. /\ Len(log) \in Nat /\ last \in 0..Len(log)
          /\ DOMAIN seen = 1..Len(seen)
      BY Elements DEF StreamInv, StreamTypeOK
    <2>2. \A i, j \in 1..Len(seen) : i < j => seen[i] < seen[j]
      BY <2>1 DEF StreamInv, SeenInv, Increasing
    <2>3. ASSUME NEW n \in 1..last
          PROVE  n \in ToSet(seen) \cup cut <=> InScope(log[n])
      <3>1. n \in 1..Len(log) /\ n <= last /\ n \notin ToSet(wire)
        BY <2>1, <2>3 DEF StreamInv, WireInv
      <3> QED
        BY <3>1 DEF StreamInv, SeenInv, CoverInv
    <2> QED
      BY <2>2, <2>3 DEF EventsOnceInOrder
  <1> QED
    BY <1>1, <1>2, StepStream, Inductive, PTL DEF Spec
=============================================================================
