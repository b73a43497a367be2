---------------------------- MODULE EventStream ----------------------------
(***************************************************************************)
(* The append-only event log, its fan-out, and one browser's EventSource   *)
(* across replay, attachment, loss and reconnection                        *)
(* (events/event-bus.ts, http/routes/events.ts, the page's EventSource).   *)
(*                                                                         *)
(* An event's id is its place in the log; its content is what it is about. *)
(* Insert, dispatch and the replay with its attachment are synchronous in  *)
(* the code, so each is one action here.                                   *)
(***************************************************************************)
EXTENDS Naturals, Sequences, SequencesExt, FiniteSets

CONSTANTS Keys,         \* what events are about: objectives
          All,          \* the scope of a stream that names no objective
          ReplayLimit,  \* REPLAY_LIMIT: most events replayed at once
          MaxEvents,    \* bound: how many events are emitted
          MaxDrops      \* bound: how often the connection is lost

ASSUME StreamAssumption == /\ All \notin Keys
                           /\ ReplayLimit \in Nat \ {0}
                           /\ MaxEvents \in Nat /\ MaxDrops \in Nat

VARIABLES log,    \* the events table: what each event is about
          scope,  \* the objectiveId the stream was opened with
          conn,   \* the EventSource: connecting or open
          wire,   \* ids written to the socket and not yet received
          last,   \* the browser's Last-Event-ID
          seen,   \* ids received since the page opened this EventSource
          cut,    \* ids a replay left out and announced
          drops   \* how often the connection was lost

stream == <<scope, conn, wire, last, seen, cut, drops>>
streamVars == <<log, stream>>

InScope(k) == scope \in {All, k}

\* Numbers from the least to the greatest.
Increasing(b) == \A i, j \in DOMAIN b : i < j => b[i] < b[j]
InOrder(S) == CHOOSE b \in [1..Cardinality(S) -> S] : Increasing(b)

\* since(): the ids after the cursor, in order.
After(id) == InOrder({n \in 1..Len(log) : n > id /\ InScope(log[n])})

AfterAndAt(id) == InOrder({n \in 1..Len(log) : n >= id /\ InScope(log[n])})

Backlog(id) == After(id)

\* The most recent part of a backlog, and what that leaves out.
Kept(b) == SubSeq(b, Len(b) - ReplayLimit + 1, Len(b))
Truncated(b) == Kept(b)

StreamInit == /\ log = <<>>
              /\ conn = "connecting" /\ wire = <<>> /\ last = 0
              /\ seen = <<>> /\ cut = {} /\ drops = 0

\* emit(): the row, then every subscriber in scope.
Emit(k) == /\ Len(log) < MaxEvents
           /\ log' = Append(log, k)
           /\ wire' = IF conn = "open" /\ InScope(k)
                      THEN Append(wire, Len(log')) ELSE wire
           /\ UNCHANGED <<scope, conn, last, seen, cut, drops>>

\* GET /api/events: replay what follows the cursor, then subscribe.
Connect == /\ conn = "connecting"
           /\ conn' = "open"
           /\ LET b == Backlog(last)
              IN  IF Len(b) > ReplayLimit
                  THEN /\ wire' = Truncated(b)
                       /\ cut' = cut \cup (ToSet(b) \ ToSet(Truncated(b)))
                  ELSE wire' = b /\ cut' = cut
           /\ UNCHANGED <<log, scope, last, seen, drops>>

\* The browser takes the next message; its id becomes the cursor.
Receive == /\ wire # <<>>
           /\ wire' = Tail(wire)
           /\ last' = Head(wire)
           /\ seen' = Append(seen, Head(wire))
           /\ UNCHANGED <<log, scope, conn, cut, drops>>

\* The socket is lost with what is in it; the browser will reconnect.
Drop == /\ conn = "open"
        /\ drops < MaxDrops
        /\ drops' = drops + 1
        /\ conn' = "connecting" /\ wire' = <<>>
        /\ UNCHANGED <<log, scope, last, seen, cut>>

\* The page closes its EventSource and opens another.
Open(s) == /\ scope' = s
           /\ conn' = "connecting" /\ wire' = <<>> /\ last' = 0
           /\ seen' = <<>> /\ cut' = {}
           /\ UNCHANGED drops

-----------------------------------------------------------------------------

\* A page receives the events of its scope once each and in the order of
\* their ids, across replay, attachment and any number of reconnections; what
\* it does not receive was announced as cut (events.ts:27-61,
\* event-bus.ts:18-25, :73-88).
EventsOnceInOrder ==
    /\ \A i, j \in 1..Len(seen) : i < j => seen[i] < seen[j]
    /\ \A n \in 1..last : n \in ToSet(seen) \cup cut <=> InScope(log[n])
=============================================================================
