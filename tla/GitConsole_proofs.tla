-------------------------- MODULE GitConsole_proofs --------------------------
(***************************************************************************)
(* What the console's wrapper guarantees for any number of requests, tasks *)
(* and commits: no checkpoint is left behind by a rewrite, no commit of    *)
(* the console's carries a protected file, and no push publishes what a    *)
(* turn has under way.                                                     *)
(*                                                                         *)
(* Two facts carry the argument. As long as no request passed its gate     *)
(* while another was at work in the same worktree (Alone), the requests    *)
(* inside the wrapper are in different worktrees (Apart), and while the    *)
(* objective writes none is in its own (TurnAlone). And a reference that a *)
(* rewrite put out of reach is still on the list of the one repairing      *)
(* (RefInv). That a record left behind by a push lasts no longer than the  *)
(* push is an invariant of its own (UndoInv); with Apart, no undo is at    *)
(* work in that worktree meanwhile.                                        *)
(***************************************************************************)
EXTENDS GitConsole, SequenceTheorems, TLAPS

Commits == Seq(Nat)
Steps == {"none", "gate", "resolve", "head", "unstage", "run", "repair",
          "remote", "termed"}
Requests == [step : Steps, op : Ops, on : Worktrees, branch : Branches,
             before : Commits, to : Commits, left : SUBSET Tasks,
             taken : BOOLEAN]

Pushes == {"none", "here", "left"}

\* Every variable stays in its type.
TypeOK ==
    /\ branches \subseteq Branches
    /\ head \in [Worktrees -> Branches \cup {"none"}]
    /\ tip \in Commits
    /\ published \in Commits
    /\ secret \in BOOLEAN
    /\ undo \in [Worktrees -> SUBSET Commits]
    /\ refs \in [Tasks -> SUBSET Commits]
    /\ status \in {"free", "busy"}
    /\ turns \in Nat
    /\ commits \in Nat
    /\ req \in [Handlers -> Requests]
    /\ raw \subseteq Nat
    /\ pushes \in [Worktrees -> Pushes]
    /\ odd \subseteq {"overlap", "half", "leaked"}

Alone == "overlap" \notin odd
Inside(h) == req[h].step \notin {"none", "gate", "resolve"}

Apart ==
    Alone => \A g, h \in Handlers :
                g # h /\ Inside(g) /\ Inside(h) => req[g].on # req[h].on
TurnAlone ==
    Alone /\ status = "busy" =>
        \A h \in Handlers :
            /\ Inside(h) => ~OnOwn(h)
            /\ req[h].op = "push" /\ PastGate(h) => req[h].branch # "own"
Home ==
    /\ head[Own] = "own"
    /\ \A h \in Handlers : Inside(h) /\ req[h].op = "checkout" => ~OnOwn(h)
    /\ status = "free" => raw = {}
CleanIndex ==
    Alone => \A h \in Handlers : 
                At(h, "run") /\ req[h].op \in CreatesCommit /\ OnOwn(h)
                    => ~secret
Queued(t) ==
    \E h \in Handlers : At(h, "repair") /\ OnOwn(h) /\ t \in req[h].left
RefInv ==
    "half" \notin odd =>
        \A t \in Tasks : \A sha \in refs[t] : IsPrefix(sha, tip) \/ Queued(t)

IInv == /\ TypeOK /\ Apart /\ TurnAlone /\ Home /\ CleanIndex /\ RefInv
        /\ ProtectedStaysOut

-----------------------------------------------------------------------------
(* Histories.                                                              *)

\* A history is a prefix of itself and of what it grows into.
LEMMA PrefixReflexive == ASSUME NEW s \in Commits PROVE IsPrefix(s, s)
  BY DEF Commits, IsPrefix

LEMMA PrefixElements ==
    ASSUME NEW s \in Commits, NEW t \in Commits
    PROVE  IsPrefix(s, t) <=>
             Len(s) <= Len(t) /\ \A i \in 1..Len(s) : s[i] = t[i]
  <1>1. /\ Len(s) \in Nat /\ Len(t) \in Nat
        /\ \A i \in 1..Len(s) : s[i] \in Nat
        /\ \A i \in 1..Len(t) : t[i] \in Nat
    BY DEF Commits
  <1>2. /\ SubSeq(s, 1, Len(s)) = s
    BY SubSeqFull DEF Commits
  <1>3. ASSUME Len(s) <= Len(t)
        PROVE  SubSeq(s, 1, Len(s)) = SubSeq(t, 1, Len(s)) <=>
                 \A i \in 1..Len(s) : s[i] = t[i]
    <2> DEFINE u == SubSeq(t, 1, Len(s))
    <2>1. /\ u \in Seq(Nat) /\ Len(u) = Len(s)
          /\ \A i \in 1..Len(s) : u[i] = t[i]
      <3>1. \A i \in 1..Len(s) : t[i] \in Nat
        BY <1>1, <1>3
      <3>2. 1 \in Int /\ Len(s) \in Int
        BY <1>1
      <3>3. /\ u \in Seq(Nat)
            /\ Len(u) = IF 1 <= Len(s) THEN Len(s) - 1 + 1 ELSE 0
            /\ \A i \in 1..Len(s) - 1 + 1 : u[i] = t[1 + i - 1]
        BY <3>1, <3>2, SubSeqProperties
      <3> QED
        BY <1>1, <3>3
    <2>2. u = s <=> \A i \in 1..Len(s) : u[i] = s[i]
      BY <2>1, SeqEqual DEF Commits
    <2> QED
      BY <1>2, <2>1, <2>2
  <1> QED
    BY <1>2, <1>3 DEF IsPrefix

LEMMA PrefixTransitive ==
    ASSUME NEW s \in Commits, NEW t \in Commits, NEW u \in Commits,
           IsPrefix(s, t), IsPrefix(t, u)
    PROVE  IsPrefix(s, u)
  <1>1. Len(s) \in Nat /\ Len(t) \in Nat /\ Len(u) \in Nat
    BY DEF Commits
  <1> QED
    BY <1>1, PrefixElements

LEMMA PrefixAppended ==
    ASSUME NEW s \in Commits, NEW n \in Nat
    PROVE  Append(s, n) \in Commits /\ IsPrefix(s, Append(s, n))
  <1>1. /\ Len(s) \in Nat /\ Append(s, n) \in Commits
        /\ Len(Append(s, n)) = Len(s) + 1
        /\ \A i \in 1..Len(s) : Append(s, n)[i] = s[i]
    BY AppendProperties DEF Commits
  <1>2. Len(s) <= Len(Append(s, n))
    BY <1>1
  <1>3. IsPrefix(s, Append(s, n)) <=>
          /\ Len(s) <= Len(Append(s, n))
          /\ \A i \in 1..Len(s) : s[i] = Append(s, n)[i]
    BY <1>1, PrefixElements
  <1> QED
    BY <1>1, <1>2, <1>3

\* Part of a history is one.
LEMMA Cut ==
    ASSUME NEW s \in Commits, NEW m \in Int, m <= Len(s)
    PROVE  SubSeq(s, 1, m) \in Commits
  BY DEF Commits

LEMMA FrontCommits ==
    ASSUME NEW s \in Commits
    PROVE  Front(s) \in Commits
  <1>1. Len(s) - 1 \in Int /\ Len(s) - 1 <= Len(s)
    BY DEF Commits
  <1> QED
    BY <1>1, Cut DEF Front

-----------------------------------------------------------------------------
(* Requests.                                                               *)

\* The kinds of operation, spelled out.
LEMMA Kinds ==
    /\ RewritesHistory \subseteq Ops /\ CreatesCommit \subseteq Ops
    /\ Plain \subseteq Ops /\ {"push", "pull"} \subseteq Ops
    /\ "push" \notin CreatesCommit \cup RewritesHistory \cup Undoable
    /\ "checkout" \notin CreatesCommit \cup RewritesHistory
    /\ {"amend", "squash", "drop", "undo"} = RewritesHistory
    /\ {"commit", "amend", "squash"} = CreatesCommit
    /\ Idle \in Requests /\ Idle.step = "none" /\ Own \in Worktrees
  <1>1. <<>> \in Commits
    BY DEF Commits
  <1> QED
    BY <1>1 DEF RewritesHistory, CreatesCommit, Plain, Ops, Undoable, Idle,
       Requests, Steps, Worktrees, Branches, Own

\* One request moves: it ends, or goes on inside the wrapper as what it was.
Moves(h) ==
    /\ req' \in [Handlers -> Requests]
    /\ \A g \in Handlers \ {h} : req'[g] = req[g]
    /\ \/ req'[h] = Idle
       \/ /\ Inside(h)
          /\ req'[h].step \notin {"none", "gate", "resolve"}
          /\ req'[h].op = req[h].op
          /\ req'[h].on = req[h].on
          /\ req'[h].branch = req[h].branch

\* A new request slot value for one handler leaves the others alone.
LEMMA Set1 ==
    ASSUME TypeOK, NEW h \in Handlers, NEW r \in Requests,
           req' = [req EXCEPT ![h] = r]
    PROVE  /\ req' \in [Handlers -> Requests] /\ req'[h] = r
           /\ \A g \in Handlers \ {h} : req'[g] = req[g]
  BY DEF TypeOK

\* A request that goes to another step, or ends.
LEMMA GoesTo ==
    ASSUME TypeOK, NEW h \in Handlers, NEW step \in Steps,
           Inside(h), step \notin {"none", "gate", "resolve"},
           GoTo(h, step)
    PROVE  Moves(h) /\ req'[h].step = step
  <1>1. /\ [req[h] EXCEPT !.step = step] \in Requests
        /\ [req[h] EXCEPT !.step = step].step = step
        /\ [req[h] EXCEPT !.step = step].op = req[h].op
        /\ [req[h] EXCEPT !.step = step].on = req[h].on
        /\ [req[h] EXCEPT !.step = step].branch = req[h].branch
    BY DEF TypeOK, Requests
  <1>2. req' = [req EXCEPT ![h] = [req[h] EXCEPT !.step = step]]
    BY DEF GoTo, TypeOK
  <1> QED
    BY <1>1, <1>2, Set1 DEF Moves

LEMMA Ending ==
    ASSUME TypeOK, NEW h \in Handlers, Ends(h)
    PROVE  Moves(h) /\ req'[h] = Idle
  <1>1. req' = [req EXCEPT ![h] = Idle]
    BY DEF Ends
  <1> QED
    BY <1>1, Set1, Kinds DEF Moves

\* The record is a history or none, and no worktree's but its own.
LEMMA Recording ==
    ASSUME TypeOK, NEW h \in Handlers, Record(h)
    PROVE  /\ undo' \in [Worktrees -> SUBSET Commits]
           /\ pushes' \in [Worktrees -> Pushes]
  <1>1. Recorded(h) \in SUBSET Commits
    BY DEF TypeOK, Recorded, Requests
  <1>2. req[h].on \in Worktrees
    BY DEF TypeOK, Requests
  <1>3. Since(h) \in Pushes
    BY <1>2 DEF TypeOK, Since, Pushes
  <1> QED
    BY <1>1, <1>2, <1>3 DEF TypeOK, Record

\* A completed operation ends, or repairs every reference there is.
LEMMA Completing ==
    ASSUME TypeOK, NEW h \in Handlers, Inside(h), Completed(h)
    PROVE  /\ Moves(h)
           /\ undo' \in [Worktrees -> SUBSET Commits]
           /\ pushes' \in [Worktrees -> Pushes]
           /\ req'[h] = Idle \/ req'[h].step = "repair"
           /\ req[h].op \in RewritesHistory /\ OnOwn(h) =>
                \A t \in Tasks : refs[t] # {} =>
                    /\ req'[h].step = "repair" /\ req'[h].on = Own
                    /\ t \in req'[h].left
  <1> DEFINE left == {t \in Tasks : refs[t] # {}}
             r == [req[h] EXCEPT !.step = "repair", !.left = left]
             rewrites == req[h].op \in RewritesHistory /\ OnOwn(h)
  <1>1. CASE rewrites /\ \E t \in Tasks : refs[t] # {}
    <2>1. /\ r \in Requests /\ r.step = "repair" /\ r.left = left
          /\ r.op = req[h].op /\ r.on = req[h].on /\ r.branch = req[h].branch
      BY DEF TypeOK, Requests, Steps
    <2>2. /\ req' = [req EXCEPT ![h].step = "repair", ![h].left = left]
          /\ UNCHANGED <<undo, pushes>>
      BY <1>1 DEF Completed
    <2>3. req' = [req EXCEPT ![h] = r]
      BY <2>2 DEF TypeOK
    <2>4. /\ req' \in [Handlers -> Requests] /\ req'[h] = r
          /\ \A g \in Handlers \ {h} : req'[g] = req[g]
      BY <2>1, <2>3, Set1
    <2>5. Moves(h)
      BY <2>1, <2>4 DEF Moves
    <2> QED
      BY <1>1, <2>1, <2>2, <2>4, <2>5 DEF TypeOK, OnOwn
  <1>2. CASE ~(rewrites /\ \E t \in Tasks : refs[t] # {})
    <2>1. Record(h) /\ Ends(h)
      BY <1>2 DEF Completed
    <2> QED
      BY <1>2, <2>1, Ending, Recording
  <1> QED
    BY <1>1, <1>2

-----------------------------------------------------------------------------
(* What keeps the invariant.                                               *)

\* A request that moves inside the wrapper, on its own worktree.
LEMMA Calm ==
    ASSUME IInv, NEW h \in Handlers, TypeOK', RefInv', Moves(h),
           odd \subseteq odd', UNCHANGED <<status, raw>>,
           head'[Own] = head[Own],
           \/ UNCHANGED secret \/ ~secret'
           \/ (Inside(h) /\ OnOwn(h)),
           req'[h].step = "run" /\ req'[h].op \in CreatesCommit
             /\ req'[h].on = Own => ~secret',
           "leaked" \in odd' => "leaked" \in odd \/ ~Alone'
    PROVE  IInv'
  <1> USE DEF IInv
  <1>1. Apart'
    BY Kinds DEF Apart, Alone, Inside, Moves
  <1>2. TurnAlone'
    BY Kinds DEF TurnAlone, Alone, Inside, Moves, OnOwn, PastGate
  <1>3. Home'
    BY Kinds DEF Home, Inside, Moves, OnOwn
  <1>4. CleanIndex'
    <2> SUFFICES ASSUME Alone', NEW g \in Handlers, At(g, "run")',
                        (req[g].op \in CreatesCommit)', OnOwn(g)'
                 PROVE  ~secret'
      BY DEF CleanIndex
    <2>1. Alone
      BY DEF Alone
    <2>2. CASE g = h
      BY <2>2 DEF At, OnOwn
    <2>3. CASE g # h
      <3>1. req'[g] = req[g]
        BY <2>3 DEF Moves
      <3>2. At(g, "run") /\ req[g].op \in CreatesCommit /\ OnOwn(g)
        BY <3>1 DEF At, OnOwn
      <3>3. ~secret
        BY <2>1, <3>2 DEF CleanIndex
      <3>4. ~(Inside(h) /\ OnOwn(h))
        BY <2>1, <2>3, <3>2 DEF Apart, Inside, At, OnOwn
      <3>5. UNCHANGED secret \/ ~secret'
        BY <3>4
      <3> QED
        BY <3>3, <3>5, Zenon
    <2> QED
      BY <2>2, <2>3
  <1>5. ProtectedStaysOut'
    BY DEF ProtectedStaysOut, Alone
  <1> QED
    BY <1>1, <1>2, <1>3, <1>4, <1>5

\* The branch grows or stays, and whoever repairs goes on.
LEMMA RefsKept ==
    ASSUME IInv, TypeOK', UNCHANGED refs, odd \subseteq odd',
           IsPrefix(tip, tip'),
           \A g \in Handlers : At(g, "repair") => req'[g] = req[g]
    PROVE  RefInv'
  <1> SUFFICES ASSUME "half" \notin odd', NEW t \in Tasks, NEW sha \in refs[t]
               PROVE  IsPrefix(sha, tip') \/ Queued(t)'
    BY DEF RefInv
  <1>1. IsPrefix(sha, tip) \/ Queued(t)
    BY DEF IInv, RefInv
  <1>2. sha \in Commits /\ tip \in Commits /\ tip' \in Commits
    BY DEF IInv, TypeOK
  <1>3. Queued(t) => Queued(t)'
    BY DEF Queued, At, OnOwn
  <1> QED
    BY <1>1, <1>2, <1>3, PrefixTransitive

\* The branch is rewritten, and all the references there are are queued.
LEMMA RefsQueued ==
    ASSUME IInv, TypeOK', UNCHANGED refs, NEW h \in Handlers, OnOwn(h),
           Inside(h), req[h].op \in RewritesHistory, Completed(h)
    PROVE  RefInv'
  <1>1. \A t \in Tasks : refs[t] # {} => Queued(t)'
    BY Completing DEF IInv, Queued, At, OnOwn
  <1> QED
    BY <1>1 DEF RefInv

\* A request that has not passed its gates is nowhere yet.
LEMMA Asking ==
    ASSUME IInv, NEW h \in Handlers, Ask(h)
    PROVE  IInv'
  <1> USE DEF IInv
  <1>1. PICK op \in Ops, w \in {"checkout", Own}, b \in Branches :
          req' = [req EXCEPT ![h] =
              [Idle EXCEPT !.step = IF op = "push" THEN "gate" ELSE "resolve",
                           !.op = op, !.on = w, !.branch = b]]
    BY DEF Ask
  <1> DEFINE r == [Idle EXCEPT !.step = IF op = "push" THEN "gate"
                                                      ELSE "resolve",
                               !.op = op, !.on = w, !.branch = b]
  <1>2. /\ r \in Requests /\ r.op = op
        /\ r.step = IF op = "push" THEN "gate" ELSE "resolve"
    BY Kinds DEF Requests, Steps, Worktrees, Own
  <1>3. /\ req' \in [Handlers -> Requests] /\ req'[h] = r
        /\ \A g \in Handlers \ {h} : req'[g] = req[g]
    BY <1>1, <1>2, Set1
  <1> HIDE DEF r
  <1>4. ~At(h, "repair") /\ UNCHANGED <<places, history, rows, objective, odd>>
    BY DEF Ask, At
  <1>5. UNCHANGED <<branches, head, tip, published, secret, commits, undo, refs,
                    pushes, status, turns, raw, odd>>
    BY <1>4 DEF places, history, rows, objective
  <1>6. TypeOK'
    BY <1>3, <1>5 DEF TypeOK
  <1>7. RefInv'
    BY <1>3, <1>4, <1>5, <1>6, PrefixReflexive, RefsKept DEF TypeOK, At
  <1>8. Apart' /\ Home' /\ CleanIndex'
    BY <1>2, <1>3, <1>5 DEF Apart, Home, CleanIndex, Alone, Inside, OnOwn, At
  <1>9. TurnAlone'
    BY <1>2, <1>3, <1>5 DEF TurnAlone, Alone, Inside, OnOwn, PastGate
  <1>10. ProtectedStaysOut'
    BY <1>5 DEF ProtectedStaysOut
  <1> QED
    BY <1>6, <1>7, <1>8, <1>9, <1>10

\* No push of the objective's branch passes while the objective writes.
LEMMA Gating ==
    ASSUME IInv, NEW h \in Handlers, PushGate(h)
    PROVE  IInv'
  <1> USE DEF IInv
  <1>1. UNCHANGED <<branches, head, tip, published, secret, commits, undo, refs,
                    pushes, status, turns, raw, odd>>
    BY DEF PushGate, places, history, rows, objective
  <1>2. CASE Ends(h)
    <2>1. Moves(h) /\ req'[h] = Idle
      BY <1>2, Ending
    <2>2. TypeOK'
      BY <1>1, <2>1 DEF TypeOK, Moves
    <2>3. RefInv'
      BY <1>1, <2>1, <2>2, PrefixReflexive, RefsKept
         DEF TypeOK, Moves, At, PushGate
    <2> QED
      BY <1>1, <2>1, <2>2, <2>3, Calm, Kinds
  <1>3. CASE GoTo(h, "resolve") /\ ~PushGated(h)
    <2> DEFINE r == [req[h] EXCEPT !.step = "resolve"]
    <2>1. /\ r \in Requests /\ r.step = "resolve" /\ r.op = req[h].op
          /\ r.on = req[h].on /\ r.branch = req[h].branch
      BY DEF TypeOK, Requests, Steps
    <2>2. /\ req' \in [Handlers -> Requests] /\ req'[h] = r
          /\ \A g \in Handlers \ {h} : req'[g] = req[g]
      BY <1>3, <2>1, Set1 DEF GoTo, TypeOK
    <2> HIDE DEF r
    <2>3. TypeOK'
      BY <1>1, <2>2 DEF TypeOK
    <2>4. RefInv'
      BY <1>1, <2>2, <2>3, PrefixReflexive, RefsKept DEF TypeOK, At, PushGate
    <2>5. Apart' /\ Home' /\ CleanIndex'
      BY <1>1, <2>1, <2>2
         DEF Apart, Home, CleanIndex, Alone, Inside, OnOwn, At
    <2>6. TurnAlone'
      BY <1>1, <1>3, <2>1, <2>2
         DEF TurnAlone, Alone, Inside, OnOwn, PastGate, PushGated
    <2>7. ProtectedStaysOut'
      BY <1>1 DEF ProtectedStaysOut
    <2> QED
      BY <2>3, <2>4, <2>5, <2>6, <2>7
  <1> QED
    BY <1>2, <1>3 DEF PushGate

\* A request enters where nobody is, or the overlap is noted.
LEMMA Resolving ==
    ASSUME IInv, NEW h \in Handlers, Resolve(h)
    PROVE  IInv'
  <1> USE DEF IInv
  <1>1. UNCHANGED <<branches, head, tip, published, secret, commits, undo, refs,
                    pushes, status, turns, raw>>
    BY DEF Resolve, places, history, rows, objective
  <1>2. CASE Ends(h) /\ UNCHANGED odd
    <2>1. Moves(h) /\ req'[h] = Idle
      BY <1>2, Ending
    <2>2. TypeOK'
      BY <1>1, <1>2, <2>1 DEF TypeOK, Moves
    <2>3. RefInv'
      BY <1>1, <1>2, <2>1, <2>2, PrefixReflexive, RefsKept
         DEF TypeOK, Moves, At, Resolve
    <2> QED
      BY <1>1, <1>2, <2>1, <2>2, <2>3, Calm, Kinds
  <1>3. CASE ~Refused(h)
    <2>1. PICK to \in IF req[h].op = "undo" THEN undo[req[h].on] ELSE {<<>>} :
            req' = [req EXCEPT ![h].step = "head", ![h].to = to]
      BY <1>3 DEF Resolve
    <2> DEFINE r == [req[h] EXCEPT !.step = "head", !.to = to]
    <2>2. <<>> \in Commits /\ req[h] \in Requests
      BY DEF TypeOK, Commits
    <2>3. to \in Commits
      BY <2>2 DEF TypeOK, Requests
    <2>4. /\ r \in Requests /\ r.step = "head" /\ r.op = req[h].op
          /\ r.on = req[h].on /\ r.branch = req[h].branch
      BY <2>2, <2>3 DEF Requests, Steps
    <2>5. /\ req' \in [Handlers -> Requests] /\ req'[h] = r
          /\ \A g \in Handlers \ {h} : req'[g] = req[g]
      BY <2>1, <2>4, Set1 DEF TypeOK
    <2> HIDE DEF r
    <2>6. /\ odd \subseteq odd' /\ odd' \subseteq odd \cup {"overlap"}
          /\ (\E g \in Handlers \ {h} : PastGate(g) /\ Touches(g, req[h].on))
                => ~Alone'
      BY <1>3 DEF Resolve, Alone
    <2>7. TypeOK'
      BY <1>1, <2>5, <2>6 DEF TypeOK
    <2>8. RefInv'
      BY <1>1, <2>5, <2>6, <2>7, PrefixReflexive, RefsKept
         DEF TypeOK, At, Resolve
    <2>9. Apart'
      <3>1. Alone' => \A g \in Handlers \ {h} :
                        Inside(g) => req[g].on # req[h].on
        BY <2>6 DEF PastGate, Touches, Inside
      <3> QED
        BY <2>4, <2>5, <2>6, <3>1 DEF Apart, Alone, Inside
    <2>10. /\ ~(OnOwn(h) /\ status = "busy")
           /\ ~(OnOwn(h) /\ req[h].op = "checkout")
      BY <1>3 DEF Refused
    <2>11. Home' /\ CleanIndex'
      BY <1>1, <2>4, <2>5, <2>6, <2>10
         DEF Home, CleanIndex, Alone, Inside, OnOwn, At
    <2>12. req[h].op = "push" => PastGate(h)
      BY DEF PastGate, Resolve, At
    <2>13. TurnAlone'
      BY <1>1, <2>4, <2>5, <2>6, <2>10, <2>12
         DEF TurnAlone, Alone, Inside, OnOwn, PastGate
    <2>14. ProtectedStaysOut'
      BY <2>6 DEF ProtectedStaysOut
    <2> QED
      BY <2>7, <2>8, <2>9, <2>11, <2>13, <2>14
  <1> QED
    BY <1>2, <1>3 DEF Resolve

\* Nothing that commits the objective's index runs before it is unstaged.
LEMMA ReadingHead ==
    ASSUME IInv, NEW h \in Handlers, ReadHead(h)
    PROVE  IInv'
  <1> USE DEF IInv
  <1>1. UNCHANGED <<branches, head, tip, published, secret, commits, undo, refs,
                    pushes, status, turns, raw, odd>>
    BY DEF ReadHead, places, history, rows, objective
  <1> DEFINE step == CASE req[h].op \in {"push", "pull"} -> "remote"
                       [] req[h].op \in CreatesCommit /\ OnOwn(h) -> "unstage"
                       [] OTHER -> "run"
             to == IF req[h].op = "push" /\ req[h].branch = "own"
                     THEN tip ELSE req[h].to
             r == [req[h] EXCEPT !.before = Sha(req[h].on), !.to = to,
                                 !.step = step]
  <1>2. req[h] \in Requests /\ <<>> \in Commits /\ Inside(h)
    BY DEF TypeOK, Commits, ReadHead, At, Inside
  <1>3. Sha(req[h].on) \in Commits /\ to \in Commits
    BY <1>2 DEF Sha, TypeOK, Requests
  <1>4. /\ step \in {"remote", "unstage", "run"}
        /\ step = "run" => ~(req[h].op \in CreatesCommit /\ OnOwn(h))
    OBVIOUS
  <1> HIDE DEF step, to
  <1>5. /\ r \in Requests /\ r.step = step /\ r.op = req[h].op
        /\ r.on = req[h].on /\ r.branch = req[h].branch
    BY <1>2, <1>3, <1>4 DEF Requests, Steps
  <1>6. req' = [req EXCEPT ![h] = r]
    <2>1. req' = [req EXCEPT ![h].before = Sha(req[h].on), ![h].to = to,
                             ![h].step = step]
      BY DEF ReadHead, step, to
    <2> QED
      BY <2>1 DEF TypeOK
  <1>7. /\ req' \in [Handlers -> Requests] /\ req'[h] = r
        /\ \A g \in Handlers \ {h} : req'[g] = req[g]
    BY <1>5, <1>6, Set1
  <1>8. Moves(h)
    BY <1>2, <1>4, <1>5, <1>7 DEF Moves
  <1>9. TypeOK'
    BY <1>1, <1>7 DEF TypeOK
  <1>10. RefInv'
    BY <1>1, <1>7, <1>9, PrefixReflexive, RefsKept DEF TypeOK, At, ReadHead
  <1>11. req'[h].step = "run" /\ req'[h].op \in CreatesCommit
           /\ req'[h].on = Own => ~secret'
    BY <1>4, <1>5, <1>7 DEF OnOwn
  <1> HIDE DEF r
  <1> QED
    BY <1>1, <1>8, <1>9, <1>10, <1>11, Calm

\* What is protected leaves the index.
LEMMA Unstaging ==
    ASSUME IInv, NEW h \in Handlers, Unstage(h)
    PROVE  IInv'
  <1> USE DEF IInv
  <1>1. /\ UNCHANGED <<branches, head, tip, published, commits, undo, refs,
                       pushes, status, turns, raw, odd>>
        /\ secret' = FALSE
    BY DEF Unstage, Unprotected, places, rows, objective
  <1>2. Inside(h)
    BY DEF Unstage, At, Inside
  <1>3. Moves(h)
    BY <1>2, GoesTo DEF Unstage, Steps
  <1>4. TypeOK'
    BY <1>1, <1>3 DEF TypeOK, Moves
  <1>5. RefInv'
    BY <1>1, <1>3, <1>4, PrefixReflexive, RefsKept
       DEF TypeOK, Moves, At, Unstage
  <1> QED
    BY <1>1, <1>3, <1>4, <1>5, Calm

\* A reference out of reach is dropped before the list forgets it.
LEMMA Repairing ==
    ASSUME IInv, NEW h \in Handlers, Repair(h)
    PROVE  IInv'
  <1> USE DEF IInv
  <1>1. PICK t \in req[h].left :
          /\ refs' = [refs EXCEPT ![t] = {sha \in @ : Survives(sha)}]
          /\ IF req[h].left = {t}
               THEN Record(h) /\ Ends(h)
               ELSE /\ req' = [req EXCEPT ![h].left = @ \ {t}]
                    /\ UNCHANGED <<undo, pushes>>
    BY DEF Repair
  <1>2. UNCHANGED <<branches, head, tip, published, secret, commits, status,
                    turns, raw, odd>>
    BY DEF Repair, places, history, objective
  <1>3. Inside(h) /\ At(h, "repair") /\ req[h] \in Requests
    BY DEF Repair, At, Inside, TypeOK
  <1>4. t \in Tasks
    BY <1>3 DEF Requests
  <1>5. /\ refs' \in [Tasks -> SUBSET Commits]
        /\ \A sha \in refs'[t] : IsPrefix(sha, tip)
        /\ \A u \in Tasks \ {t} : refs'[u] = refs[u]
    BY <1>1, <1>4 DEF TypeOK, Survives
  <1>6. /\ Moves(h) /\ req'[h].step # "run"
        /\ undo' \in [Worktrees -> SUBSET Commits]
        /\ pushes' \in [Worktrees -> Pushes]
        /\ \A u \in req[h].left \ {t} :
             req'[h].step = "repair" /\ req'[h].on = req[h].on
             /\ u \in req'[h].left
    <2>1. CASE req[h].left = {t}
      BY <1>1, <2>1, Ending, Recording, Kinds
    <2>2. CASE req[h].left # {t}
      <3> DEFINE r == [req[h] EXCEPT !.left = req[h].left \ {t}]
      <3>1. /\ r \in Requests /\ r.step = "repair" /\ r.op = req[h].op
            /\ r.on = req[h].on /\ r.branch = req[h].branch
            /\ r.left = req[h].left \ {t}
        BY <1>3 DEF Requests, At
      <3>2. req' = [req EXCEPT ![h] = r] /\ UNCHANGED <<undo, pushes>>
        BY <1>1, <2>2 DEF TypeOK
      <3>3. /\ req' \in [Handlers -> Requests] /\ req'[h] = r
            /\ \A g \in Handlers \ {h} : req'[g] = req[g]
        BY <3>1, <3>2, Set1
      <3> HIDE DEF r
      <3> QED
        BY <1>3, <3>1, <3>2, <3>3 DEF Moves, TypeOK
    <2> QED
      BY <2>1, <2>2
  <1>7. TypeOK'
    BY <1>2, <1>5, <1>6 DEF TypeOK, Moves
  <1>8. RefInv'
    <2> SUFFICES ASSUME "half" \notin odd', NEW u \in Tasks,
                        NEW sha \in refs'[u]
                 PROVE  IsPrefix(sha, tip') \/ Queued(u)'
      BY DEF RefInv
    <2>1. CASE u = t
      BY <1>2, <1>5, <2>1
    <2>2. CASE u # t
      <3>1. sha \in refs[u]
        BY <1>5, <2>2
      <3>2. IsPrefix(sha, tip) \/ Queued(u)
        BY <1>2, <3>1 DEF RefInv
      <3>3. Queued(u) => Queued(u)'
        BY <1>6, <2>2 DEF Queued, At, OnOwn, Moves
      <3> QED
        BY <1>2, <3>2, <3>3
    <2> QED
      BY <2>1, <2>2
  <1> QED
    BY <1>2, <1>6, <1>7, <1>8, Calm

\* A request that fails leaves everything as it was.
LEMMA Failing ==
    ASSUME IInv, NEW h \in Handlers, Fails(h)
    PROVE  IInv'
  <1> USE DEF IInv
  <1>1. UNCHANGED <<branches, head, tip, published, secret, commits, undo, refs,
                    pushes, status, turns, raw, odd>>
    BY DEF Fails, places, history, rows, objective
  <1>2. ~At(h, "repair")
    BY DEF Fails, At, InRemote
  <1>3. Moves(h) /\ req'[h] = Idle
    BY Ending DEF Fails
  <1>4. TypeOK'
    BY <1>1, <1>3 DEF TypeOK, Moves
  <1>5. RefInv'
    BY <1>1, <1>2, <1>3, <1>4, PrefixReflexive, RefsKept DEF TypeOK, Moves, At
  <1> QED
    BY <1>1, <1>3, <1>4, <1>5, Calm, Kinds

\* So does a push or a pull.
LEMMA FailingRemote ==
    ASSUME IInv, NEW h \in Handlers, RemoteFails(h)
    PROVE  IInv'
  <1> USE DEF IInv
  <1>1. UNCHANGED <<branches, head, tip, published, secret, commits, undo, refs,
                    status, turns, raw, odd>>
    BY DEF RemoteFails, places, history, objective
  <1>2. ~At(h, "repair")
    BY DEF RemoteFails, At, InRemote
  <1>3. Moves(h) /\ req'[h] = Idle
    BY Ending DEF RemoteFails
  <1>4. TypeOK'
    <2>1. pushes' \in [Worktrees -> Pushes]
      BY DEF RemoteFails, TypeOK, Pushes
    <2> QED
      BY <1>1, <1>3, <2>1 DEF TypeOK, Moves
  <1>5. RefInv'
    BY <1>1, <1>2, <1>3, <1>4, PrefixReflexive, RefsKept DEF TypeOK, Moves, At
  <1> QED
    BY <1>1, <1>3, <1>4, <1>5, Calm, Kinds

LEMMA Killing ==
    ASSUME IInv, NEW h \in Handlers, Kill(h)
    PROVE  IInv'
  BY FailingRemote DEF Kill

\* A process that is asked to end has not ended.
LEMMA Terminating ==
    ASSUME IInv, NEW h \in Handlers, Terminate(h)
    PROVE  IInv'
  <1> USE DEF IInv
  <1>1. UNCHANGED <<branches, head, tip, published, secret, commits, undo, refs,
                    pushes, status, turns, raw, odd>>
    BY DEF Terminate, places, history, rows, objective
  <1>2. Inside(h) /\ ~At(h, "repair")
    BY DEF Terminate, Timed, At, Inside
  <1>3. Moves(h) /\ req'[h].step = "termed"
    BY <1>2, GoesTo DEF Terminate, Steps
  <1>4. TypeOK'
    BY <1>1, <1>3 DEF TypeOK, Moves
  <1>5. RefInv'
    BY <1>1, <1>2, <1>3, <1>4, PrefixReflexive, RefsKept DEF TypeOK, Moves, At
  <1> QED
    BY <1>1, <1>3, <1>4, <1>5, Calm

\* On another worktree nothing of the objective's changes.
LEMMA RunningElsewhere ==
    ASSUME IInv, NEW h \in Handlers, RunElsewhere(h)
    PROVE  IInv'
  <1> USE DEF IInv
  <1>1. Inside(h) /\ ~At(h, "repair") /\ Completed(h)
    BY DEF RunElsewhere, Runs, At, Inside
  <1>2. /\ Moves(h) /\ req'[h].step # "run"
        /\ undo' \in [Worktrees -> SUBSET Commits]
        /\ pushes' \in [Worktrees -> Pushes]
    BY <1>1, Completing, Kinds
  <1>3. UNCHANGED <<branches, head, tip, published, secret, commits, refs,
                    status, turns, raw, odd>>
    BY DEF RunElsewhere, places, history, objective
  <1>4. TRUE
    OBVIOUS
  <1>5. TypeOK'
    BY <1>2, <1>3, <1>4 DEF TypeOK, Moves
  <1>6. RefInv'
    BY <1>1, <1>2, <1>3, <1>4, <1>5, PrefixReflexive, RefsKept
       DEF TypeOK, Moves, At
  <1> QED
    BY <1>1, <1>2, <1>3, <1>4, <1>5, <1>6, Calm DEF Alone

\* Staging changes what is staged.
LEMMA Readying ==
    ASSUME IInv, NEW h \in Handlers, Ready(h)
    PROVE  IInv'
  <1> USE DEF IInv
  <1>1. Inside(h) /\ ~At(h, "repair") /\ Completed(h)
    BY DEF Ready, OwnRuns, Runs, At, Inside
  <1>2. /\ Moves(h) /\ req'[h].step # "run"
        /\ undo' \in [Worktrees -> SUBSET Commits]
        /\ pushes' \in [Worktrees -> Pushes]
    BY <1>1, Completing, Kinds
  <1>3. UNCHANGED <<branches, head, tip, published, commits, refs, status,
                    turns, raw, odd>>
    BY DEF Ready, places, history, objective
  <1>4. secret' \in BOOLEAN /\ OnOwn(h)
    BY DEF Ready, OwnRuns
  <1>5. TypeOK'
    BY <1>2, <1>3, <1>4 DEF TypeOK, Moves
  <1>6. RefInv'
    BY <1>1, <1>2, <1>3, <1>4, <1>5, PrefixReflexive, RefsKept
       DEF TypeOK, Moves, At
  <1> QED
    BY <1>1, <1>2, <1>3, <1>4, <1>5, <1>6, Calm DEF Alone

\* A new branch is no worktree's.
LEMMA CreatingBranch ==
    ASSUME IInv, NEW h \in Handlers, CreateBranch(h)
    PROVE  IInv'
  <1> USE DEF IInv
  <1>1. Inside(h) /\ ~At(h, "repair") /\ Completed(h)
    BY DEF CreateBranch, Runs, At, Inside
  <1>2. /\ Moves(h) /\ req'[h].step # "run"
        /\ undo' \in [Worktrees -> SUBSET Commits]
        /\ pushes' \in [Worktrees -> Pushes]
    BY <1>1, Completing, Kinds
  <1>3. UNCHANGED <<head, tip, published, secret, commits, refs, status, turns,
                    raw, odd>>
    BY DEF CreateBranch, places, history, objective
  <1>4. branches' \subseteq Branches
    BY DEF CreateBranch, TypeOK, Requests
  <1>5. TypeOK'
    BY <1>2, <1>3, <1>4 DEF TypeOK, Moves
  <1>6. RefInv'
    BY <1>1, <1>2, <1>3, <1>4, <1>5, PrefixReflexive, RefsKept
       DEF TypeOK, Moves, At
  <1> QED
    BY <1>1, <1>2, <1>3, <1>4, <1>5, <1>6, Calm DEF Alone

\* No request moves the objective's worktree to another branch.
LEMMA CheckingOut ==
    ASSUME IInv, NEW h \in Handlers, Checkout(h)
    PROVE  IInv'
  <1> USE DEF IInv
  <1>1. Inside(h) /\ ~At(h, "repair") /\ Completed(h)
    BY DEF Checkout, Runs, At, Inside
  <1>2. /\ Moves(h) /\ req'[h].step # "run"
        /\ undo' \in [Worktrees -> SUBSET Commits]
        /\ pushes' \in [Worktrees -> Pushes]
    BY <1>1, Completing, Kinds
  <1>3. UNCHANGED <<branches, tip, published, secret, commits, refs, status,
                    turns, raw, odd>>
    BY DEF Checkout, places, history, objective
  <1>4. /\ head' \in [Worktrees -> Branches \cup {"none"}]
        /\ head'[Own] = head[Own]
    <2>1. req[h].op = "checkout" /\ req[h] \in Requests
      BY DEF Checkout, Runs, TypeOK
    <2>2. req[h].on # Own
      BY <1>1, <2>1 DEF Home, OnOwn
    <2> QED
      BY <2>1, <2>2 DEF Checkout, TypeOK, Requests, Own, Worktrees
  <1>5. TypeOK'
    BY <1>2, <1>3, <1>4 DEF TypeOK, Moves
  <1>6. RefInv'
    BY <1>1, <1>2, <1>3, <1>4, <1>5, PrefixReflexive, RefsKept
       DEF TypeOK, Moves, At
  <1> QED
    BY <1>1, <1>2, <1>3, <1>4, <1>5, <1>6, Calm DEF Alone

\* A push that returns clears its record.
LEMMA ReturningPush ==
    ASSUME IInv, NEW h \in Handlers, PushReturns(h)
    PROVE  IInv'
  <1> USE DEF IInv
  <1>1. Inside(h) /\ ~At(h, "repair") /\ Completed(h)
    BY DEF PushReturns, Runs, At, Inside
  <1>2. /\ Moves(h) /\ req'[h].step # "run"
        /\ undo' \in [Worktrees -> SUBSET Commits]
        /\ pushes' \in [Worktrees -> Pushes]
    BY <1>1, Completing, Kinds
  <1>3. UNCHANGED <<branches, head, tip, published, secret, commits, refs,
                    status, turns, raw, odd>>
    BY DEF PushReturns, places, history, objective
  <1>4. TRUE
    OBVIOUS
  <1>5. TypeOK'
    BY <1>2, <1>3, <1>4 DEF TypeOK, Moves
  <1>6. RefInv'
    BY <1>1, <1>2, <1>3, <1>4, <1>5, PrefixReflexive, RefsKept
       DEF TypeOK, Moves, At
  <1> QED
    BY <1>1, <1>2, <1>3, <1>4, <1>5, <1>6, Calm DEF Alone

\* A pull only moves the branch forward.
LEMMA ReturningPull ==
    ASSUME IInv, NEW h \in Handlers, PullReturns(h)
    PROVE  IInv'
  <1> USE DEF IInv
  <1>1. Inside(h) /\ ~At(h, "repair") /\ Completed(h)
    BY DEF PullReturns, Runs, At, Inside
  <1>2. /\ Moves(h) /\ req'[h].step # "run"
        /\ undo' \in [Worktrees -> SUBSET Commits]
        /\ pushes' \in [Worktrees -> Pushes]
    BY <1>1, Completing, Kinds
  <1>3. UNCHANGED <<branches, head, published, secret, commits, refs, status,
                    turns, raw, odd>>
    BY DEF PullReturns, places, history, objective
  <1>4. tip' \in Commits /\ IsPrefix(tip, tip')
    BY PrefixReflexive DEF PullReturns, TypeOK
  <1>5. TypeOK'
    BY <1>2, <1>3, <1>4 DEF TypeOK, Moves
  <1>6. RefInv'
    BY <1>1, <1>2, <1>3, <1>4, <1>5, RefsKept DEF Moves, At
  <1> QED
    BY <1>1, <1>2, <1>3, <1>4, <1>5, <1>6, Calm DEF Alone

\* A commit is made of an index that was unstaged, and grows the branch.
LEMMA Committing ==
    ASSUME IInv, NEW h \in Handlers, CommitStaged(h)
    PROVE  IInv'
  <1> USE DEF IInv
  <1>1. Inside(h) /\ ~At(h, "repair") /\ Completed(h)
    BY DEF CommitStaged, OwnRuns, Runs, At, Inside
  <1>2. /\ Moves(h) /\ req'[h].step # "run"
        /\ undo' \in [Worktrees -> SUBSET Commits]
        /\ pushes' \in [Worktrees -> Pushes]
    BY <1>1, Completing, Kinds
  <1>3. /\ UNCHANGED <<branches, head, published, refs, status, turns, raw>>
        /\ commits' \in Nat /\ OnOwn(h) /\ req[h].op \in CreatesCommit
        /\ At(h, "run")
        /\ odd \subseteq odd' /\ odd' \subseteq odd \cup {"leaked"}
        /\ UNCHANGED secret \/ secret' = FALSE
        /\ secret \/ UNCHANGED odd
    BY Kinds DEF CommitStaged, OwnRuns, Runs, NewCommit, NoteLeak, places,
       objective, TypeOK
  <1>4. tip' \in Commits /\ IsPrefix(tip, tip')
    BY <1>3, PrefixAppended DEF CommitStaged, TypeOK
  <1>5. TypeOK'
    BY <1>2, <1>3, <1>4 DEF TypeOK, Moves
  <1>6. RefInv'
    BY <1>1, <1>2, <1>3, <1>4, <1>5, RefsKept DEF Moves, At
  <1>7. "leaked" \in odd' => "leaked" \in odd \/ ~Alone'
    BY <1>3 DEF CleanIndex, Alone
  <1> QED
    BY <1>1, <1>2, <1>3, <1>5, <1>6, <1>7, Calm

\* An amendment queues every reference.
LEMMA Amending ==
    ASSUME IInv, NEW h \in Handlers, Amend(h)
    PROVE  IInv'
  <1> USE DEF IInv
  <1>1. Inside(h) /\ ~At(h, "repair") /\ Completed(h)
    BY DEF Amend, OwnRuns, Runs, At, Inside
  <1>2. /\ Moves(h) /\ req'[h].step # "run"
        /\ undo' \in [Worktrees -> SUBSET Commits]
        /\ pushes' \in [Worktrees -> Pushes]
    BY <1>1, Completing, Kinds
  <1>3. /\ UNCHANGED <<branches, head, published, refs, status, turns, raw>>
        /\ commits' \in Nat /\ OnOwn(h) /\ req[h].op \in CreatesCommit
        /\ At(h, "run")
        /\ odd \subseteq odd' /\ odd' \subseteq odd \cup {"leaked"}
        /\ UNCHANGED secret \/ secret' = FALSE
        /\ secret \/ UNCHANGED odd
    BY Kinds DEF Amend, OwnRuns, Runs, NewCommit, NoteLeak, places,
       objective, TypeOK
  <1>4. tip' \in Commits
    BY <1>3, FrontCommits, PrefixAppended DEF Amend, TypeOK
  <1>8. req[h].op \in RewritesHistory
    BY Kinds DEF Amend, OwnRuns, Runs
  <1>5. TypeOK'
    BY <1>2, <1>3, <1>4 DEF TypeOK, Moves
  <1>6. RefInv'
    BY <1>1, <1>3, <1>5, <1>8, RefsQueued
  <1>7. "leaked" \in odd' => "leaked" \in odd \/ ~Alone'
    BY <1>3 DEF CleanIndex, Alone
  <1> QED
    BY <1>1, <1>2, <1>3, <1>5, <1>6, <1>7, Calm

\* So does a squash.
LEMMA Squashing ==
    ASSUME IInv, NEW h \in Handlers, Squash(h)
    PROVE  IInv'
  <1> USE DEF IInv
  <1>1. Inside(h) /\ ~At(h, "repair") /\ Completed(h)
    BY DEF Squash, OwnRuns, Runs, At, Inside
  <1>2. /\ Moves(h) /\ req'[h].step # "run"
        /\ undo' \in [Worktrees -> SUBSET Commits]
        /\ pushes' \in [Worktrees -> Pushes]
    BY <1>1, Completing, Kinds
  <1>3. /\ UNCHANGED <<branches, head, published, refs, status, turns, raw>>
        /\ commits' \in Nat /\ OnOwn(h) /\ req[h].op \in CreatesCommit
        /\ At(h, "run")
        /\ odd \subseteq odd' /\ odd' \subseteq odd \cup {"leaked"}
        /\ UNCHANGED secret \/ secret' = FALSE
        /\ secret \/ UNCHANGED odd
    BY Kinds DEF Squash, OwnRuns, Runs, NewCommit, NoteLeak, places,
       objective, TypeOK
  <1>4. tip' \in Commits
    <2>1. PICK from \in 1..Len(tip) :
            tip' = Append(SubSeq(tip, 1, from - 1), commits')
      BY DEF Squash
    <2>2. tip \in Commits /\ from - 1 \in Int /\ from - 1 <= Len(tip)
      BY DEF TypeOK, Commits
    <2> QED
      BY <1>3, <2>1, <2>2, Cut, PrefixAppended
  <1>8. req[h].op \in RewritesHistory
    BY Kinds DEF Squash, OwnRuns, Runs
  <1>5. TypeOK'
    BY <1>2, <1>3, <1>4 DEF TypeOK, Moves
  <1>6. RefInv'
    BY <1>1, <1>3, <1>5, <1>8, RefsQueued
  <1>7. "leaked" \in odd' => "leaked" \in odd \/ ~Alone'
    BY <1>3 DEF CleanIndex, Alone
  <1> QED
    BY <1>1, <1>2, <1>3, <1>5, <1>6, <1>7, Calm

\* A squash that stops half-way says so.
LEMMA Halving ==
    ASSUME IInv, NEW h \in Handlers, SquashHalf(h)
    PROVE  IInv'
  <1> USE DEF IInv
  <1>1. /\ UNCHANGED <<branches, head, published, commits, undo, refs, pushes,
                       status, turns, raw>>
        /\ odd' = odd \cup {"half"} /\ secret' \in BOOLEAN /\ OnOwn(h)
        /\ Inside(h)
    BY DEF SquashHalf, OwnRuns, Runs, At, Inside, places, rows, objective,
       TypeOK
  <1>2. tip' \in Commits
    <2>1. PICK from \in 1..Len(tip) : tip' = SubSeq(tip, 1, from - 1)
      BY DEF SquashHalf
    <2>2. tip \in Commits /\ from - 1 \in Int /\ from - 1 <= Len(tip)
      BY DEF TypeOK, Commits
    <2> QED
      BY <2>1, <2>2, Cut
  <1>3. Moves(h) /\ req'[h] = Idle
    BY Ending DEF SquashHalf
  <1>4. TypeOK'
    BY <1>1, <1>2, <1>3 DEF TypeOK, Moves
  <1>5. RefInv'
    BY <1>1 DEF RefInv
  <1> QED
    BY <1>1, <1>3, <1>4, <1>5, Calm, Kinds

\* drop and undo queue every reference.
LEMMA Resetting ==
    ASSUME IInv, NEW h \in Handlers, ResetHard(h)
    PROVE  IInv'
  <1> USE DEF IInv
  <1>1. Inside(h) /\ ~At(h, "repair") /\ Completed(h) /\ OnOwn(h)
        /\ req[h].op \in RewritesHistory
    BY Kinds DEF ResetHard, OwnRuns, Runs, At, Inside
  <1>2. /\ Moves(h) /\ req'[h].step # "run"
        /\ undo' \in [Worktrees -> SUBSET Commits]
        /\ pushes' \in [Worktrees -> Pushes]
    BY <1>1, Completing, Kinds
  <1>3. /\ UNCHANGED <<branches, head, published, commits, refs, status, turns,
                       raw, odd>>
        /\ secret' = FALSE
    BY DEF ResetHard, places, objective
  <1>4. tip' \in Commits
    BY FrontCommits DEF ResetHard, TypeOK, Requests
  <1>5. TypeOK'
    BY <1>2, <1>3, <1>4 DEF TypeOK, Moves
  <1>6. RefInv'
    BY <1>1, <1>3, <1>5, RefsQueued
  <1> QED
    BY <1>1, <1>2, <1>3, <1>5, <1>6, Calm

\* What the remote takes is a history.
LEMMA Accepting ==
    ASSUME IInv, NEW h \in Handlers, RemoteAccepts(h)
    PROVE  IInv'
  <1> USE DEF IInv
  <1>1. UNCHANGED <<branches, head, tip, secret, commits, undo, refs, status,
                    turns, raw, odd>>
    BY DEF RemoteAccepts, places, objective
  <1>2. req[h] \in Requests /\ Inside(h) /\ req[h].step \in {"remote", "termed"}
    BY DEF RemoteAccepts, InRemote, TypeOK, Inside
  <1> DEFINE r == [req[h] EXCEPT !.taken = TRUE]
  <1>3. /\ r \in Requests /\ r.step = req[h].step /\ r.op = req[h].op
        /\ r.on = req[h].on /\ r.branch = req[h].branch
    BY <1>2 DEF Requests
  <1>4. req' = [req EXCEPT ![h] = r]
    BY DEF RemoteAccepts, TypeOK
  <1>5. /\ req' \in [Handlers -> Requests] /\ req'[h] = r
        /\ \A g \in Handlers \ {h} : req'[g] = req[g]
    BY <1>3, <1>4, Set1
  <1> HIDE DEF r
  <1>6. Moves(h) /\ req'[h].step # "run" /\ ~At(h, "repair")
    BY <1>2, <1>3, <1>5 DEF Moves, Inside, At
  <1>7. published' \in Commits
    BY <1>2 DEF RemoteAccepts, TypeOK, Requests
  <1>8. TypeOK'
    <2>1. pushes' \in [Worktrees -> Pushes]
      BY DEF RemoteAccepts, Pushed, TypeOK, Pushes
    <2> QED
      BY <1>1, <1>5, <1>7, <2>1 DEF TypeOK
  <1>9. RefInv'
    BY <1>1, <1>5, <1>6, <1>8, PrefixReflexive, RefsKept DEF TypeOK, At
  <1> QED
    BY <1>1, <1>6, <1>8, <1>9, Calm

\* Branches and worktrees of the user's are no business of the objective's.
LEMMA Elsewhere ==
    ASSUME IInv, DeleteBranch \/ CreateWorktree \/ RemoveWorktree
    PROVE  IInv'
  <1> USE DEF IInv
  <1>1. UNCHANGED <<tip, published, secret, commits, undo, refs, pushes, status,
                    turns, raw, req, odd>>
    BY DEF DeleteBranch, CreateWorktree, RemoveWorktree, history, rows,
       objective
  <1>2. /\ branches' \subseteq Branches
        /\ head' \in [Worktrees -> Branches \cup {"none"}]
        /\ head'[Own] = head[Own]
    BY DEF DeleteBranch, CreateWorktree, RemoveWorktree, TypeOK, Worktrees, Own
  <1>3. TypeOK'
    BY <1>1, <1>2 DEF TypeOK
  <1>4. Apart' /\ TurnAlone' /\ Home' /\ CleanIndex' /\ ProtectedStaysOut'
    BY <1>1, <1>2 DEF Apart, TurnAlone, Home, CleanIndex, ProtectedStaysOut,
       Alone, Inside, PastGate, OnOwn, At
  <1>5. RefInv'
    BY <1>1, <1>3, PrefixReflexive, RefsKept DEF TypeOK
  <1> QED
    BY <1>3, <1>4, <1>5

\* A turn that begins while a request is at work in its worktree is noted; its
\* checkpoint grows the branch and is below it.
LEMMA StartingTurn ==
    ASSUME IInv, TurnStarts
    PROVE  IInv'
  <1> USE DEF IInv
  <1>1. /\ UNCHANGED <<branches, head, published, undo, pushes, req>>
        /\ status = "free" /\ status' = "busy" /\ turns' \in Nat
        /\ odd \subseteq odd' /\ odd' \subseteq odd \cup {"overlap"}
        /\ (\E h \in Handlers : PastGate(h) /\ Touches(h, Own)) => ~Alone'
    BY DEF TurnStarts, places, TypeOK, Alone
  <1>2. PICK t \in Tasks :
          \/ /\ NewCommit
             /\ tip' = Append(tip, commits')
             /\ refs' = [refs EXCEPT ![t] = {tip'}]
             /\ raw' = {commits'}
             /\ secret' = FALSE
          \/ /\ ~secret
             /\ refs' = [refs EXCEPT ![t] = {}]
             /\ UNCHANGED <<tip, raw, secret, commits>>
    BY DEF TurnStarts
  <1>3. /\ commits' \in Nat /\ raw' \subseteq Nat
    <2>1. CASE NewCommit /\ raw' = {commits'}
      BY <2>1 DEF NewCommit, TypeOK
    <2>2. CASE UNCHANGED <<raw, commits>>
      BY <2>2 DEF TypeOK
    <2> QED
      BY <1>2, <2>1, <2>2
  <1>4. secret' \in BOOLEAN /\ ~secret'
    <2>1. CASE secret' = FALSE
      BY <2>1
    <2>2. CASE ~secret /\ UNCHANGED secret
      <3>1. secret = FALSE
        BY <2>2 DEF TypeOK
      <3>2. secret' = FALSE
        BY <2>2, <3>1
      <3> QED
        BY <3>2
    <2> QED
      BY <1>2, <2>1, <2>2
  <1>5. tip' \in Commits /\ IsPrefix(tip, tip')
    <2>1. tip \in Commits
      BY DEF TypeOK
    <2>2. CASE tip' = Append(tip, commits')
      BY <1>3, <2>1, <2>2, PrefixAppended
    <2>3. CASE UNCHANGED tip
      BY <2>1, <2>3, PrefixReflexive
    <2> QED
      BY <1>2, <2>2, <2>3
  <1>6. /\ refs' \in [Tasks -> SUBSET Commits]
        /\ refs'[t] \subseteq {tip'}
        /\ \A u \in Tasks \ {t} : refs'[u] = refs[u]
    BY <1>2, <1>5 DEF TypeOK
  <1>7. TypeOK'
    BY <1>1, <1>3, <1>4, <1>5, <1>6 DEF TypeOK
  <1>8. Apart' /\ Home' /\ CleanIndex' /\ ProtectedStaysOut'
    BY <1>1, <1>4 DEF Apart, Home, CleanIndex, ProtectedStaysOut, Alone, Inside,
       OnOwn, At
  <1>9. TurnAlone'
    <2> SUFFICES ASSUME Alone', NEW h \in Handlers
                 PROVE  /\ Inside(h) => ~OnOwn(h)
                        /\ req[h].op = "push" /\ PastGate(h)
                             => req[h].branch # "own"
      BY <1>1 DEF TurnAlone, Inside, OnOwn, PastGate
    <2>1. ~(PastGate(h) /\ Touches(h, Own))
      BY <1>1
    <2>2. Inside(h) => PastGate(h)
      BY DEF Inside, PastGate
    <2> QED
      BY <2>1, <2>2 DEF Touches, OnOwn, Home
  <1>10. RefInv'
    <2> SUFFICES ASSUME "half" \notin odd', NEW u \in Tasks,
                        NEW sha \in refs'[u]
                 PROVE  IsPrefix(sha, tip') \/ Queued(u)'
      BY DEF RefInv
    <2>1. CASE u = t
      BY <1>5, <1>6, <2>1, PrefixReflexive
    <2>2. CASE u # t
      <3>1. sha \in refs[u] /\ sha \in Commits /\ tip \in Commits
        BY <1>6, <2>2 DEF TypeOK
      <3>2. IsPrefix(sha, tip) \/ Queued(u)
        BY <1>1, <3>1 DEF RefInv
      <3>3. Queued(u) => Queued(u)'
        BY <1>1 DEF Queued, At, OnOwn
      <3> QED
        BY <1>5, <3>1, <3>2, <3>3, PrefixTransitive
    <2> QED
      BY <2>1, <2>2
  <1> QED
    BY <1>7, <1>8, <1>9, <1>10

\* A turn that ends leaves its commits, which are whole now.
LEMMA EndingTurn ==
    ASSUME IInv, TurnEnds
    PROVE  IInv'
  <1> USE DEF IInv
  <1>1. /\ UNCHANGED <<branches, head, tip, published, secret, commits, undo,
                       refs, pushes, turns, req, odd>>
        /\ status' = "free" /\ raw' = {}
    BY DEF TurnEnds, places, history, rows
  <1>2. TypeOK'
    BY <1>1 DEF TypeOK
  <1>3. Apart' /\ TurnAlone' /\ Home' /\ CleanIndex' /\ ProtectedStaysOut'
    BY <1>1 DEF Apart, TurnAlone, Home, CleanIndex, ProtectedStaysOut, Alone,
       Inside, PastGate, OnOwn, At
  <1>4. RefInv'
    BY <1>1, <1>2, PrefixReflexive, RefsKept DEF TypeOK
  <1> QED
    BY <1>2, <1>3, <1>4

-----------------------------------------------------------------------------
(* The invariant.                                                          *)

\* Nothing has been asked and nothing committed.
LEMMA InitIInv == Init => IInv
  <1> SUFFICES ASSUME Init PROVE IInv
    OBVIOUS
  <1>1. <<>> \in Commits
    BY DEF Commits
  <1>2. TypeOK
    BY <1>1, Kinds DEF Init, TypeOK, Branches, Worktrees, Pushes
  <1>3. head[Own] = "own"
    BY DEF Init, Own, Worktrees
  <1>4. \A h \in Handlers : req[h] = Idle
    BY DEF Init
  <1>5. Apart /\ TurnAlone /\ Home /\ CleanIndex /\ ProtectedStaysOut /\ RefInv
    BY <1>3, <1>4, Kinds DEF Init, Apart, TurnAlone, Home, CleanIndex,
       ProtectedStaysOut, RefInv, Inside, At
  <1> QED
    BY <1>2, <1>5 DEF IInv

\* Every step keeps the invariant.
LEMMA StepIInv == IInv /\ [Next]_vars => IInv'
  <1> SUFFICES ASSUME IInv, [Next]_vars PROVE IInv'
    OBVIOUS
  <1>1. ASSUME NEW h \in Handlers, Ask(h) \/ Wrapper(h) PROVE IInv'
    BY <1>1, Asking, Gating, Resolving, ReadingHead, Unstaging, Repairing,
       Failing DEF Wrapper
  <1>2. ASSUME NEW h \in Handlers, Local(h) PROVE IInv'
    BY <1>2, RunningElsewhere, Readying, Committing, Amending, Squashing,
       Halving, Resetting, CreatingBranch, CheckingOut DEF Local
  <1>3. ASSUME NEW h \in Handlers, Network(h) PROVE IInv'
    BY <1>3, Accepting, ReturningPush, ReturningPull, FailingRemote,
       Terminating, Killing DEF Network
  <1>4. CASE DeleteBranch \/ CreateWorktree \/ RemoveWorktree
    BY <1>4, Elsewhere
  <1>5. CASE TurnStarts \/ TurnEnds
    BY <1>5, StartingTurn, EndingTurn
  <1>6. CASE UNCHANGED vars
    <2>1. UNCHANGED <<branches, head, tip, published, secret, commits, undo,
                      refs, pushes, status, turns, raw, req, odd>>
      BY <1>6 DEF vars
    <2>2. TypeOK'
      BY <2>1 DEF IInv, TypeOK
    <2>3. RefInv'
      BY <2>1, <2>2, PrefixReflexive, RefsKept DEF IInv, TypeOK
    <2> QED
      BY <2>1, <2>2, <2>3 DEF IInv, Apart, TurnAlone, Home, CleanIndex,
         ProtectedStaysOut, Alone, Inside, PastGate, OnOwn, At
  <1> QED
    BY <1>1, <1>2, <1>3, <1>4, <1>5, <1>6 DEF Next

\* The invariant holds throughout.
LEMMA Inductive == Spec => []IInv
  BY InitIInv, StepIInv, PTL DEF Spec

-----------------------------------------------------------------------------
(* The theorems.                                                           *)

\* The console's requests, records and references are well typed, however
\* many are under way.
THEOREM ConsoleTypeCorrect == Spec => []TypeOK
  BY Inductive, PTL DEF IInv

\* With any number of tasks and requests, no rewrite leaves a checkpoint row
\* naming a commit that is not below HEAD (mutate.ts:164-186).
THEOREM CheckpointsSafe == Spec => []CheckpointsReachable
  <1>1. IInv => CheckpointsReachable
    <2> SUFFICES ASSUME IInv, "half" \notin odd,
                        \A h \in Handlers : PastGate(h) => ~Touches(h, Own),
                        NEW t \in Tasks, NEW sha \in refs[t]
                 PROVE  IsPrefix(sha, tip)
      BY DEF CheckpointsReachable
    <2>1. ~Queued(t)
      <3> SUFFICES ASSUME NEW h \in Handlers, At(h, "repair"), OnOwn(h)
                   PROVE  FALSE
        BY DEF Queued
      <3>1. PastGate(h) /\ Touches(h, Own)
        BY DEF PastGate, Touches, At, OnOwn
      <3> QED
        BY <3>1
    <2> QED
      BY <2>1 DEF IInv, RefInv
  <1> QED
    BY <1>1, Inductive, PTL

\* No console commit carries a protected file into the objective's branch
\* (mutate.ts:126-146).
THEOREM ProtectedSafe == Spec => []ProtectedStaysOut
  BY Inductive, PTL DEF IInv

-----------------------------------------------------------------------------
(* Undo records and pushes.                                                *)

\* A push of w's own that the remote took, and that has still to come back.
Unreturned(h, w) ==
    InRemote(h) /\ req[h].op = "push" /\ req[h].taken /\ req[h].on = w

\* The record a push left behind what it published lasts as long as the push.
UndoInv ==
    \A w \in Worktrees : pushes[w] = "here" => \E h \in Handlers : Unreturned(h, w)

\* One request moves. It goes on being the push it was, or the record it left
\* behind is no more.
LEMMA Outlasting ==
    ASSUME UndoInv, NEW h \in Handlers,
           \A g \in Handlers \ {h} : req'[g] = req[g],
           \A w \in Worktrees : pushes'[w] = "here" =>
               Unreturned(h, w)' \/ (pushes[w] = "here" /\ ~Unreturned(h, w))
    PROVE  UndoInv'
  <1> SUFFICES ASSUME NEW w \in Worktrees, pushes'[w] = "here", ~Unreturned(h, w)'
               PROVE  \E g \in Handlers : Unreturned(g, w)'
    BY DEF UndoInv
  <1>1. PICK g \in Handlers : Unreturned(g, w)
    BY DEF UndoInv
  <1>2. g # h
    BY <1>1
  <1> QED
    BY <1>1, <1>2 DEF Unreturned, InRemote

\* A request outside gitRemote leaves the pushes of others as they are.
LEMMA Outside ==
    ASSUME UndoInv, NEW h \in Handlers, ~InRemote(h), UNCHANGED pushes,
           \A g \in Handlers \ {h} : req'[g] = req[g]
    PROVE  UndoInv'
  BY Outlasting DEF Unreturned

\* A record is written, or cleared by a push that came back; either way there is
\* none left behind in that worktree.
LEMMA RecordSettles ==
    ASSUME TypeOK, UndoInv, NEW h \in Handlers, Record(h), Ends(h)
    PROVE  UndoInv'
  <1>1. /\ req[h].on \in Worktrees /\ req[h].op \in Ops
        /\ \A g \in Handlers \ {h} : req'[g] = req[g]
    BY DEF TypeOK, Requests, Ends
  <1>2. Since(h) = "none"
    BY <1>1, Kinds DEF Since, Recorded, Undoable
  <1>3. /\ pushes'[req[h].on] = "none"
        /\ \A w \in Worktrees \ {req[h].on} : pushes'[w] = pushes[w]
    BY <1>1, <1>2 DEF Record, TypeOK
  <1> QED
    BY <1>1, <1>3, Outlasting DEF Unreturned

LEMMA CompletionSettles ==
    ASSUME TypeOK, UndoInv, NEW h \in Handlers, Completed(h)
    PROVE  UndoInv'
  <1>1. CASE Record(h) /\ Ends(h)
    BY <1>1, RecordSettles
  <1>2. CASE ~(Record(h) /\ Ends(h))
    <2>1. /\ req[h].op \in RewritesHistory /\ UNCHANGED pushes
          /\ \A g \in Handlers \ {h} : req'[g] = req[g]
      BY <1>2 DEF Completed, TypeOK
    <2>2. \A w \in Worktrees : ~Unreturned(h, w)
      BY <2>1, Kinds DEF Unreturned
    <2> QED
      BY <2>1, <2>2, Outlasting
  <1> QED
    BY <1>1, <1>2

\* What is asked for, and the wrapper around an operation.
LEMMA WrapperSettles ==
    ASSUME TypeOK, UndoInv, NEW h \in Handlers, Ask(h) \/ Wrapper(h)
    PROVE  UndoInv'
  <1>1. CASE Ask(h) \/ PushGate(h) \/ Resolve(h) \/ ReadHead(h) \/ Unstage(h)
               \/ Fails(h)
    <2>1. ~InRemote(h) /\ UNCHANGED pushes
      BY <1>1 DEF Ask, PushGate, Resolve, ReadHead, Unstage, Fails, At, InRemote,
         rows
    <2>2. \A g \in Handlers \ {h} : req'[g] = req[g]
      BY <1>1 DEF Ask, PushGate, Resolve, ReadHead, Unstage, Fails, Ends, GoTo,
         TypeOK
    <2> QED
      BY <2>1, <2>2, Outside
  <1>2. CASE Repair(h)
    <2>1. ~InRemote(h)
      BY <1>2 DEF Repair, At, InRemote
    <2>2. PICK t \in req[h].left :
            IF req[h].left = {t}
              THEN Record(h) /\ Ends(h)
              ELSE /\ req' = [req EXCEPT ![h].left = @ \ {t}]
                   /\ UNCHANGED <<undo, pushes>>
      BY <1>2 DEF Repair
    <2>3. CASE req[h].left = {t}
      BY <2>2, <2>3, RecordSettles
    <2>4. CASE req[h].left # {t}
      <3>1. UNCHANGED pushes /\ \A g \in Handlers \ {h} : req'[g] = req[g]
        BY <2>2, <2>4 DEF TypeOK
      <3> QED
        BY <2>1, <3>1, Outside
    <2> QED
      BY <2>3, <2>4
  <1> QED
    BY <1>1, <1>2 DEF Wrapper

LEMMA LocalSettles ==
    ASSUME TypeOK, UndoInv, NEW h \in Handlers, Local(h)
    PROVE  UndoInv'
  <1>1. CASE SquashHalf(h)
    <2>1. ~InRemote(h) /\ UNCHANGED pushes
      BY <1>1 DEF SquashHalf, OwnRuns, Runs, At, InRemote, rows
    <2>2. \A g \in Handlers \ {h} : req'[g] = req[g]
      BY <1>1 DEF SquashHalf, Ends, TypeOK
    <2> QED
      BY <2>1, <2>2, Outside
  <1>2. CASE ~SquashHalf(h)
    BY <1>2, CompletionSettles DEF Local, RunElsewhere, Ready, CommitStaged, Amend,
       Squash, ResetHard, CreateBranch, Checkout
  <1> QED
    BY <1>1, <1>2

\* The remote's answer: one that arrives settles the record, and one that does not
\* leaves it, and is noted as such.
LEMMA NetworkSettles ==
    ASSUME TypeOK, UndoInv, NEW h \in Handlers, Network(h)
    PROVE  UndoInv'
  <1>1. CASE RemoteAccepts(h)
    <2>1. /\ req[h] \in Requests /\ InRemote(h) /\ req[h].op = "push"
          /\ ~req[h].taken
      BY <1>1 DEF RemoteAccepts, TypeOK
    <2> DEFINE r == [req[h] EXCEPT !.taken = TRUE]
    <2>2. /\ r.step = req[h].step /\ r.op = req[h].op /\ r.on = req[h].on
          /\ r.taken
      BY <2>1 DEF Requests
    <2>3. /\ req'[h] = r
          /\ \A g \in Handlers \ {h} : req'[g] = req[g]
      BY <1>1 DEF RemoteAccepts, TypeOK
    <2> HIDE DEF r
    <2>4. Unreturned(h, req[h].on)' /\ \A w \in Worktrees : ~Unreturned(h, w)
      BY <2>1, <2>2, <2>3 DEF Unreturned, InRemote
    <2>5. \A w \in Worktrees : pushes'[w] = "here" =>
             w = req[h].on \/ pushes[w] = "here"
      BY <1>1 DEF RemoteAccepts, Pushed
    <2>6. ASSUME NEW w \in Worktrees, pushes'[w] = "here"
          PROVE  Unreturned(h, w)' \/ (pushes[w] = "here" /\ ~Unreturned(h, w))
      BY <2>2, <2>3, <2>4, <2>5, <2>6 DEF Unreturned
    <2> QED
      BY <2>3, <2>6, Outlasting
  <1>2. CASE PushReturns(h) \/ PullReturns(h)
    BY <1>2, CompletionSettles DEF PushReturns, PullReturns
  <1>3. CASE RemoteFails(h)
    <2>1. \A g \in Handlers \ {h} : req'[g] = req[g]
      BY <1>3 DEF RemoteFails, Ends, TypeOK
    <2>2. ASSUME NEW w \in Worktrees, pushes'[w] = "here"
          PROVE  pushes[w] = "here" /\ ~Unreturned(h, w)
      BY <1>3, <2>2 DEF RemoteFails, Unreturned, TypeOK
    <2> QED
      BY <2>1, <2>2, Outlasting
  <1>4. CASE Terminate(h)
    <2>1. req[h] \in Requests /\ UNCHANGED pushes
      BY <1>4 DEF Terminate, TypeOK, rows
    <2>2. /\ req'[h] = [req[h] EXCEPT !.step = "termed"]
          /\ \A g \in Handlers \ {h} : req'[g] = req[g]
      BY <1>4 DEF Terminate, GoTo, TypeOK
    <2>3. ASSUME NEW w \in Worktrees, Unreturned(h, w) PROVE Unreturned(h, w)'
      BY <2>1, <2>2, <2>3 DEF Unreturned, InRemote, Requests
    <2> QED
      BY <2>1, <2>2, <2>3, Outlasting
  <1> QED
    BY <1>1, <1>2, <1>3, <1>4 DEF Network, Kill

\* Every step keeps records and pushes apart.
LEMMA StepUndoInv == TypeOK /\ UndoInv /\ [Next]_vars => UndoInv'
  <1> SUFFICES ASSUME TypeOK, UndoInv, [Next]_vars PROVE UndoInv'
    OBVIOUS
  <1>1. ASSUME NEW h \in Handlers, Ask(h) \/ Wrapper(h) PROVE UndoInv'
    BY <1>1, WrapperSettles
  <1>2. ASSUME NEW h \in Handlers, Local(h) PROVE UndoInv'
    BY <1>2, LocalSettles
  <1>3. ASSUME NEW h \in Handlers, Network(h) PROVE UndoInv'
    BY <1>3, NetworkSettles
  <1>4. CASE \/ DeleteBranch \/ CreateWorktree \/ RemoveWorktree
             \/ TurnStarts \/ TurnEnds \/ UNCHANGED vars
    <2>1. UNCHANGED <<pushes, req>>
      BY <1>4 DEF DeleteBranch, CreateWorktree, RemoveWorktree, TurnStarts,
         TurnEnds, vars, rows
    <2> QED
      BY <2>1 DEF UndoInv, Unreturned, InRemote
  <1> QED
    BY <1>1, <1>2, <1>3, <1>4 DEF Next

\* However many requests are interleaved, the record that an answered push from
\* its own worktree left behind does not outlive that push, and no undo let in
\* alone resets to one (mutate.ts:188-202). A push sent from another worktree, as
\* the console sends its rows of branches, and one whose answer is lost leave the
\* record standing: of those this says nothing.
THEOREM UndoSafe == Spec => []UndoStaysLocal
  <1>1. Init => UndoInv
    BY DEF Init, UndoInv
  <1>2. IInv /\ UndoInv => UndoStaysLocal
    <2> SUFFICES ASSUME IInv, UndoInv PROVE UndoStaysLocal
      OBVIOUS
    <2>1. ASSUME NEW w \in Worktrees, pushes[w] = "here"
          PROVE  \E h \in Handlers : InRemote(h) /\ req[h].on = w
      BY <2>1 DEF UndoInv, Unreturned
    <2>2. ASSUME NEW h \in Handlers, Runs(h, {"undo"}), pushes[req[h].on] = "here"
          PROVE  ~Alone
      <3>1. req[h].op = "undo" /\ Inside(h) /\ req[h].on \in Worktrees
        BY <2>2 DEF Runs, At, Inside, IInv, TypeOK, Requests
      <3>2. PICK g \in Handlers : Unreturned(g, req[h].on)
        BY <2>2, <3>1 DEF UndoInv
      <3>3. g # h /\ Inside(g) /\ req[g].on = req[h].on
        BY <3>1, <3>2 DEF Unreturned, InRemote, Inside
      <3> QED
        BY <3>1, <3>3 DEF IInv, Apart
    <2> QED
      BY <2>1, <2>2 DEF UndoStaysLocal, Alone
  <1>3. IInv => TypeOK
    BY DEF IInv
  <1> QED
    BY <1>1, <1>2, <1>3, StepUndoInv, Inductive, PTL DEF Spec

-----------------------------------------------------------------------------
(* Pushes and turns.                                                       *)

\* No push publishes what a turn under way has committed (git.ts:998-1027).
THEOREM HalfWorkSafe == Spec => HalfWorkStaysLocal
  <1> DEFINE Safe == odd' \cap {"overlap"} = {}
                       => ToSet(published') \cap raw \subseteq ToSet(published)
  <1>1. ASSUME IInv, Next PROVE Safe
    <2>1. ASSUME NEW h \in Handlers, RemoteAccepts(h) PROVE Safe
      <3>1. CASE req[h].branch # "own"
        BY <2>1, <3>1 DEF RemoteAccepts
      <3>2. CASE req[h].branch = "own"
        <4>1. PastGate(h) /\ req[h].op = "push" /\ UNCHANGED odd
          BY <2>1 DEF RemoteAccepts, InRemote, PastGate
        <4>2. Alone => status # "busy"
          BY <1>1, <3>2, <4>1 DEF IInv, TurnAlone
        <4>3. Alone => raw = {}
          BY <1>1, <4>2 DEF IInv, TypeOK, Home
        <4> QED
          BY <4>1, <4>3 DEF Alone
      <3> QED
        BY <3>1, <3>2
    <2>2. ASSUME NEW h \in Handlers, Ask(h) \/ Wrapper(h)
          PROVE  UNCHANGED published
      BY <2>2 DEF Ask, Wrapper, PushGate, Resolve, ReadHead, Unstage, Repair,
         Fails, history
    <2>3. ASSUME NEW h \in Handlers, Local(h) PROVE UNCHANGED published
      BY <2>3 DEF Local, RunElsewhere, Ready, CommitStaged, Amend, Squash,
         SquashHalf, ResetHard, CreateBranch, Checkout, history
    <2>4. ASSUME NEW h \in Handlers, Network(h), ~RemoteAccepts(h)
          PROVE  UNCHANGED published
      BY <2>4 DEF Network, PushReturns, PullReturns, RemoteFails, Terminate,
         Kill, history
    <2>5. CASE DeleteBranch \/ CreateWorktree \/ RemoveWorktree \/ TurnStarts
               \/ TurnEnds
      BY <2>5 DEF DeleteBranch, CreateWorktree, RemoveWorktree, TurnStarts,
         TurnEnds, history
    <2>6. UNCHANGED published => Safe
      OBVIOUS
    <2> QED
      BY <1>1, <2>1, <2>2, <2>3, <2>4, <2>5, <2>6 DEF Next
  <1>2. IInv /\ [Next]_vars
          => [odd' \cap {"overlap"} = {}
                => ToSet(published') \cap raw \subseteq ToSet(published)]_vars
    BY <1>1
  <1> QED
    BY <1>2, Inductive, PTL DEF Spec, HalfWorkStaysLocal
==============================================================================
