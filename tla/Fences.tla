------------------------------- MODULE Fences -------------------------------
(***************************************************************************)
(* FenceScanner (packages/server/src/contract/fence-scanner.ts): pulls     *)
(* ```vadd-event blocks out of a stream that is cut into chunks anywhere.  *)
(*                                                                         *)
(* Text is a sequence of atoms: the fence, the tag, the newline, and       *)
(* anything else a line may hold (prose, a JSON value).  A cut inside an   *)
(* atom tells the scanner nothing a cut beside it does not, because it     *)
(* decides on whole lines; blanks around a line are trimmed and left out.  *)
(***************************************************************************)
EXTENDS Naturals, Sequences, SequencesExt

Fence == "fence"
Tag == "tag"
Newline == "newline"
Opening == <<Fence, Tag>>

(* weld: text stood before the opening fence of the block being read;       *)
(* bare: the previous line was a fence on its own.                          *)
EmptyScanner == [pending |-> <<>>, inside |-> FALSE, body |-> <<>>,
                 weld |-> FALSE, bare |-> FALSE]

(* A scanner and the blocks it has found: the body's lines, and whether     *)
(* text was welded to the block's fences.                                   *)
Found(s, blocks) == [scanner |-> s, blocks |-> blocks]

Close(f, remainder) ==
    Found([f.scanner EXCEPT !.inside = FALSE, !.body = <<>>, !.weld = FALSE],
          Append(f.blocks, [body |-> f.scanner.body,
                            drift |-> f.scanner.weld \/ remainder # <<>>]))

Open(f, weld) ==
    Found([f.scanner EXCEPT !.inside = TRUE, !.body = <<>>, !.weld = weld,
                            !.bare = FALSE], f.blocks)

(* The first opening fence of the line ends it, and something precedes it.  *)
WeldedOpening(line) ==
    /\ Len(line) > 2
    /\ SubSeq(line, Len(line) - 1, Len(line)) = Opening
    /\ \A i \in 1..(Len(line) - 2) : SubSeq(line, i, i + 1) # Opening

ConsumeOutside(f, line) ==
    IF line = Opening THEN Open(f, FALSE)
    ELSE IF f.scanner.bare /\ line = <<Tag>> THEN Open(f, TRUE)
    ELSE IF WeldedOpening(line) THEN Open(f, TRUE)
    ELSE Found([f.scanner EXCEPT !.bare = (line = <<Fence>>)], f.blocks)

(* A line that starts with a fence closes the block, and what is welded to  *)
(* it is read again as text outside.                                        *)
ConsumeInside(f, line) ==
    IF line = <<Fence>> THEN Close(f, <<>>)
    ELSE IF line # <<>> /\ line[1] = Fence
         THEN ConsumeOutside(Close(f, Tail(line)), Tail(line))
    ELSE Found([f.scanner EXCEPT !.body = Append(@, line)], f.blocks)

ConsumeExactFence(f, line) ==
    IF ~f.scanner.inside THEN ConsumeOutside(f, line)
    ELSE IF line = <<Fence>> THEN Close(f, <<>>)
    ELSE Found([f.scanner EXCEPT !.body = Append(@, line)], f.blocks)

Consume(f, line) ==
    IF f.scanner.inside THEN ConsumeInside(f, line) ELSE ConsumeOutside(f, line)

Take(f, atom) ==
    IF atom = Newline
    THEN Consume(Found([f.scanner EXCEPT !.pending = <<>>], f.blocks),
                 f.scanner.pending)
    ELSE Found([f.scanner EXCEPT !.pending = Append(@, atom)], f.blocks)

Push(s, text) ==
    LET f[i \in 0..Len(text)] ==
            IF i = 0 THEN Found(s, <<>>) ELSE Take(f[i - 1], text[i])
    IN f[Len(text)]

(* Decide on the buffered tail without ending the turn.                     *)
Settle(s) ==
    IF s.pending = <<>> THEN Found(s, <<>>)
    ELSE Consume(Found([s EXCEPT !.pending = <<>>], <<>>), s.pending)

(* End the turn: the blocks of the tail, and whether one is still open.     *)
Flush(s) == [blocks |-> Settle(s).blocks,
             unterminated |-> Settle(s).scanner.inside]
=============================================================================
