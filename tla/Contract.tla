------------------------------ MODULE Contract ------------------------------
(***************************************************************************)
(* The output contract of one agent session: ContractPipeline              *)
(* (contract/pipeline.ts) over the fence scanner, the prompt and repair    *)
(* sequence of a turn (workflow/turn.ts) and the summarizer's fallback.    *)
(*                                                                         *)
(* The agent writes messages made of segments: blocks written cleanly, in  *)
(* the broken ways the corpus has shown, or never closed, prose and        *)
(* ordinary code fences.  Its text reaches the server in chunks.  A turn   *)
(* ends when its prompt does, or is cut short by a cancel or its timer,    *)
(* after which the rest of the text finds no turn open.  The next turn     *)
(* waits for the last one's prompt and fallback here; what happens when it *)
(* does not is Turns' subject.                                             *)
(***************************************************************************)
EXTENDS Fences, FiniteSets

CONSTANTS
    Values,         \* the JSON values blocks may hold
    MaxSegments,    \* bound on the segments the agent writes in a turn
    MaxChunk        \* bound on the atoms of a chunk

(* A JSON value is no fence, no tag and no line break.                      *)
ASSUME ContractAssumption ==
    /\ MaxSegments \in Nat \ {0} /\ MaxChunk \in Nat \ {0}
    /\ Values \cap {Fence, Tag, Newline} = {}

VARIABLES
    scanner,    \* #scanner
    open,       \* #turnId is not null
    expect,     \* #expect: what the prompt's template owes
    seen,       \* #seen; a result refers to the headline every evidence has
    text,       \* #raw is not blank
    log,        \* what onEmit received since beginTurn
    stage,      \* settleTurn: idle, prompt or repair
    closing,    \* the callers of endTurn that await the summarizer
    message,    \* the segments the agent writes in this turn
    at,         \* how many atoms of its last segment have been sent
    heard       \* how many segments came whole before the turn's end was begun

pipeline == <<scanner, open, expect, seen, text, log>>
contractVars == <<pipeline, stage, closing, message, at, heard>>

-----------------------------------------------------------------------------
(* What an agent may write.                                                *)

(* The items of each JSON value; what is no value is not JSON.              *)
ItemsOf == [status |-> <<"status">>, result |-> <<"task_result">>,
            evidence |-> <<"evidence">>, failure |-> <<"failure">>,
            both |-> <<"task_result", "evidence">>,
            bad |-> <<"invalid">>, empty |-> <<>>]

Forms == {"clean", "tight", "welded", "split", "unclosed"}

Prose == [form |-> "prose", value |-> "none"]
CodeFence == [form |-> "fence", value |-> "none"]
Segments == [form : Forms, value : Values] \cup {Prose, CodeFence}

Atoms(s) ==
    CASE s.form = "clean" ->
           <<Fence, Tag, Newline, s.value, Newline, Fence, Newline>>
      [] s.form = "tight" -> <<Fence, Tag, Newline, s.value, Newline, Fence>>
      [] s.form = "welded" ->
           <<"prose", Fence, Tag, Newline, s.value, Newline, Fence, Newline>>
      [] s.form = "split" ->
           <<Fence, Newline, Tag, Newline, s.value, Newline, Fence, Newline>>
      [] s.form = "unclosed" -> <<Fence, Tag, Newline, s.value, Newline>>
      [] s.form = "prose" -> <<"prose", Newline>>
      [] s.form = "fence" -> <<Fence, Newline, "prose", Newline, Fence, Newline>>

(* A segment is whole once its text is there, a last newline aside.         *)
Whole(s, n) ==
    \/ n = Len(Atoms(s))
    \/ n = Len(Atoms(s)) - 1 /\ Atoms(s)[n + 1] = Newline

Accepted(items) ==
    FlattenSeq([i \in DOMAIN items |->
                  IF items[i] = "invalid" THEN <<>> ELSE <<items[i]>>])

ItemsIn(s) ==
    IF s.value \in DOMAIN ItemsOf THEN Accepted(ItemsOf[s.value]) ELSE <<>>

(* The one shape the scanner does not recover: an opening split in two      *)
(* right after a block that was never closed.  Its fence closes that block, *)
(* cleanly, and its tag is then a line like any other.                      *)
Shadowed(segments, i) ==
    /\ segments[i].form = "split"
    /\ i > 1 /\ segments[i - 1].form = "unclosed"

(* The events of the first n segments.                                      *)
EventsWithin(segments, n) ==
    FlattenSeq([i \in 1..n |->
                  IF Shadowed(segments, i) THEN <<>> ELSE ItemsIn(segments[i])])

-----------------------------------------------------------------------------
(* The pipeline.                                                           *)

Expectations ==
    {{{"task_result", "failure"}, {"evidence", "failure"}},
     {{"status", "clarification"}}, {}}

Event(type, extracted) ==
    [kind |-> "event", what |-> type, extracted |-> extracted]
Violation(reason) ==
    [kind |-> "violation", what |-> reason, extracted |-> FALSE]

(* Blank lines around a JSON value are no part of it.                       *)
Parsed(body) ==
    LET flat == FlattenSeq(body)
    IN IF Len(flat) = 1 /\ flat[1] \in DOMAIN ItemsOf THEN ItemsOf[flat[1]]
       ELSE <<"not JSON">>

(* An event the prompt did not expect is reported as such, but emitted.  The *)
(* types a prompt permits beside the expected ones are not told apart.       *)
EmissionsOfItem(item) ==
    IF item = "invalid" THEN <<Violation("schema")>>
    ELSE IF expect # {} /\ item \notin UNION expect
         THEN <<Violation("unexpected_type"), Event(item, FALSE)>>
    ELSE <<Event(item, FALSE)>>

EmissionsOfBlock(block) ==
    (IF block.drift THEN <<Violation("fence_drift")>> ELSE <<>>) \o
    CASE Parsed(block.body) = <<"not JSON">> -> <<Violation("parse")>>
      [] Parsed(block.body) = <<>> -> <<Violation("schema")>>
      [] OTHER -> FlattenSeq([i \in DOMAIN Parsed(block.body) |->
                                EmissionsOfItem(Parsed(block.body)[i])])

TypesIn(emissions) ==
    {emissions[i].what : i \in {j \in DOMAIN emissions :
                                  emissions[j].kind = "event"}}

EmissionsOf(blocks) ==
    FlattenSeq([i \in DOMAIN blocks |-> EmissionsOfBlock(blocks[i])])

Emit(emissions) ==
    /\ log' = log \o emissions
    /\ seen' = seen \cup TypesIn(emissions)

Unmet(types) == {g \in expect : g \cap types = {}}
Dangling(types) == "task_result" \in types /\ "evidence" \notin types

AllSent == message # <<>> => at = Len(Atoms(Last(message)))

Write ==
    /\ stage # "idle" /\ AllSent
    /\ Len(message) < MaxSegments
    /\ \E s \in Segments : message' = Append(message, s)
    /\ at' = 0
    /\ UNCHANGED <<pipeline, stage, closing, heard>>

(* The agent's next chunk: whatever arrives after the turn is dropped.      *)
Ingest ==
    /\ ~AllSent
    /\ LET atoms == Atoms(Last(message))
           left == Len(atoms) - at
       IN \E n \in 1..(IF left < MaxChunk THEN left ELSE MaxChunk) :
            LET pushed == Push(scanner, SubSeq(atoms, at + 1, at + n))
            IN /\ at' = at + n
               /\ IF open
                  THEN /\ scanner' = pushed.scanner
                       /\ Emit(EmissionsOf(pushed.blocks))
                       /\ text' = TRUE
                       /\ heard' = IF closing = {} /\ Whole(Last(message), at')
                                   THEN Len(message) ELSE heard
                  ELSE UNCHANGED <<scanner, log, seen, text, heard>>
    /\ UNCHANGED <<open, expect, stage, closing, message>>

-----------------------------------------------------------------------------
(* The turn.                                                               *)

BeginTurn ==
    /\ stage = "idle" /\ ~open /\ closing = {}
    /\ open' = TRUE
    /\ \E e \in Expectations : expect' = e
    /\ scanner' = EmptyScanner
    /\ seen' = {}
    /\ text' = FALSE
    /\ log' = <<>>
    /\ stage' = "prompt"
    /\ message' = <<>>
    /\ at' = 0 /\ heard' = 0
    /\ UNCHANGED closing

(* endTurn up to its await.  `settled` are the blocks its caller has found. *)
EndTurn(caller, settled) ==
    LET flushed == Flush(settled.scanner)
        blocks == settled.blocks \o flushed.blocks
        types == seen \cup TypesIn(EmissionsOf(blocks))
        said == EmissionsOf(blocks)
                \o (IF flushed.unterminated THEN <<Violation("unterminated")>> ELSE <<>>)
                \o (IF Dangling(types) THEN <<Violation("dangling_evidence_ref")>> ELSE <<>>)
                \o (IF Unmet(types) # {} THEN <<Violation("missing_expected")>> ELSE <<>>)
    IN /\ scanner' = EmptyScanner
       /\ Emit(said)
       /\ IF Unmet(types) # {}
          THEN closing' = closing \cup {caller} /\ UNCHANGED open
          ELSE open' = FALSE /\ UNCHANGED closing
       /\ UNCHANGED <<expect, text>>

EndIfOpen(caller, settled) ==
    IF open THEN EndTurn(caller, settled) ELSE UNCHANGED <<pipeline, closing>>

Unsettled == Found(scanner, <<>>)
SettledNow == Settle(scanner)

(* The repair is asked for while the turn is still open.                    *)
PromptReturns ==
    LET found == SettledNow
        types == seen \cup TypesIn(EmissionsOf(found.blocks))
    IN /\ stage = "prompt" /\ AllSent
       /\ \/ /\ open /\ (Unmet(types) # {} \/ Dangling(types))
             /\ stage' = "repair"
             /\ scanner' = found.scanner
             /\ Emit(EmissionsOf(found.blocks))
             /\ UNCHANGED <<open, expect, text, closing, message, at, heard>>
          \/ /\ ~(open /\ (Unmet(types) # {} \/ Dangling(types)))
             /\ stage' = "idle"
             /\ EndIfOpen("settle", found)
             /\ UNCHANGED <<message, at, heard>>

(* The repair is answered, or its prompt fails at any point.                *)
RepairEnds ==
    /\ stage = "repair"
    /\ stage' = "idle"
    /\ EndIfOpen("settle", Unsettled)
    /\ UNCHANGED <<message, at, heard>>

PromptFails ==
    /\ stage = "prompt"
    /\ stage' = "idle"
    /\ EndIfOpen("settle", Unsettled)
    /\ UNCHANGED <<message, at, heard>>

(* A cancel or the turn's timer ends it from outside.                       *)
Cut ==
    /\ stage \in {"prompt", "repair"} /\ open /\ "cut" \notin closing
    /\ EndTurn("cut", Unsettled)
    /\ UNCHANGED <<stage, message, at, heard>>

(* The summarizer's reply is a list of items, which the prompt need not have  *)
(* expected.  One that is no event is reported, as a reply that fails is:     *)
(* "reply" stands for both, apart from the agent's own "schema" and "parse".  *)
Replies == {<<"failure">>, <<"task_result", "evidence">>, <<"invalid", "status">>}

Read(reply) ==
    [i \in DOMAIN reply |-> IF reply[i] = "invalid" THEN Violation("reply")
                            ELSE Event(reply[i], TRUE)]

Extracted(caller) ==
    /\ caller \in closing /\ text
    /\ \E reply \in Replies : Emit(Read(reply))

(* Nothing came of it, or it was not asked: there is no key, or no text.    *)
Unstructured(caller) ==
    /\ caller \in closing
    /\ \/ log' = Append(log, Event("raw view", FALSE))
       \/ text /\ log' = log \o <<Violation("reply"), Event("raw view", FALSE)>>
    /\ UNCHANGED seen

FallbackEnds(caller) ==
    /\ Extracted(caller) \/ Unstructured(caller)
    /\ closing' = closing \ {caller}
    /\ open' = FALSE
    /\ UNCHANGED <<scanner, expect, text, stage, message, at, heard>>

-----------------------------------------------------------------------------
ContractInit ==
    /\ scanner = EmptyScanner
    /\ open = FALSE
    /\ expect = {}
    /\ seen = {}
    /\ text = FALSE
    /\ log = <<>>
    /\ stage = "idle"
    /\ closing = {}
    /\ message = <<>>
    /\ at = 0 /\ heard = 0

ContractNext ==
    \/ BeginTurn
    \/ Write
    \/ stage # "idle" /\ Ingest
    \/ PromptReturns \/ RepairEnds \/ PromptFails \/ Cut
    \/ \E caller \in {"settle", "cut"} : FallbackEnds(caller)

ContractSpec == ContractInit /\ [][ContractNext]_contractVars

-----------------------------------------------------------------------------
ReasonsIn(emissions) ==
    {emissions[i].what : i \in {j \in DOMAIN emissions :
                                  emissions[j].kind = "violation"}}
Reasons == ReasonsIn(log)
FenceReasons == {"parse", "schema", "fence_drift", "unterminated"}

(* The types of the events that came from fenced blocks.                    *)
Fenced(emissions) ==
    FlattenSeq([i \in DOMAIN emissions |->
                  IF /\ emissions[i].kind = "event" /\ ~emissions[i].extracted
                     /\ emissions[i].what # "raw view"
                  THEN <<emissions[i].what>> ELSE <<>>])
FencedEvents == Fenced(log)

Written == EventsWithin(message, heard)
LeftOpen == \E i \in DOMAIN message : message[i].form = "unclosed"
TurnOver == stage = "idle" /\ ~open /\ closing = {}

(* Rule 2 of pipeline.ts, never drop silently: when a turn is over, every   *)
(* event of every block the agent closed, in whichever of its ways, while   *)
(* the turn was open has been emitted, in order and once, however the text  *)
(* was cut; if it left a block open, what that cost is reported (Shadowed   *)
(* aside); and every group its prompt expected was met, or reported missing *)
(* and followed by an event pointing at the text.                           *)
NothingIsDroppedSilently ==
    TurnOver =>
      /\ \/ FencedEvents = Written
         \/ LeftOpen /\ Reasons \cap FenceReasons # {}
         \/ "missing_expected" \in Reasons /\ IsPrefix(Written, FencedEvents)
      /\ Unmet(ToSet(FencedEvents)) # {} =>
           /\ "missing_expected" \in Reasons
           /\ \E i \in DOMAIN log : /\ log[i].kind = "event"
                                     /\ (log[i].extracted \/ log[i].what = "raw view")

(* An agent is asked to repair a turn only if it owes something: not        *)
(* because its last fence had no newline yet, nor for a block that was      *)
(* closed and not reported as broken (turn.ts:182-199).                     *)
RepairIsOwed ==
    [][stage = "prompt" /\ stage' = "repair" =>
         \/ Unmet(ToSet(Written')) # {}
         \/ Dangling(ToSet(Written'))
         \/ LeftOpen \/ Reasons' \cap FenceReasons # {}]_contractVars
=============================================================================
