------------------------- MODULE PerspectiveMemory -------------------------
(***************************************************************************)
(* The private ledger of one character, the viewer: the lines it remembers, *)
(* the summary its older ones are condensed into, and whether it has learned *)
(* the name of the one stranger there is.  Two cursors by turn number say    *)
(* how far it has read the history, which undo and compaction change.        *)
(*                                                                         *)
(* A turn that fails saves nothing (SessionHistory), so it is left out.     *)
(***************************************************************************)
EXTENDS Integers, Sequences, FiniteSets, SequencesExt

CONSTANTS
    MAX_RECENT_MEMORY, MEMORY_REVISION_TRIGGER, MEMORY_KEEP_RAW_TAIL,
    MaxRecords  \* bound: records ever appended

ASSUME MemoryAssumption ==
    /\ MEMORY_KEEP_RAW_TAIL \in Nat /\ MaxRecords \in Nat
    /\ MEMORY_REVISION_TRIGGER \in Nat \ {0} /\ MAX_RECENT_MEMORY \in Nat \ {0}

VARIABLES
    history,
    ledger,      \* game.character_perspectives[viewer]
    checkpoint,  \* of the one compaction that may be restored
    turn,        \* the turn being played: its number, stage and whether the viewer may answer
    aux_told     \* ghost: the records ever appended, and which of those not undone
                 \* the viewer perceived, or heard the name in

memoryVars == <<history, ledger, checkpoint, turn, aux_told>>

Ids == 1..MaxRecords

\* A ledger that was not compiled yet.
NoLedger == [exists |-> FALSE, processed |-> 0, through |-> 0, recent |-> <<>>, summary |-> {}, knows |-> FALSE]

NoCheckpoint == [evicted |-> <<>>, kept |-> <<>>, max |-> 0]
Idle == [number |-> 0, stage |-> "idle", routed |-> FALSE]

-----------------------------------------------------------------------------
(* The ledger *)

\* A line of speech or action the viewer spoke or perceived.
Perceived(rec) == rec.type = "line" /\ (rec.own \/ rec.heard)

\* Positions of the history, first to last, and the records there.
InOrder(positions) ==
    LET n == Cardinality(positions)
    IN  CHOOSE at \in [1..n -> positions] : \A j, k \in 1..n : j < k => at[j] < at[k]

Records(positions) == [k \in 1..Cardinality(positions) |-> history[InOrder(positions)[k]]]

unprocessed_visible_records(l) ==
    Records({i \in DOMAIN history :
               LET rec == history[i] IN rec.turn > l.processed /\ rec.type = "line" /\ ~rec.own /\ rec.heard})

Latest(cursor, records) == IF records = <<>> \/ Last(records).turn <= cursor THEN cursor ELSE Last(records).turn

\* Mutant: a viewer who was not there yet gets no ledger.
Initialized_late(l) ==
    IF l.exists \/ history = <<>> THEN l ELSE [NoLedger EXCEPT !.exists = TRUE, !.processed = turn.number]

\* Compiled from the viewer's sheet, which does not name the stranger.  What was
\* said up to and in this turn is not read for names any more.
Initialized(l) == IF l.exists THEN l ELSE [NoLedger EXCEPT !.exists = TRUE, !.processed = turn.number]

\* Whether the stranger's name comes out of an answer that may leave them out: a
\* name the lines do not hold is struck, and one they hold is taken anyway.
_validated_people(answered, lines) == answered /\ \E i \in DOMAIN lines : lines[i].names

needs_identity_update(l) == ~l.knows /\ unprocessed_visible_records(l) # <<>>

IdentityUpdated(l) ==
    LET records == unprocessed_visible_records(l)
    IN  IF ~needs_identity_update(l) THEN {l}
        ELSE {[l EXCEPT !.processed = Latest(@, records), !.knows = _validated_people(answered, records)] :
                answered \in BOOLEAN}

\* Mutant: the turn of the cursor is read again.
NewLines_again(l) == Records({i \in DOMAIN history : history[i].turn >= l.through /\ Perceived(history[i])})

NewLines(l) == Records({i \in DOMAIN history : history[i].turn > l.through /\ Perceived(history[i])})

Bounded(lines) ==
    IF Len(lines) > MAX_RECENT_MEMORY
    THEN SubSeq(lines, Len(lines) - MAX_RECENT_MEMORY + 1, Len(lines)) ELSE lines

Captured(l) ==
    LET lines == NewLines(l)
    IN  [l EXCEPT !.recent = Bounded(@ \o [i \in DOMAIN lines |-> lines[i].id]),
                  !.through = Latest(@, lines)]

\* What the digest may become: its older lines condensed, or, when the call
\* fails or answers nothing, left for a later turn.
Revised(l) ==
    LET n == Len(l.recent)
        tail == SubSeq(l.recent, n - MEMORY_KEEP_RAW_TAIL + 1, n)
    IN  IF n < MEMORY_REVISION_TRIGGER \/ n <= MEMORY_KEEP_RAW_TAIL THEN {l}
        ELSE {l, [l EXCEPT !.recent = tail, !.summary = @ \cup (ToSet(l.recent) \ ToSet(tail))]}

\* What the viewer's prompt says it remembers.
Remembered(l) == ToSet(l.recent) \cup l.summary

_ensure_perspective(l) == UNION {Revised(Captured(told)) : told \in IdentityUpdated(Initialized(l))}

-----------------------------------------------------------------------------
(* What a prompt calls the stranger *)

\* The canonical name, the internal id and what the viewer calls a stranger.
Name == "name"
Id == "id"
Reference == "reference"

\* Who spoke a line of the history: without a ledger, the canonical name.
viewer_speaker_label(l) == IF l.exists /\ ~l.knows THEN Reference ELSE Name

\* Who is there: without a ledger, a stranger.
_roster_label(l) == IF l.exists /\ l.knows THEN Name ELSE Reference
_build_present_roster(l) == {_roster_label(l)}

\* Prose that has been written for everyone: without a ledger a name in it stays.
Projected(l, word) ==
    CASE word = Id /\ l.exists -> viewer_speaker_label(l)
      [] word = Name /\ l.exists /\ ~l.knows -> Reference
      [] word = Id /\ ~l.exists -> Reference
      [] OTHER -> word

project_text_for_viewer(l, words) == {Projected(l, w) : w \in words}

\* The lines the viewer has heard are shown as they were said, besides.
ShownAs(l) ==
    {viewer_speaker_label(l)} \cup _build_present_roster(l) \cup project_text_for_viewer(l, {Name, Id})

-----------------------------------------------------------------------------
(* A turn *)

_next_turn_number == IF history = <<>> THEN 1 ELSE Last(history).turn + 1

CurrentTurn == IF turn.stage = "idle" THEN _next_turn_number ELSE turn.number

\* A record carries the ledger as it is when it is appended.
_append_history(type, own, heard, names, l) ==
    LET rec == [id |-> aux_told.next, turn |-> CurrentTurn, type |-> type, own |-> own,
                heard |-> heard, names |-> names, snapshot |-> l]
    IN  /\ aux_told.next \in Ids
        /\ history' = Append(history, rec)
        /\ aux_told' = [next |-> aux_told.next + 1,
                         perceived |-> aux_told.perceived \cup (IF Perceived(rec) THEN {rec.id} ELSE {}),
                         names |-> aux_told.names \cup (IF names THEN {rec.id} ELSE {})]

\* Lines of others that the viewer hears may name the stranger.
OthersLine ==
    \/ _append_history("line", FALSE, FALSE, FALSE, ledger)
    \/ \E names \in BOOLEAN : _append_history("line", FALSE, TRUE, names, ledger)

Quiet == UNCHANGED <<history, aux_told>>

\* The human speaks, aloud or in whispers, or passes.
PlayerTurn ==
    /\ turn.stage = "idle" /\ aux_told.next \in Ids
    /\ turn' = [number |-> _next_turn_number, stage |-> "direct", routed |-> FALSE]
    /\ OthersLine \/ Quiet
    /\ UNCHANGED <<ledger, checkpoint>>

\* The ledger of a viewer who may answer is prepared while the prose is written;
\* the prose is a record after that.
RenderAndPrepare ==
    /\ turn.stage = "direct"
    /\ \E routed \in BOOLEAN :
        /\ turn' = [turn EXCEPT !.stage = "replies", !.routed = routed]
        /\ ledger' \in IF routed THEN _ensure_perspective(ledger) ELSE {ledger}
    /\ _append_history("narration", FALSE, FALSE, FALSE, ledger') \/ Quiet
    /\ UNCHANGED checkpoint

OtherReplies ==
    /\ turn.stage = "replies"
    /\ OthersLine
    /\ UNCHANGED <<ledger, checkpoint, turn>>

\* The ledger is prepared again for what the speakers before have said.
ViewerReplies ==
    /\ turn.stage = "replies" /\ turn.routed
    /\ turn' = [turn EXCEPT !.routed = FALSE]
    /\ ledger' \in _ensure_perspective(ledger)
    /\ \E type \in {"line", "thought"} : _append_history(type, TRUE, TRUE, FALSE, ledger')
    /\ UNCHANGED checkpoint

\* Lines the Director gave others, or the viewer; then the turn is saved.
CommitTurn ==
    /\ turn.stage = "replies"
    /\ turn' = [turn EXCEPT !.stage = "voice"]
    /\ OthersLine \/ _append_history("line", TRUE, TRUE, FALSE, ledger) \/ Quiet
    /\ UNCHANGED <<ledger, checkpoint>>

TurnSaved ==
    /\ turn.stage = "voice"
    /\ turn' = Idle
    /\ UNCHANGED <<history, ledger, checkpoint, aux_told>>

-----------------------------------------------------------------------------
(* Undo and compaction *)

UndoneTurn == {i \in DOMAIN history : history[i].turn = Last(history).turn}

\* Mutant: the first record popped restores.
RestorePoint_newest == Last(history)

RestorePoint == history[CHOOSE i \in UndoneTurn : i - 1 \notin UndoneTurn]

UndoTurn ==
    /\ turn.stage = "idle" /\ history # <<>>
    /\ ledger' = RestorePoint.snapshot
    /\ history' = SubSeq(history, 1, Len(history) - Cardinality(UndoneTurn))
    /\ LET undone == {history[i].id : i \in UndoneTurn}
       IN  aux_told' = [aux_told EXCEPT !.perceived = @ \ undone, !.names = @ \ undone]
    /\ UNCHANGED <<checkpoint, turn>>

IdsOf(records) == [i \in DOMAIN records |-> records[i].id]

\* The ledgers are left alone: what they have not read yet they never will.
CompactSession ==
    /\ turn.stage = "idle" /\ checkpoint = NoCheckpoint
    /\ \E n \in 1..(Len(history) - 1) :
        /\ history[n].turn < history[n + 1].turn
        /\ checkpoint' = [evicted |-> SubSeq(history, 1, n),
                          kept |-> IdsOf(SubSeq(history, n + 1, Len(history))), max |-> Last(history).turn]
        /\ history' = SubSeq(history, n + 1, Len(history))
    /\ UNCHANGED <<ledger, turn, aux_told>>

RestoreLastCompaction ==
    /\ turn.stage = "idle" /\ checkpoint # NoCheckpoint
    /\ IdsOf(Records({i \in DOMAIN history : history[i].turn <= checkpoint.max})) = checkpoint.kept
    /\ history' = checkpoint.evicted \o history
    /\ checkpoint' = NoCheckpoint
    /\ UNCHANGED <<ledger, turn, aux_told>>

-----------------------------------------------------------------------------
MemoryInit ==
    /\ history = <<>> /\ aux_told = [next |-> 1, perceived |-> {}, names |-> {}]
    /\ ledger = NoLedger
    /\ checkpoint = NoCheckpoint
    /\ turn = Idle

MemoryNext ==
    \/ PlayerTurn \/ RenderAndPrepare \/ OtherReplies \/ ViewerReplies \/ CommitTurn \/ TurnSaved
    \/ UndoTurn \/ CompactSession \/ RestoreLastCompaction

MemorySpec == MemoryInit /\ [][MemoryNext]_memoryVars

-----------------------------------------------------------------------------
(* Properties *)

\* The viewer remembers, and knows a name from, only lines that it spoke or
\* perceived and that were not undone, whatever was compacted or restored.
OnlyTheStoryIsRemembered ==
    /\ Remembered(ledger) \subseteq aux_told.perceived
    /\ ledger.knows => aux_told.names # {}

\* A stranger stays one in what the viewer answers to, in the labels of the
\* history, in the list of who is there and in the narration, until a line that
\* was not undone has named them: the fallbacks of a missing ledger, which show
\* the name, are never reached (_run_speaker, act).
StrangerUntilNamed ==
    [][turn.routed /\ ~turn'.routed /\ Name \in ShownAs(ledger') => aux_told.names # {}]_memoryVars

\* No line is remembered twice: not in the digest, nor once in the digest and
\* once in the summary, though the ledger is prepared twice in a turn and turn
\* numbers are used again after an undo.
NothingRememberedTwice ==
    /\ Cardinality(ToSet(ledger.recent)) = Len(ledger.recent)
    /\ ToSet(ledger.recent) \cap ledger.summary = {}
=============================================================================
