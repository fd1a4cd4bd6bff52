--------------------------- MODULE SessionHistory ---------------------------
(***************************************************************************)
(* The history of one session: state.json, the compaction checkpoints in   *)
(* backups/, and the operation that holds the session lock.                *)
(*                                                                         *)
(* Every operation runs under the session lock from load_game to its last  *)
(* save_game, and works on a private copy until it saves.  A step of this  *)
(* module is therefore one DURABLE write; what an operation did in memory  *)
(* and never saved is lost with it (Crash, AbandonTurn).                   *)
(*                                                                         *)
(* What a record snapshots is kept in two parts, told apart by WHEN a beat *)
(* changes them: `scene` (the scene and the perspective ledgers: before    *)
(* the narration is appended) and `plugin` (plugin_state, with the moods   *)
(* and the dispositions: at commit).  `tick` is the narrative clock, and   *)
(* stands for the screenplay too, which is anchored the same way.          *)
(***************************************************************************)
EXTENDS Integers, Sequences, FiniteSets

CONSTANTS
    KeepRecent,     \* compaction_keep_recent_turns
    ShrinkAbove,    \* an automatic compaction shrinks a window of more turns (8)
    ShrinkFloor,    \* ... and never below this many (4)
    BurstMaxBeats,  \* autonomous_burst_max_beats
    Scenes,         \* abstract scenes
    PluginStates,   \* abstract plugin states
    StartScene,     \* the scene the session was created with
    StartPlugin,    \* ... and its plugin state
    Beats,          \* what the models and the player may make of a beat
    NoDraft,        \* no compaction is between its two writes
    MaxRevision,    \* bound: no commit beyond this revision
    MaxCheckpoints, \* bound: no checkpoint file beyond this number
    MaxTick         \* bound: no beat starts at this clock or later

ASSUME KeepAssumption == KeepRecent \in Nat \ {0}
ASSUME ShrinkAssumption == /\ ShrinkFloor \in Nat \ {0}
                           /\ ShrinkAbove \in Nat
                           /\ ShrinkFloor <= ShrinkAbove
ASSUME BurstAssumption == BurstMaxBeats \in Nat \ {0}
ASSUME ContentAssumption == StartScene \in Scenes /\ StartPlugin \in PluginStates

\* spoke: the player's own speech, thought or action opens the beat; told: the
\* beat leaves narration, a reply or audible speech; scene_up: the Director gave
\* a scene update; ticks: the clamped time_skip_ticks; scene and plugin: what
\* becomes of the two parts of the state.
ASSUME BeatAssumption ==
    Beats \subseteq [spoke: BOOLEAN, told: BOOLEAN, scene_up: BOOLEAN,
                     ticks: 0..8, scene: Scenes, plugin: PluginStates]
ASSUME BoundAssumption == MaxRevision \in Nat /\ MaxCheckpoints \in Nat /\ MaxTick \in Nat

VARIABLES
    saved,      \* state.json, the last saved GameState
    files,      \* the checkpoint files, by their number
    op,         \* the operation holding the session lock
    draft       \* the compacted state between its checkpoint and its save

\* Ghosts: the code has none of these.
VARIABLES
    aux_log,    \* every record that was committed and not undone
    aux_start,  \* for each of them, the state its beat started from
    aux_marks   \* for each live compaction, its place in aux_log

vars == <<saved, files, op, draft, aux_log, aux_start, aux_marks>>
aux == <<aux_log, aux_start, aux_marks>>

-----------------------------------------------------------------------------
(* Types *)

TurnRecord == [turn: Nat, by: {"Player", "world"},
               scene: Scenes, plugin: PluginStates, tick: Nat]

NoParent == 0
StackEntry == [id: Nat \ {0}, parent: Nat]

GameState == [revision: Nat, history: Seq(TurnRecord), summary: SUBSET Nat,
              stack: Seq(StackEntry), tick: Nat,
              scene: Scenes, plugin: PluginStates]

Checkpoint == [parent: Nat, max_turn: Nat, evicted: Seq(TurnRecord),
               summary_before: SUBSET Nat, summary_after: SUBSET Nat,
               history_after: Seq(TurnRecord),
               plugin_before: PluginStates, plugin_after: PluginStates]

\* `beats` counts the beats a turn has committed.
Operation == [kind: {"idle", "turn", "compaction"},
              stage: {"open", "saving", "beats"}, beats: Nat]

Idle == [kind |-> "idle", stage |-> "open", beats |-> 0]

Beginning == [scene: Scenes, plugin: PluginStates, tick: Nat]
Mark == [from: Int, upto: Nat, intact: BOOLEAN]

TypeOK ==
    /\ saved \in GameState
    /\ files \in Seq(Checkpoint)
    /\ op \in Operation
    /\ draft \in GameState \cup {NoDraft}
    /\ op.stage = "saving" => draft \in GameState
    /\ aux_log \in Seq(TurnRecord)
    /\ aux_start \in Seq(Beginning) /\ Len(aux_start) = Len(aux_log)
    /\ aux_marks \in Seq(Mark)

-----------------------------------------------------------------------------
(* Helpers *)

Newest(s) == s[Len(s)]

next_turn_number(h) == IF h = <<>> THEN 1 ELSE Newest(h).turn + 1

TurnNumbers(h) == {h[i].turn : i \in DOMAIN h}

\* The first n records are those before turn t.  A history is in turn order
\* (HistoryInOrder), so filtering it by turn number takes such a prefix.
Splits(h, n, t) == \A i \in DOMAIN h : h[i].turn < t <=> i <= n

\* Mutant: forgets the newest turn of the compaction.
NotLater_strict(h, n, max_turn) == Splits(h, n, max_turn)

\* The records a restore must find as the compaction left them.
NotLater(h, n, max_turn) == Splits(h, n, max_turn + 1)

\* Mutant: pops one record, not the whole turn.
BeforeLastTurn_one(h, n) == n = Len(h) - 1

\* The first n records are what is left when the last turn is popped, and the
\* record popped last is the one whose snapshots are restored.
BeforeLastTurn(h, n) ==
    /\ \A i \in n+1..Len(h) : h[i].turn = Newest(h).turn
    /\ n > 0 => h[n].turn # Newest(h).turn

\* Mutant: restores from the record popped first, the newest of the turn.
RestorePoint_newest(h, n) == Newest(h)

RestorePoint(h, n) == h[n + 1]

next_compaction_id ==
    IF DOMAIN files = {} THEN 1
    ELSE 1 + (CHOOSE n \in DOMAIN files : \A m \in DOMAIN files : m <= n)

\* Mutant: the newest file on disk, orphaned or restored ones included.
ParentId_onDisk(stack) == next_compaction_id - 1

ParentId(stack) == IF stack = <<>> THEN NoParent ELSE Newest(stack).id

\* The turns an automatic compaction keeps when the context is under pressure.
Shrunk(turns) ==
    IF turns <= KeepRecent /\ turns > ShrinkAbove
    THEN IF turns \div 2 > ShrinkFloor THEN turns \div 2 ELSE ShrinkFloor
    ELSE KeepRecent

WithFile(id, checkpoint) ==
    [n \in DOMAIN files \cup {id} |-> IF n = id THEN checkpoint ELSE files[n]]

\* Mutant: removes the checkpoint below the failed one.
WithoutFile_parent(id) == [n \in DOMAIN files \ {id - 1} |-> files[n]]

WithoutFile(id) == [n \in DOMAIN files \ {id} |-> files[n]]

MayCommit == saved.revision < MaxRevision

-----------------------------------------------------------------------------
(* Initial state: start_session *)

Init ==
    /\ saved = [revision |-> 0, history |-> <<>>, summary |-> {}, stack |-> <<>>,
                tick |-> 0, scene |-> StartScene, plugin |-> StartPlugin]
    /\ files = <<>>
    /\ op = Idle
    /\ draft = NoDraft
    /\ aux_log = <<>>
    /\ aux_start = <<>>
    /\ aux_marks = <<>>

-----------------------------------------------------------------------------
(* player_turn *)

\* The lock is taken and the state loaded.
BeginTurn ==
    /\ op.kind = "idle"
    /\ MayCommit
    /\ op' = [kind |-> "turn", stage |-> "open", beats |-> 0]
    /\ UNCHANGED <<saved, files, draft, aux>>

\* Mutant: a committed beat takes no time of its own.
ClockAfter_stopped(tick, beat) == tick + beat.ticks

\* _apply_time_skip and _commit_beat each move the clock, only ever forward.
ClockAfter(tick, beat) == tick + beat.ticks + 1

\* One beat and its save_game.  The player's records (first beat only) are
\* appended before the Director runs, the world's after _apply_canon; all are
\* stamped with the clock the beat started from.  A beat with no record, no
\* scene update and no time skip never happened.  Only a turn in which the
\* player passed goes on to a further beat.
CommitBeat(beat, again) ==
    /\ op.kind = "turn"
    /\ op.stage \in {"open", "beats"}
    /\ MayCommit /\ saved.tick < MaxTick
    /\ beat.spoke => op.beats = 0
    /\ LET step == next_turn_number(saved.history)
           Rec(by, scene) == [turn |-> step, by |-> by, scene |-> scene,
                              plugin |-> saved.plugin, tick |-> saved.tick]
           move == IF beat.spoke THEN <<Rec("Player", saved.scene)>> ELSE <<>>
           account == IF beat.told THEN <<Rec("world", beat.scene)>> ELSE <<>>
           added == move \o account
           start == [scene |-> saved.scene, plugin |-> saved.plugin,
                     tick |-> saved.tick]
       IN  /\ added # <<>> \/ beat.scene_up \/ beat.ticks > 0
           /\ saved' = [saved EXCEPT !.history = @ \o added,
                                     !.tick = ClockAfter(@, beat),
                                     !.scene = beat.scene,
                                     !.plugin = beat.plugin,
                                     !.revision = @ + 1]
           /\ aux_log' = aux_log \o added
           /\ aux_start' = aux_start \o [i \in 1..Len(added) |-> start]
    /\ again => ~beat.spoke /\ op.beats + 1 < BurstMaxBeats
    /\ op' = IF again
             THEN [op EXCEPT !.stage = "beats", !.beats = @ + 1]
             ELSE Idle
    /\ UNCHANGED <<files, draft, aux_marks>>

\* A model call fails, the request is cancelled or a beat leaves no trace: the
\* turn ends and whatever it did since its last save is dropped.
AbandonTurn ==
    /\ op.kind = "turn"
    /\ op.stage \in {"open", "beats"}
    /\ op' = Idle
    /\ UNCHANGED <<saved, files, draft, aux>>

-----------------------------------------------------------------------------
(* undo_turn *)

\* Pops every record of the highest turn and restores from the last one popped.
\* That the undo.before_commit filter gives back the state it is shown is assumed.
UndoTurn ==
    /\ op.kind = "idle"
    /\ MayCommit
    /\ saved.history # <<>>
    /\ \E n \in 0..Len(saved.history)-1 :
        LET restore == RestorePoint(saved.history, n)
            left == Len(aux_log) - (Len(saved.history) - n)
        IN  /\ BeforeLastTurn(saved.history, n)
            /\ saved' = [saved EXCEPT !.history = SubSeq(@, 1, n),
                                      !.scene = restore.scene,
                                      !.plugin = restore.plugin,
                                      !.tick = restore.tick,
                                      !.revision = @ + 1]
            /\ aux_log' = SubSeq(aux_log, 1, left)
            /\ aux_start' = SubSeq(aux_start, 1, left)
            /\ aux_marks' = [k \in DOMAIN aux_marks |->
                               [aux_marks[k] EXCEPT !.intact = @ /\ aux_marks[k].upto <= left]]
    /\ UNCHANGED <<files, op, draft>>

-----------------------------------------------------------------------------
(* _compact_loaded_game, called by compact_session and inside a turn *)

\* The checkpoint is written first.  Every beat older than `cutoff` is folded
\* into the summary, which is named here by the clock of the beats it covers;
\* a plugin may change its own state in compaction.before_commit.  That it leaves
\* the history and the summary of the draft alone, which the filter could replace,
\* is assumed.
WriteCheckpoint(keep, cutoff, plugin) ==
    LET h == saved.history
        id == next_compaction_id
        parent == ParentId(saved.stack)
    IN  /\ MayCommit
        /\ id \notin DOMAIN files /\ id <= MaxCheckpoints
        /\ Cardinality(TurnNumbers(h)) > keep
        /\ Cardinality({t \in TurnNumbers(h) : t >= cutoff}) = keep
        /\ \E n \in 0..Len(h) :
            LET evicted == SubSeq(h, 1, n)
                kept == SubSeq(h, n + 1, Len(h))
                summary == saved.summary \cup {evicted[i].tick : i \in DOMAIN evicted}
            IN  /\ Splits(h, n, cutoff)
                /\ files' = WithFile(id,
                     [parent |-> parent, max_turn |-> Newest(h).turn, evicted |-> evicted,
                      summary_before |-> saved.summary, summary_after |-> summary,
                      history_after |-> kept,
                      plugin_before |-> saved.plugin, plugin_after |-> plugin])
                /\ draft' = [saved EXCEPT !.history = kept,
                                          !.summary = summary,
                                          !.plugin = plugin,
                                          !.stack = Append(@, [id |-> id, parent |-> parent]),
                                          !.revision = @ + 1]
        /\ UNCHANGED <<saved, aux>>

CheckpointManual(cutoff, plugin) ==
    /\ op.kind = "idle"
    /\ WriteCheckpoint(KeepRecent, cutoff, plugin)
    /\ op' = [Idle EXCEPT !.kind = "compaction", !.stage = "saving"]

\* Automatic compaction: before the turn's own records exist, and only then.
CheckpointAutomatic(pressed, cutoff, plugin) ==
    /\ op.kind = "turn"
    /\ op.stage = "open"
    /\ LET turns == Cardinality(TurnNumbers(saved.history))
       IN  WriteCheckpoint(IF pressed THEN Shrunk(turns) ELSE KeepRecent, cutoff, plugin)
    /\ op' = [op EXCEPT !.stage = "saving"]

\* Mutant: the operation is still saving once it has saved.
AfterCompaction_held == op

\* A manual compaction returns; a turn goes on with whatever was saved.
AfterCompaction == IF op.kind = "turn" THEN [op EXCEPT !.stage = "beats"] ELSE Idle

SaveCompaction ==
    /\ op.stage = "saving"
    /\ saved' = draft
    /\ draft' = NoDraft
    /\ op' = AfterCompaction
    /\ aux_marks' = Append(aux_marks,
                      [from |-> Len(aux_log) - Len(saved.history),
                       upto |-> Len(aux_log), intact |-> TRUE])
    /\ UNCHANGED <<files, aux_log, aux_start>>

\* save_game raises: its checkpoint is removed again.
SaveCompactionFails ==
    /\ op.stage = "saving"
    /\ files' = WithoutFile(Newest(draft.stack).id)
    /\ draft' = NoDraft
    /\ op' = AfterCompaction
    /\ UNCHANGED <<saved, aux>>

-----------------------------------------------------------------------------
(* restore_last_compaction *)

\* Everything the code checks before it restores, the plugins' part excepted;
\* `n` is how many of the live records are not later than the compaction.
RestoreAccepts(g, n) ==
    LET entry == Newest(g.stack)
        checkpoint == files[entry.id]
        depth == Len(g.stack)
    IN  /\ g.stack # <<>>
        /\ entry.id \in DOMAIN files
        /\ checkpoint.parent = (IF depth > 1 THEN g.stack[depth - 1].id ELSE NoParent)
        /\ NotLater(g.history, n, checkpoint.max_turn)
        /\ SubSeq(g.history, 1, n) = checkpoint.history_after
        /\ g.summary = checkpoint.summary_after

\* invert_plugin_delta: the values the restore may leave.  No delta leaves the
\* state alone; one that something wrote over is a conflict, which a resolver of
\* that plugin settles as it likes (without one the restore is refused).
PluginAfterRestore(g, checkpoint) ==
    IF checkpoint.plugin_before = checkpoint.plugin_after THEN {g.plugin}
    ELSE IF g.plugin = checkpoint.plugin_after THEN {checkpoint.plugin_before}
    ELSE PluginStates

\* Mutant: the turns played since the compaction are not carried over.
Restored_noLater(g, n, checkpoint, plugin) ==
    [g EXCEPT !.history = checkpoint.evicted \o SubSeq(@, 1, n),
              !.summary = checkpoint.summary_before,
              !.plugin = plugin,
              !.stack = SubSeq(@, 1, Len(@) - 1),
              !.revision = @ + 1]

\* Mutant: the summary of the undone compaction stays.
Restored_keepsSummary(g, n, checkpoint, plugin) ==
    [g EXCEPT !.history = checkpoint.evicted \o @,
              !.plugin = plugin,
              !.stack = SubSeq(@, 1, Len(@) - 1),
              !.revision = @ + 1]

Restored(g, n, checkpoint, plugin) ==
    LET later == SubSeq(g.history, n + 1, Len(g.history))
    IN  [g EXCEPT !.history = checkpoint.evicted \o SubSeq(@, 1, n) \o later,
                  !.summary = checkpoint.summary_before,
                  !.plugin = plugin,
                  !.stack = SubSeq(@, 1, Len(@) - 1),
                  !.revision = @ + 1]

RestoreLastCompaction ==
    /\ op.kind = "idle"
    /\ MayCommit
    /\ \E n \in 0..Len(saved.history) :
        /\ RestoreAccepts(saved, n)
        /\ LET checkpoint == files[Newest(saved.stack).id]
           IN  \E plugin \in PluginAfterRestore(saved, checkpoint) :
                 saved' = Restored(saved, n, checkpoint, plugin)
    /\ aux_marks' = SubSeq(aux_marks, 1, Len(aux_marks) - 1)
    /\ UNCHANGED <<files, op, draft, aux_log, aux_start>>

-----------------------------------------------------------------------------
\* The process dies: what was saved stays, an unsaved checkpoint is orphaned.
Crash ==
    /\ op.kind # "idle"
    /\ op' = Idle
    /\ draft' = NoDraft
    /\ UNCHANGED <<saved, files, aux>>

Next ==
    \/ BeginTurn
    \/ \E beat \in Beats, again \in BOOLEAN : CommitBeat(beat, again)
    \/ AbandonTurn
    \/ UndoTurn
    \/ \E cutoff \in TurnNumbers(saved.history), plugin \in PluginStates :
          CheckpointManual(cutoff, plugin)
    \/ \E pressed \in BOOLEAN, cutoff \in TurnNumbers(saved.history),
          plugin \in PluginStates : CheckpointAutomatic(pressed, cutoff, plugin)
    \/ SaveCompaction
    \/ SaveCompactionFails
    \/ RestoreLastCompaction
    \/ Crash

Spec == Init /\ [][Next]_vars

-----------------------------------------------------------------------------
(* The story, as state.json and its live checkpoints hold it *)

\* How many records there are in the first of several sequences.
RecordsUpTo(parts, k) == Cardinality(UNION {{j} \X DOMAIN parts[j] : j \in 1..k})

\* The sequences one behind the other.
Joined(parts) ==
    LET ends == <<0>> \o [k \in 1..Len(parts) |-> RecordsUpTo(parts, k)]
        Record(k, i) == parts[k][i - ends[k]]
    IN  [i \in 1..ends[Len(parts) + 1] |->
            Record(CHOOSE k \in 1..Len(parts) : ends[k] < i /\ i <= ends[k + 1], i)]

\* What the compactions on the stack evicted, oldest first, and the live history.
Evictions == [k \in 1..Len(saved.stack) |-> files[saved.stack[k].id].evicted]
Reconstructed == Joined(Evictions) \o saved.history

\* The session implements Story: every commit is one beat told or taken back,
\* and compaction, restore, failed saves and crashes leave the story as it is.
Promise == INSTANCE Story WITH story <- Reconstructed
ImplementsStory == Promise!Spec

-----------------------------------------------------------------------------
(* Properties *)

EvictedCount == Len(aux_log) - Len(saved.history)

\* The history is in turn order and its clock anchors with it: a later turn
\* started strictly later, and before the clock the session shows now.  Every
\* turn-number comparison of undo, compaction and restore relies on it.
HistoryInOrder ==
    LET h == saved.history IN
    /\ \A i \in DOMAIN h : h[i].tick < saved.tick
    /\ \A i, j \in DOMAIN h : i < j =>
         \/ h[i].turn = h[j].turn /\ h[i].tick = h[j].tick
         \/ h[i].turn < h[j].turn /\ h[i].tick < h[j].tick

\* Compaction loses no record: the live history is the end of everything that
\* was played and not undone, and the checkpoints on the stack hold the rest,
\* contiguously, oldest first, whatever crashed or failed in between.
NothingLost ==
    LET depth == Len(saved.stack)
        Evicted(k) == files[saved.stack[k].id].evicted
        End(k) == aux_marks[k].from + Len(Evicted(k))
    IN  /\ EvictedCount >= 0
        /\ saved.history = SubSeq(aux_log, EvictedCount + 1, Len(aux_log))
        /\ Len(aux_marks) = depth
        /\ depth = 0 => EvictedCount = 0
        /\ \A k \in 1..depth :
             /\ aux_marks[k].from = (IF k = 1 THEN 0 ELSE End(k - 1))
             /\ Evicted(k) = SubSeq(aux_log, aux_marks[k].from + 1, End(k))
             /\ k = depth => End(k) = EvictedCount

\* The story summary covers exactly the beats compaction took out of the live
\* history: none it still shows, none that was undone, none left out.
SummaryCoversEvicted ==
    saved.summary = {aux_log[i].tick : i \in 1..EvictedCount}

\* Every entry of the stack has its file, the parents chain from the bottom to
\* the top, and the numbers only grow: no two live compactions share a file.
CheckpointChain ==
    \A k \in 1..Len(saved.stack) :
        LET entry == saved.stack[k]
            below == IF k = 1 THEN NoParent ELSE saved.stack[k - 1].id
        IN  /\ entry.id \in DOMAIN files
            /\ entry.parent = below
            /\ files[entry.id].parent = below
            /\ below < entry.id

\* A restore is refused only for a reason: while no turn the newest compaction
\* kept has been undone, its checks pass, whatever was played since.
RestoreStaysPossible ==
    saved.stack # <<>> /\ Newest(aux_marks).intact =>
        \E n \in 0..Len(saved.history) : RestoreAccepts(saved, n)

\* "Checkpoint files are immutable journal evidence": none is rewritten or
\* removed but the one whose own save has just failed.
InFlight(id) == op.stage = "saving" /\ id = Newest(draft.stack).id

CheckpointsAreImmutable ==
    [][\A id \in DOMAIN files : ~InFlight(id) =>
          id \in DOMAIN files' /\ files'[id] = files[id]]_vars

\* Undoing a turn the player opened puts back the scene, the plugins' state and
\* the clock that turn started from, across compactions and restores.
UndoneStart == aux_start[Len(aux_log') + 1]

UndoReturnsToTurnStart ==
    [][Len(aux_log') < Len(aux_log) /\ aux_log[Len(aux_log') + 1].by = "Player" =>
          /\ saved'.scene = UndoneStart.scene
          /\ saved'.plugin = UndoneStart.plugin
          /\ saved'.tick = UndoneStart.tick]_vars
=============================================================================
