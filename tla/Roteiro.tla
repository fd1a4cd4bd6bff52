------------------------------ MODULE Roteiro ------------------------------
(***************************************************************************)
(* The private story direction of one session: acts under the narrative    *)
(* clock, one rolling beat contract, and the code that decides when either *)
(* is replaced.                                                            *)
(*                                                                         *)
(* A committed beat is one step: the direction is maintained first, on the *)
(* history as the player's input left it, then the beat is played and the  *)
(* clock advances, and all of it is saved at once.  What the models write  *)
(* is a choice: which acts the architect returns, what a beat shows.       *)
(* Nothing here depends on which hint the Director is given, so the hints  *)
(* are left out; so is restoring a compaction, which only lengthens the    *)
(* history at its old end.                                                 *)
(***************************************************************************)
EXTENDS Integers, Sequences, FiniteSets

CONSTANTS
    HARD_BEAT_ACTION_CAP, HARD_BEAT_TURN_CAP, PARTIAL_ADVANCE_PATIENCE,
    COOLDOWN_TURNS, ACT_REPLAN_THRESHOLD,
    MaxSkip,        \* what time_skip_ticks is clamped to (8)
    BurstMaxBeats,  \* autonomous_burst_max_beats
    KeepRecent,     \* compaction_keep_recent_turns
    Actors,         \* a beat's expected_actors
    Anchors,        \* ... and its expected_anchors
    Replies,        \* what the architect may answer
    Beats,          \* what a beat may show
    NoRoteiro,
    MaxTick,        \* bound: no beat starts at this clock or later
    MaxTurns        \* bound: no beat starts with this many turns in the history

ASSUME CapAssumption ==
    /\ HARD_BEAT_ACTION_CAP \in Nat \ {0} /\ HARD_BEAT_TURN_CAP \in Nat \ {0}
    /\ PARTIAL_ADVANCE_PATIENCE \in Nat /\ ACT_REPLAN_THRESHOLD \in Nat
    /\ COOLDOWN_TURNS \in 0..HARD_BEAT_TURN_CAP
    /\ BurstMaxBeats \in Nat \ {0} /\ KeepRecent \in Nat \ {0}
    /\ MaxSkip \in Nat /\ MaxTick \in Nat /\ MaxTurns \in Nat

WrittenAct == [summary: {"none", "new", "repeated"}, id: Nat, duration_ticks: Int]

\* acts: as the model wrote them, each with no summary, one of its own or that of
\* an act kept; completed: act_completed; budget: the new beat's budget_turns.  An
\* answer whose beat has no intent fails the turn, which saves nothing.
ASSUME ReplyAssumption == \A reply \in Replies :
    /\ DOMAIN reply = {"acts", "completed", "budget"}
    /\ reply.completed \in BOOLEAN /\ reply.budget \in Int
    /\ reply.acts \in Seq(WrittenAct)

\* move: what the player adds before the Director runs; told: what the beat leaves
\* in the history afterwards; touched: the targets it touches; ticks: the time it
\* compresses.  A spoken move or an account is a progress record.  An anchor that
\* is found in the records themselves is one the beat touches.
ASSUME BeatAssumption ==
    Beats \subseteq [move: {"none", "thought", "spoken"}, told: {"nothing", "thought", "account"},
                     touched: SUBSET (Actors \cup Anchors), ticks: 0..MaxSkip]

VARIABLES
    tick,       \* narrative_tick
    history,    \* one entry for each turn number with records
    roteiro,
    compacted,  \* whether a compaction has evicted turns
    burst       \* beats of the passed turn in progress; 0 when there is none

\* Ghost: the code has none of it.
VARIABLES
    aux             \* since: the clock when the current act became current;
                    \* narrated: turns told in the current beat; fired: the acts
                    \* whose deadline has passed; cut: whether compaction may
                    \* have taken turns of the current beat away

vars == <<tick, history, roteiro, compacted, burst, aux>>

-----------------------------------------------------------------------------
(* Types *)

Act == [id: Nat, duration_ticks: 0..12]

RoteiroType ==
    [acts: Seq(Act), act_index: Nat, act_started_tick: Nat,
     beat_started_turn: Nat, anchors_seen: SUBSET Anchors, budget: 2..10,
     beat_actions_elapsed: Nat, cooldown_until_turn: Nat, beat_replans_in_act: Nat]

ASSUME NoRoteiroAssumption == NoRoteiro \notin RoteiroType

Ghost == [since: Nat, narrated: Nat, fired: SUBSET Nat, cut: BOOLEAN]

\* tick, roteiro and aux are those the turn started from.
Turn == [turn: Nat, progress: BOOLEAN, actors: SUBSET Actors,
         tick: Nat, roteiro: RoteiroType \cup {NoRoteiro}, aux: Ghost]

TypeOK ==
    /\ tick \in Nat
    /\ history \in Seq(Turn)
    /\ roteiro \in RoteiroType \cup {NoRoteiro}
    /\ roteiro # NoRoteiro => roteiro.act_index <= Len(roteiro.acts)
    /\ compacted \in BOOLEAN
    /\ burst \in 0..BurstMaxBeats
    /\ aux \in Ghost

-----------------------------------------------------------------------------
(* Helpers.  act_index counts from 0: the current act is acts[act_index + 1], *)
(* and there is none when every act has been played.                          *)

next_turn_number(h) == IF h = <<>> THEN 1 ELSE h[Len(h)].turn + 1

HasAct(r) == r.act_index < Len(r.acts)
CurrentAct(r) == r.acts[r.act_index + 1]

_beat_records(r, h) ==
    {i \in DOMAIN h : h[i].turn >= r.beat_started_turn /\ h[i].progress}

turns_elapsed(r, h) == Cardinality({h[i].turn : i \in _beat_records(r, h)})

actors_missing(r, h) == Actors \ UNION {h[i].actors : i \in _beat_records(r, h)}
anchors_missing(r) == Anchors \ r.anchors_seen

\* The beat has landed, if there was anything to land, or has landed enough.
Advances(r, h) ==
    /\ actors_missing(r, h) = {}
    /\ \/ anchors_missing(r) = {} /\ Actors \cup Anchors # {}
       \/ /\ r.anchors_seen # {}
          /\ Cardinality(anchors_missing(r)) <= 1
          /\ turns_elapsed(r, h) >= PARTIAL_ADVANCE_PATIENCE

\* Mutant: only the player's actions spend the beat.
Stalled_actionsOnly(r, h) ==
    r.beat_actions_elapsed >= r.budget \/ r.beat_actions_elapsed >= HARD_BEAT_ACTION_CAP

\* A beat that has drifted has stalled too: the drift window is the turn cap.
Stalled(r, h) ==
    \/ r.beat_actions_elapsed >= r.budget
    \/ r.beat_actions_elapsed >= HARD_BEAT_ACTION_CAP
    \/ turns_elapsed(r, h) >= HARD_BEAT_TURN_CAP

evaluate_roteiro(r, h) ==
    CASE Advances(r, h) -> "advance"
      [] ~Advances(r, h) /\ ~Stalled(r, h) -> "none"
      [] OTHER -> IF next_turn_number(h) < r.cooldown_until_turn THEN "none"
                  ELSE IF r.beat_replans_in_act >= ACT_REPLAN_THRESHOLD THEN "replan_act"
                  ELSE "replan_beat"

-----------------------------------------------------------------------------
(* What is made of an answer *)

Clamped(n, least, most) == IF n < least THEN least ELSE IF n > most THEN most ELSE n

\* Of the first five acts those whose summary is one of these.
Selected(raw, summaries) ==
    LET Kept(i) == IF i <= Len(raw) /\ raw[i].summary \in summaries THEN <<raw[i]>> ELSE <<>>
    IN  Kept(1) \o Kept(2) \o Kept(3) \o Kept(4) \o Kept(5)

Valid(raw) == Selected(raw, {"new", "repeated"})

_validate_acts(valid) ==
    [i \in DOMAIN valid |-> [id |-> valid[i].id, duration_ticks |-> Clamped(valid[i].duration_ticks, 0, 12)]]

\* The budget of the new beat; its actors are never the controlled character.
_validate_beat(reply) == Clamped(reply.budget, 2, 10)

-----------------------------------------------------------------------------
(* replan_roteiro *)

\* The rewrite tends to restate an act that is kept.
NewActs(reply) == _validate_acts(Selected(reply.acts, {"new"}))

\* Mutant: the rewrite replaces the current act too.
Spliced_current(r, reply) == SubSeq(r.acts, 1, r.act_index) \o NewActs(reply)

\* Acts already played stay played, the current one among them.
Spliced(r, reply) ==
    (IF HasAct(r) THEN SubSeq(r.acts, 1, r.act_index + 1) ELSE r.acts) \o NewActs(reply)

\* Mutant: the answer is believed whether or not there is a further act.
Completes_believed(r, acts, reply) == reply.completed

Completes(r, acts, reply) == reply.completed /\ r.act_index < Len(acts) - 1

\* Mutant: every new beat starts the act's clock again.
StartedTick_restarted(r, moved) == tick

StartedTick(r, moved) == IF moved THEN tick ELSE r.act_started_tick

replan_roteiro(r, action, deadline, reply, turn) ==
    LET acts == IF action = "replan_act" /\ Valid(reply.acts) # <<>> THEN Spliced(r, reply) ELSE r.acts
        moved == ~deadline /\ Completes(r, acts, reply)
        before == IF moved \/ action = "replan_act" THEN 0 ELSE r.beat_replans_in_act
    IN  [acts |-> acts,
         act_index |-> IF moved THEN r.act_index + 1 ELSE r.act_index,
         act_started_tick |-> StartedTick(r, moved),
         beat_started_turn |-> turn,
         anchors_seen |-> {},
         budget |-> _validate_beat(reply),
         beat_actions_elapsed |-> 0,
         cooldown_until_turn |-> turn + COOLDOWN_TURNS,
         beat_replans_in_act |->
            IF action = "replan_beat" /\ ~deadline THEN before + 1 ELSE before]

-----------------------------------------------------------------------------
(* _maintain_roteiro *)

generate_roteiro(reply, turn) ==
    [acts |-> _validate_acts(Valid(reply.acts)), act_index |-> 0, act_started_tick |-> tick,
     beat_started_turn |-> turn, anchors_seen |-> {}, budget |-> _validate_beat(reply),
     beat_actions_elapsed |-> 0, cooldown_until_turn |-> 0, beat_replans_in_act |-> 0]

Expired(r) ==
    /\ HasAct(r)
    /\ CurrentAct(r).duration_ticks > 0
    /\ tick - r.act_started_tick >= CurrentAct(r).duration_ticks

\* Mutant: the terminal act stays current, and its deadline comes round again.
ActAfterDeadline_stays(r) == IF r.act_index + 1 >= Len(r.acts) THEN r.act_index ELSE r.act_index + 1

\* The next act; past the last one the first new act, or none: the clock stops.
ActAfterDeadline(r) == r.act_index + 1

\* The deadline has passed: the code moves on, the architect writes what follows,
\* and further acts too when there is none left.
Deadline(r, reply, turn) ==
    LET terminal == r.act_index + 1 >= Len(r.acts)
        opened == [r EXCEPT !.act_index = IF terminal THEN @ ELSE ActAfterDeadline(r),
                            !.act_started_tick = tick,
                            !.beat_replans_in_act = 0]
        replanned == replan_roteiro(opened, IF terminal THEN "replan_act" ELSE "replan_beat",
                                    TRUE, reply, turn)
    IN  [replanned EXCEPT !.act_index = ActAfterDeadline(r)]

\* The action counter is the player's: a passed turn spends one, however many
\* beats it plays.
Counted(first_beat) == [roteiro EXCEPT !.beat_actions_elapsed = IF first_beat THEN @ + 1 ELSE @]

\* What is due before a beat; h already holds the player's records.
Due(h, first_beat) ==
    IF roteiro = NoRoteiro THEN "generate"
    ELSE IF Expired(roteiro) THEN "act_deadline"
    ELSE evaluate_roteiro(Counted(first_beat), h)

\* The direction the beat is played under.
_maintain_roteiro(due, reply, turn, first_beat) ==
    CASE due = "generate" -> generate_roteiro(reply, turn)
      [] due = "act_deadline" -> Deadline(Counted(first_beat), reply, turn)
      [] due = "none" -> Counted(first_beat)
      [] OTHER -> replan_roteiro(Counted(first_beat), due, FALSE, reply, turn)

\* The anchors of the beat that the played beat shows for the first time.
collect_beat_evidence(r, shown) == {anchor \in anchors_missing(r) : anchor \in shown}

-----------------------------------------------------------------------------
Init ==
    /\ tick = 0
    /\ history = <<>>
    /\ roteiro = NoRoteiro
    /\ compacted = FALSE
    /\ burst = 0
    /\ aux = [since |-> 0, narrated |-> 0, fired |-> {}, cut |-> FALSE]

\* What the ghosts are after a beat played under `after`.
GhostAfter(due, after, narrated) ==
    LET same_act == roteiro # NoRoteiro /\ HasAct(roteiro) /\ after.act_index = roteiro.act_index
    IN  [since |-> IF same_act THEN aux.since ELSE tick,
         narrated |-> (IF due = "none" THEN aux.narrated ELSE 0) + (IF narrated THEN 1 ELSE 0),
         fired |-> IF due = "act_deadline" THEN aux.fired \cup {roteiro.act_index} ELSE aux.fired,
         cut |-> due = "none" /\ aux.cut]

\* A beat of which h, all that is kept, may lack the first turns.
Cut(r, h) == r # NoRoteiro /\ (h = <<>> \/ h[1].turn > r.beat_started_turn)

\* One committed beat.  Only a turn the player passed goes on to a further beat,
\* to which the player adds nothing.
CommitBeat(beat, reply, first_beat) ==
    /\ tick < MaxTick /\ Len(history) < MaxTurns
    /\ IF first_beat THEN burst' = IF beat.move = "none" THEN 1 ELSE 0
       ELSE /\ burst \in 1..BurstMaxBeats - 1
            /\ beat.move = "none"
            /\ burst' = burst + 1
    /\ roteiro = NoRoteiro => Valid(reply.acts) # <<>>
    /\ LET turn == next_turn_number(history)
           Entry(progress, actors) ==
               [turn |-> turn, progress |-> progress, actors |-> actors,
                tick |-> tick, roteiro |-> roteiro, aux |-> aux]
           spoken == beat.move = "spoken"
           narrated == spoken \/ beat.told = "account"
           opened == IF beat.move = "none" THEN history
                     ELSE Append(history, Entry(spoken, {}))
           due == Due(opened, first_beat)
           after == _maintain_roteiro(due, reply, turn, first_beat)
       IN  /\ roteiro' = [after EXCEPT !.anchors_seen = @ \cup collect_beat_evidence(after, beat.touched)]
           /\ history' = IF beat.move = "none" /\ beat.told = "nothing" THEN history
                         ELSE Append(history, Entry(narrated, beat.touched \cap Actors))
           /\ aux' = GhostAfter(due, after, narrated)
    /\ tick' = tick + beat.ticks + 1
    /\ UNCHANGED compacted

\* Everything the last turn's records were stamped with comes back.
UndoTurn ==
    /\ history # <<>>
    /\ history' = SubSeq(history, 1, Len(history) - 1)
    /\ LET last == history[Len(history)]
       IN  /\ tick' = last.tick
           /\ roteiro' = last.roteiro
           /\ aux' = [last.aux EXCEPT !.cut = @ \/ (compacted /\ Cut(last.roteiro, history'))]
    /\ burst' = 0
    /\ UNCHANGED compacted

CompactHistory ==
    /\ Len(history) > KeepRecent
    /\ history' = SubSeq(history, Len(history) - KeepRecent + 1, Len(history))
    /\ compacted' = TRUE
    /\ aux' = [aux EXCEPT !.cut = @ \/ Cut(roteiro, history')]
    /\ burst' = 0
    /\ UNCHANGED <<tick, roteiro>>

Next ==
    \/ \E beat \in Beats, reply \in Replies, first_beat \in BOOLEAN :
          CommitBeat(beat, reply, first_beat)
    \/ UndoTurn
    \/ CompactHistory

Spec == Init /\ [][Next]_vars

-----------------------------------------------------------------------------
(* Properties *)

\* No act is concluded by the clock twice: an act whose deadline has passed is
\* behind the current one, the terminal act too, so its world event is over.
FiredActsAreOver ==
    roteiro # NoRoteiro => \A i \in aux.fired : i < roteiro.act_index

\* The world never waits: by the end of any beat an act has been current for less
\* than its duration, or for what that one beat could add to it, however its
\* beats were replaced, its turns undone or its history compacted meanwhile.
WorldNeverWaits ==
    roteiro # NoRoteiro /\ HasAct(roteiro) /\ CurrentAct(roteiro).duration_ticks > 0 =>
        tick - aux.since <= CurrentAct(roteiro).duration_ticks + MaxSkip

\* "No beat may hold the stage past HARD_BEAT_TURN_CAP narrated turns, whatever
\* the budget says and whoever spent the action": of a beat whose turns are still
\* in the history.  Once compaction has taken some of them away, before or after
\* an undo, the code counts only the rest and the beat may go on.
BeatTurnCeiling ==
    ~aux.cut => aux.narrated <= HARD_BEAT_TURN_CAP

\* "Acts already played stay played": no beat takes back or rewrites an act up to
\* the current one.  Only an undo returns to an earlier direction.
PlayedActsStay ==
    [][tick' > tick /\ roteiro # NoRoteiro =>
         /\ roteiro'.act_index >= roteiro.act_index
         /\ \A i \in 1..roteiro.act_index + 1 :
              i <= Len(roteiro.acts) => /\ i <= Len(roteiro'.acts)
                                        /\ roteiro'.acts[i] = roteiro.acts[i]]_vars

=============================================================================
