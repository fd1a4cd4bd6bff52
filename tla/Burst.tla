------------------------------- MODULE Burst -------------------------------
(***************************************************************************)
(* One request of the player, beat by beat.                                *)
(*                                                                         *)
(* A turn the player plays is one beat.  A pass is a burst: the world may  *)
(* play several beats before control returns, and each one is saved as a   *)
(* turn of its own.  Every beat gets one hint from the first producer that *)
(* has one, asks the Director who reacts and what happens, and decides     *)
(* whether the burst goes on.  What the beats say is abstracted to a few   *)
(* event texts; who is asked, what stops and what is counted is not.       *)
(*                                                                         *)
(* The request holds the session's lock throughout (SessionLock), so its   *)
(* steps meet no other request's: only a failure comes between them.       *)
(***************************************************************************)
EXTENDS Integers, Sequences, FiniteSets

CONSTANTS
    Cast,            \* the session's characters
    Present,         \* those in the scene
    Controlled,      \* the human's character
    Texts,           \* what an event of the Director may tell
    MaxBeats,        \* autonomous_burst_max_beats
    MaxSpeakers,     \* MAX_SPEAKERS_PER_TURN
    ExcludeBeats,    \* BURST_PROTAGONIST_EXCLUDE_BEATS
    QuietThreshold,  \* watcher_quiet_threshold
    Refractory       \* watcher_refractory_turns

ASSUME CastAssumption == Controlled \in Present /\ Present \subseteq Cast
ASSUME BeatAssumption == MaxBeats \in Nat \ {0} /\ MaxSpeakers \in Nat \ {0} /\ ExcludeBeats \in Nat
ASSUME WatcherAssumption == QuietThreshold \in Nat \ {0} /\ Refractory \in Nat \ {0}

VARIABLES
    saved,   \* the watcher's part of the session, as state.json has it: quiet and
             \* since count up to the threshold and the refractory window
    game,    \* the request's own copy of it
    stage,   \* where the request is; "idle" between requests
    turn,    \* of its input, what the beats still look at
    hint,    \* the hint of the beat being played, or None
    beat,    \* what that beat has so far
    burst    \* what the request keeps across its beats

\* Ghost: the beats this request has committed, as they were.
VARIABLE aux_beats

\* Ghosts: the beats the scene has stood still, counted up to what earns a
\* disruption, and the beats it has stood still and nobody intervened or tried.
VARIABLE aux_still

vars == <<saved, game, stage, turn, hint, beat, burst, aux_beats, aux_still>>

-----------------------------------------------------------------------------
(* Values *)

None == "none"
Narrator == "Narrator"
Summary == "summary"

Told == Texts \cup {Summary}

ForceSpeaker == Cast \cup {Narrator, None}
Input == [skip : BOOLEAN, said : BOOLEAN, hint : BOOLEAN, force : ForceSpeaker]

Beat == [queue : Seq(Present \cup {Narrator}), events : SUBSET Told, changed : BOOLEAN,
         return_control : BOOLEAN, recorded : BOOLEAN,
         voiced : Present \cup {None}]

-----------------------------------------------------------------------------
(* The input *)

ValidInput(in) ==
    IF in.skip THEN ~in.said ELSE in.said \/ in.hint

\* A forced speaker who is not in the scene is no force at all.
EffectiveForce(force) == IF force \in Present \cup {Narrator} THEN force ELSE None

Forced == turn.effective_force_speaker # None

BeatBudget == IF turn.skip /\ ~Forced THEN MaxBeats ELSE 1

MultiBeat == BeatBudget > 1

NewBurst == [event_texts |-> {}, streak |-> 0, stop_reason |-> "budget_exhausted"]

NoBeat == [queue |-> <<>>, events |-> {}, changed |-> FALSE,
           return_control |-> FALSE, recorded |-> FALSE,
           voiced |-> None]

\* The player's move is recorded before the Director sees it.
PlayerTurn ==
    /\ stage = "idle"
    /\ \E in \in Input :
        /\ ValidInput(in)
        /\ turn' = [skip |-> in.skip, effective_force_speaker |-> EffectiveForce(in.force)]
        /\ hint' = IF in.hint THEN "player" ELSE None
        /\ beat' = [NoBeat EXCEPT !.recorded = in.said]
    /\ burst' = NewBurst
    /\ stage' = "hint"
    /\ aux_beats' = <<>>
    /\ UNCHANGED <<saved, game, aux_still>>

-----------------------------------------------------------------------------
(* The hint *)

FirstBeat == aux_beats = <<>>

OpeningPass == FirstBeat /\ turn.skip

\* The drive scheduler's roll, and a seed that came back with a text.
DriveFires == {None} \cup (IF OpeningPass THEN {"drive"} ELSE {})

\* What the gentle producers make of the hint, first come first served: the
\* player's, the drive's event, the invitation to compress time, and the event
\* of an act whose deadline passed (Roteiro says when one does).
OfferedHints ==
    IF hint # None THEN {hint}
    ELSE IF OpeningPass THEN {IF d = None THEN "invite" ELSE d : d \in DriveFires}
    ELSE {None, "act"}

LadderRung ==
    IF game.quiet < QuietThreshold \/ game.since < Refractory THEN "none"
    ELSE IF ~game.silence THEN "allow_silence" ELSE "causal_disruption"

AllowSilence ==
    /\ LadderRung = "allow_silence"
    /\ game' = [game EXCEPT !.silence = TRUE]
    /\ hint' = None

Disrupt ==
    /\ LadderRung = "causal_disruption"
    /\ game' = [game EXCEPT !.quiet = 0, !.silence = FALSE, !.since = 0]
    /\ hint' = "disruption"

\* An intervention that names no thread and no event is dropped.
NoIntervention ==
    /\ LadderRung \in {"none", "causal_disruption"}
    /\ hint' = None
    /\ UNCHANGED game

\* The watcher is asked last, when no one else had a hint.
WatcherRecovery == AllowSilence \/ Disrupt \/ NoIntervention

ResolveHint ==
    /\ stage = "hint"
    /\ \E h \in OfferedHints :
        IF h = None THEN WatcherRecovery ELSE hint' = h /\ UNCHANGED game
    /\ stage' = "direct"
    /\ UNCHANGED <<saved, turn, beat, burst, aux_beats, aux_still>>

-----------------------------------------------------------------------------
(* The Director *)

Excluded == IF Len(aux_beats) < ExcludeBeats THEN {Controlled} ELSE {}

\* What comes before the first "Narrator".
Spoken(raw) ==
    SelectSeq([i \in 1..Len(raw) |->
                 IF \E j \in 1..i : raw[j] = Narrator THEN Narrator ELSE raw[i]],
              LAMBDA s : s # Narrator)

\* The first MaxSpeakers of some entries, each once; the Narrator when none is left.
Queue(s, keeps) ==
    LET q == [i \in 1..Cardinality(keeps) |->
                s[CHOOSE k \in keeps : Cardinality({l \in keeps : l <= k}) = i]]
    IN  IF q = <<>> THEN <<Narrator>> ELSE SubSeq(q, 1, IF Len(q) < MaxSpeakers THEN Len(q) ELSE MaxSpeakers)

\* Who answers: those in the scene and not excluded.
Normalized(raw, excluded) ==
    LET s == Spoken(raw)
    IN  Queue(s, {i \in 1..Len(s) : s[i] \in Present \ excluded /\ \A j \in 1..(i - 1) : s[j] # s[i]})

\* Raw answers: up to three entries, present or not.
RawQueues == UNION {[1..n -> Cast \cup {Narrator}] : n \in 0..3}

OpenAnswers == {Normalized(raw, {}) : raw \in RawQueues}
ExcludingAnswers == {Normalized(raw, {Controlled}) : raw \in RawQueues}

\* A manual force wins over whatever the Director answered.
NextSpeakers ==
    IF Forced THEN {<<turn.effective_force_speaker>>}
    ELSE IF Excluded = {} THEN OpenAnswers ELSE ExcludingAnswers

\* In a burst an event that repeats an earlier beat's is dropped.
FreshEvents(events) == IF MultiBeat THEN events \ burst.event_texts ELSE events

\* Compressed time may come with a summary of what changed, an event of its own;
\* it is kept only where it is the beat's one event.
TimeSkip == {[skipped |-> FALSE, told |-> {}]} \cup [skipped : {TRUE}, told : {{}, {Summary}}]

\* A draft that repeats earlier prose is written again once, then stripped of what
\* still does, unless nothing would be left: there is none where the model has none.
render_narration == BOOLEAN

\* A burst's beat without an event narrates nothing.
Narrates(events) == IF MultiBeat /\ events = {} THEN {FALSE} ELSE render_narration

\* The narrative clock moves on.
Aged(g, ticks) ==
    [g EXCEPT !.since = IF @ + ticks < Refractory THEN @ + ticks ELSE Refractory]

\* The prose and the scene are in the copy, nothing is saved.
DirectorBeat ==
    /\ stage = "direct"
    /\ \E q \in NextSpeakers,
          answer \in SUBSET Texts, s \in TimeSkip, moved, back \in BOOLEAN :
       LET fresh == FreshEvents(answer)
           events == IF fresh = {} THEN s.told ELSE fresh
       IN  /\ burst' = [burst EXCEPT !.event_texts = IF MultiBeat THEN @ \cup fresh ELSE @]
           /\ \E told \in Narrates(events) :
                beat' = [beat EXCEPT !.queue = q, !.events = events,
                                     !.changed = moved \/ s.skipped,
                                     !.return_control = back, !.recorded = @ \/ told]
           /\ game' = Aged(game, IF s.skipped THEN 1 ELSE 0)
    /\ stage' = "speak"
    /\ UNCHANGED <<saved, turn, hint, aux_beats, aux_still>>

-----------------------------------------------------------------------------
(* The speakers *)

\* The queue is voiced up to the human's character, where it stops.
Voices(queue) ==
    {s \in Present \ {Controlled} :
        \E i \in 1..Len(queue) : queue[i] = s /\ \A j \in 1..i : queue[j] # Controlled}

\* An event may be a line the Director gives a character; unless it echoes a
\* recent line of theirs or gives a whisper away (Confidences), it becomes a
\* speech record of theirs after the replies.
AudibleSpeech == IF beat.events \cap Texts = {} THEN {None} ELSE Present \cup {None}

RunSpeakerQueue ==
    /\ stage = "speak"
    /\ \E voiced \in AudibleSpeech :
        beat' = [beat EXCEPT !.voiced = voiced,
                             !.recorded = @ \/ Voices(beat.queue) # {} \/ voiced # None]
    /\ stage' = "commit"
    /\ UNCHANGED <<saved, game, turn, hint, burst, aux_beats, aux_still>>

-----------------------------------------------------------------------------
(* The end of a beat *)

NoTrace == ~beat.recorded /\ ~beat.changed

\* Mutant: a scene that moves keeps the stillness counted before.
Audited_kept(moved) ==
    IF moved THEN [game EXCEPT !.silence = FALSE]
    ELSE [game EXCEPT !.quiet = IF @ < QuietThreshold THEN @ + 1 ELSE @]

\* What the delta audit makes of the watcher's counters.
Audited(moved) ==
    IF moved THEN [game EXCEPT !.quiet = 0, !.silence = FALSE]
    ELSE [game EXCEPT !.quiet = IF @ < QuietThreshold THEN @ + 1 ELSE @]

Committed(moved) == Aged(Audited(moved), 1)

Replied == Voices(beat.queue) # {}

Addressed == \E i \in 1..Len(beat.queue) : beat.queue[i] = Controlled

LogEntry == [addressed |-> Addressed, replied |-> Replied, events |-> beat.events,
             return_control |-> beat.return_control]

\* Mutant: beats without a reply are counted since the burst began.
Streak_total == IF Replied THEN burst.streak ELSE burst.streak + 1

Streak == IF Replied THEN 0 ELSE burst.streak + 1

\* Why the burst stops after this beat, if it does.
SettledBy ==
    IF Addressed THEN "player_addressed"
    ELSE IF beat.return_control THEN "protagonist_decision"
    ELSE IF ~Replied /\ MultiBeat /\ beat.events = {} THEN "beat_settled"
    ELSE IF Streak >= 2 THEN "beat_settled"
    ELSE None

\* Nothing of the beat is saved.
ProducedNothing ==
    /\ stage = "commit" /\ NoTrace
    /\ burst' = [burst EXCEPT !.stop_reason = "beat_produced_nothing"]
    /\ stage' = "reply"
    /\ game' = saved
    /\ UNCHANGED <<saved, turn, hint, beat, aux_beats, aux_still>>

\* What the ghost makes of a committed beat.  A disruption starts the count of
\* still beats again, with its own.
CountStill(moved) ==
    /\ aux_still' = IF moved THEN 0
                    ELSE IF hint = "disruption" THEN 1
                    ELSE IF aux_still <= QuietThreshold THEN aux_still + 1 ELSE aux_still

\* The hint is spent with the beat it steered.
CommitBeat ==
    /\ stage = "commit" /\ ~NoTrace
    /\ \E moved \in BOOLEAN : game' = Committed(moved) /\ CountStill(moved)
    /\ saved' = game'
    /\ aux_beats' = Append(aux_beats, LogEntry)
    /\ LET reason == SettledBy
           stops == reason # None \/ Len(aux_beats') = BeatBudget
       IN  /\ burst' = [burst EXCEPT !.streak = IF SettledBy = None THEN Streak ELSE @,
                                     !.stop_reason = IF reason # None THEN reason ELSE @]
           /\ stage' = IF stops THEN "reply" ELSE "hint"
           /\ beat' = IF stops THEN beat ELSE NoBeat
    /\ hint' = None
    /\ UNCHANGED turn

\* Between requests nothing is left of the last one but what it saved.
NoTurn == [skip |-> TRUE, effective_force_speaker |-> None]

Return ==
    /\ stage' = "idle"
    /\ game' = saved
    /\ turn' = NoTurn
    /\ hint' = None
    /\ beat' = NoBeat
    /\ burst' = NewBurst
    /\ aux_beats' = <<>>
    /\ UNCHANGED <<saved, aux_still>>

\* The answer lists the committed beats and why the burst stopped.
Reply == stage = "reply" /\ Return

\* A model call or a plugin fails, or the process dies: what the beats before
\* this one saved stays.
Fail == stage \notin {"idle", "reply"} /\ Return

-----------------------------------------------------------------------------
(* The specification *)

\* No intervention yet: watcher_last_intervention_tick is far in the past.
NewGame == [quiet |-> 0, silence |-> FALSE, since |-> Refractory]

Init ==
    /\ saved = NewGame /\ game = NewGame
    /\ stage = "idle"
    /\ turn = NoTurn
    /\ hint = None
    /\ beat = NoBeat
    /\ burst = NewBurst
    /\ aux_beats = <<>>
    /\ aux_still = 0

Next ==
    \/ PlayerTurn \/ ResolveHint \/ DirectorBeat \/ RunSpeakerQueue
    \/ ProducedNothing \/ CommitBeat \/ Reply \/ Fail

Spec == Init /\ [][Next]_vars

-----------------------------------------------------------------------------
(* Properties *)

Quiet(k) == ~aux_beats[k].replied

\* Beat k gives the burst a reason to stop.
Settles(k) ==
    \/ aux_beats[k].addressed \/ aux_beats[k].return_control
    \/ Quiet(k) /\ MultiBeat /\ aux_beats[k].events = {}
    \/ Quiet(k) /\ k > 1 /\ Quiet(k - 1)

\* No beat is played on after one that ends the burst, and the reason reported
\* is the one the beats show: the human is never played past, never made to watch
\* a third beat without a reply, and the budget was exhausted only when every
\* beat of it was played and none had settled anything (_beat_settled).
StopsWhereItSays ==
    LET n == Len(aux_beats)
    IN  /\ \A k \in 1..n - 1 : ~Settles(k)
        /\ stage = "reply" /\ n > 0 =>
             CASE burst.stop_reason = "budget_exhausted" -> n = BeatBudget /\ ~Settles(n)
               [] burst.stop_reason = "player_addressed" -> aux_beats[n].addressed
               [] burst.stop_reason = "protagonist_decision" -> aux_beats[n].return_control
               [] burst.stop_reason = "beat_settled" -> Quiet(n) /\ Settles(n)
               [] burst.stop_reason = "beat_produced_nothing" -> n < BeatBudget /\ ~Settles(n)

\* The watcher never strikes a scene that moves: a disruption is preceded by a
\* threshold of still beats and a further one it tolerated, all committed, with
\* whatever requests failed in between (select_recovery_step).
EarnedDisruption == [][hint' = "disruption" /\ hint # hint' => aux_still > QuietThreshold]_vars
=============================================================================
