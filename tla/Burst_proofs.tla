---------------------------- MODULE Burst_proofs ----------------------------
(***************************************************************************)
(* A burst stops where and for the reason it says, and the watcher disrupts *)
(* only a scene that has stood still: for any cast, any answers of the      *)
(* Director, any number of beats and any thresholds.                        *)
(***************************************************************************)
EXTENDS Burst, SequenceTheorems, TLAPS

-----------------------------------------------------------------------------
(* Why a burst stops *)

Playing == stage \in {"hint", "direct", "speak", "commit"}

Reasons == {"budget_exhausted", "player_addressed", "protagonist_decision", "beat_settled",
            "beat_produced_nothing"}

BurstTypes ==
    /\ stage \in {"idle", "hint", "direct", "speak", "commit", "reply"}
    /\ DOMAIN burst = {"event_texts", "streak", "stop_reason"}
    /\ burst.stop_reason \in Reasons
    /\ aux_beats \in Seq([addressed : BOOLEAN, replied : BOOLEAN, events : SUBSET Told,
                          return_control : BOOLEAN])
    /\ DOMAIN beat = {"queue", "events", "changed", "return_control", "recorded", "voiced"}
    /\ beat.return_control \in BOOLEAN
    /\ beat.events \in SUBSET Told

\* While beats are being played none has settled anything, fewer were played than
\* may be, and the streak says whether the last one brought a reply.
StillGoing ==
    LET n == Len(aux_beats)
    IN  /\ n < BeatBudget
        /\ \A k \in 1..n : ~Settles(k)
        /\ burst.streak = IF n > 0 /\ Quiet(n) THEN 1 ELSE 0
        /\ burst.stop_reason = "budget_exhausted"

BurstInv ==
    /\ BurstTypes
    /\ Playing => StillGoing
    /\ stage = "idle" => aux_beats = <<>>
    /\ StopsWhereItSays

\* What a beat adds to those committed.
LEMMA Logged ==
    ASSUME BurstTypes
    PROVE  LET n == Len(aux_beats)
               more == Append(aux_beats, LogEntry)
           IN  /\ more \in Seq([addressed : BOOLEAN, replied : BOOLEAN, events : SUBSET Told,
                                return_control : BOOLEAN])
               /\ n \in Nat /\ Len(more) = n + 1
               /\ more[n + 1] = LogEntry
               /\ \A k \in 1..n : more[k] = aux_beats[k]
<1>1. LogEntry \in [addressed : BOOLEAN, replied : BOOLEAN, events : SUBSET Told, return_control : BOOLEAN]
  BY DEF LogEntry, Addressed, Replied, BurstTypes
<1>. HIDE DEF LogEntry
<1>. QED  BY <1>1, AppendProperties, LenProperties DEF BurstTypes

\* The request decides to stop where the beat it commits settles the burst.
LEMMA Decides ==
    ASSUME BurstInv, stage = "commit", UNCHANGED turn, aux_beats' = Append(aux_beats, LogEntry),
           NEW n, n = Len(aux_beats)
    PROVE  /\ \A k \in 1..n : ~Settles(k)'
           /\ Settles(n + 1)' <=> SettledBy # None
           /\ SettledBy = "player_addressed" => aux_beats'[n + 1].addressed
           /\ SettledBy = "protagonist_decision" => aux_beats'[n + 1].return_control
           /\ SettledBy = "beat_settled" => Quiet(n + 1)'
           /\ SettledBy = None => Streak = IF Quiet(n + 1)' THEN 1 ELSE 0
           /\ SettledBy \in (Reasons \ {"budget_exhausted", "beat_produced_nothing"}) \cup {None}
<1>1. /\ n \in Nat /\ aux_beats'[n + 1] = LogEntry
      /\ \A k \in 1..n : aux_beats'[k] = aux_beats[k]
  BY Logged DEF BurstInv
<1>2. MultiBeat' = MultiBeat
  BY DEF MultiBeat, BeatBudget, Forced
<1>3. StillGoing
  BY DEF BurstInv, Playing
<1>4. ASSUME NEW k \in 1..n PROVE ~Settles(k)'
  <2>1. ~Settles(k) /\ (k > 1 => k - 1 \in 1..n)
    BY <1>1, <1>3 DEF StillGoing
  <2>. QED  BY <1>1, <1>2, <2>1 DEF Settles, Quiet
<1>0. /\ LogEntry.addressed <=> Addressed
      /\ LogEntry.replied <=> Replied
      /\ LogEntry.events = beat.events
      /\ LogEntry.return_control = beat.return_control
  BY DEF LogEntry, Addressed, Replied
<1>5. /\ aux_beats'[n + 1].addressed <=> Addressed
      /\ aux_beats'[n + 1].replied <=> Replied
      /\ aux_beats'[n + 1].events = beat.events
      /\ aux_beats'[n + 1].return_control = beat.return_control
  BY <1>0, <1>1
<1>6. n + 1 > 1 => aux_beats'[n] = aux_beats[n]
  <2>1. n + 1 > 1 => n \in 1..n
    BY <1>1
  <2>. QED  BY <1>1, <2>1
<1>7. Settles(n + 1)' <=> \/ Addressed \/ beat.return_control
                          \/ ~Replied /\ MultiBeat /\ beat.events = {}
                          \/ ~Replied /\ n > 0 /\ Quiet(n)
  <2>1. n + 1 > 1 <=> n > 0
    BY <1>1
  <2>2. n + 1 - 1 = n
    BY <1>1
  <2>. QED  BY <1>2, <1>5, <1>6, <2>1, <2>2 DEF Settles, Quiet
<1>8. Streak = IF Replied THEN 0 ELSE IF n > 0 /\ Quiet(n) THEN 2 ELSE 1
  BY <1>3 DEF Streak, StillGoing
<1>9. beat.return_control \in BOOLEAN /\ (Quiet(n + 1)' <=> ~Replied)
  BY <1>5 DEF Quiet, BurstInv, BurstTypes
<1>. HIDE DEF Quiet
<1>10. Settles(n + 1)' <=> SettledBy # None
  BY <1>7, <1>8, <1>9 DEF SettledBy, None
<1>11. /\ SettledBy = "player_addressed" => Addressed
       /\ SettledBy = "protagonist_decision" => beat.return_control
       /\ SettledBy = "beat_settled" => ~Replied
       /\ SettledBy = None => Streak = IF Replied THEN 0 ELSE 1
       /\ SettledBy \in (Reasons \ {"budget_exhausted", "beat_produced_nothing"}) \cup {None}
  BY <1>8, <1>9 DEF SettledBy, Reasons, None
<1>. HIDE DEF Streak, SettledBy, Replied, Addressed
<1>12. /\ SettledBy = "player_addressed" => aux_beats'[n + 1].addressed
       /\ SettledBy = "protagonist_decision" => aux_beats'[n + 1].return_control
       /\ SettledBy = "beat_settled" => Quiet(n + 1)'
       /\ SettledBy = None => Streak = IF Quiet(n + 1)' THEN 1 ELSE 0
  BY <1>5, <1>9, <1>11
<1>. QED  BY <1>4, <1>10, <1>11, <1>12

LEMMA BurstStart == Init => BurstInv
<1>. SUFFICES ASSUME Init PROVE BurstInv
  OBVIOUS
<1>1. /\ stage = "idle" /\ aux_beats = <<>> /\ Len(aux_beats) = 0
      /\ burst = NewBurst /\ beat = NoBeat
  BY EmptySeq DEF Init
<1>2. BurstTypes
  BY <1>1, EmptySeq DEF BurstTypes, NewBurst, NoBeat, Reasons
<1>3. StopsWhereItSays
  BY <1>1 DEF StopsWhereItSays
<1>. QED  BY <1>1, <1>2, <1>3 DEF BurstInv, Playing

\* A step that plays on the same beats, or none, keeps why the burst stops.
LEMMA BurstGoesOn ==
    ASSUME BurstInv, UNCHANGED <<turn, aux_beats, burst>>, stage' # "reply", Playing, BurstTypes',
           stage' # "idle"
    PROVE  BurstInv'
<1>1. StillGoing
  BY DEF BurstInv
<1>2. /\ MultiBeat' = MultiBeat /\ BeatBudget' = BeatBudget
  BY DEF MultiBeat, BeatBudget, Forced
<1>3. StillGoing'
  BY <1>1, <1>2 DEF StillGoing, Settles, Quiet
<1>4. StopsWhereItSays'
  BY <1>2 DEF StopsWhereItSays, BurstInv, Settles, Quiet
<1>. QED  BY <1>3, <1>4 DEF BurstInv

LEMMA BurstStep == BurstInv /\ [Next]_vars => BurstInv'
<1>. SUFFICES ASSUME BurstInv, [Next]_vars PROVE BurstInv'
  OBVIOUS
<1>. USE DEF BurstInv
<1>1. CASE PlayerTurn
  <2>1. /\ stage' = "hint" /\ aux_beats' = <<>> /\ burst' = NewBurst /\ Len(aux_beats') = 0
        /\ beat'.events = {} /\ beat'.return_control = FALSE
        /\ DOMAIN beat' = {"queue", "events", "changed", "return_control", "recorded", "voiced"}
    BY <1>1, EmptySeq DEF PlayerTurn, NoBeat
  <2>2. BurstTypes'
    BY <2>1, EmptySeq DEF BurstTypes, NewBurst, Reasons
  <2>3. BeatBudget' >= 1
    BY BeatAssumption DEF BeatBudget
  <2>4. StillGoing'
    BY <2>1, <2>3, BeatAssumption DEF StillGoing, NewBurst, BeatBudget
  <2>5. StopsWhereItSays'
    BY <2>1 DEF StopsWhereItSays
  <2>. QED  BY <2>1, <2>2, <2>4, <2>5
<1>2. CASE ResolveHint
  <2>1. BurstTypes'
    BY <1>2 DEF ResolveHint, BurstTypes
  <2>. QED  BY <1>2, <2>1, BurstGoesOn DEF ResolveHint, Playing
<1>3. CASE DirectorBeat
  <2>1. UNCHANGED <<turn, aux_beats>> /\ stage = "direct" /\ stage' = "speak"
    BY <1>3 DEF DirectorBeat
  <2>2. BurstTypes' /\ burst'.streak = burst.streak /\ burst'.stop_reason = burst.stop_reason
    <3>1. PICK q \in NextSpeakers, answer \in SUBSET Texts, s \in TimeSkip,
               moved \in BOOLEAN, back \in BOOLEAN :
            LET fresh == FreshEvents(answer)
                events == IF fresh = {} THEN s.told ELSE fresh
            IN  /\ burst' = [burst EXCEPT !.event_texts = IF MultiBeat THEN @ \cup fresh ELSE @]
                /\ \E told \in Narrates(events) :
                     beat' = [beat EXCEPT !.queue = q, !.events = events,
                                          !.changed = moved \/ s.skipped,
                                          !.return_control = back, !.recorded = @ \/ told]
                /\ game' = Aged(game, IF s.skipped THEN 1 ELSE 0)
      BY <1>3, Zenon DEF DirectorBeat
    <3>2. /\ FreshEvents(answer) \in SUBSET Told
          /\ s.told \in SUBSET Told
      <4>1. FreshEvents(answer) \in SUBSET Told
        BY DEF FreshEvents, Told
      <4>2. s.told \in {{}, {Summary}}
        <5>1. CASE s = [skipped |-> FALSE, told |-> {}]
          BY <5>1
        <5>2. CASE s \in [skipped : {TRUE}, told : {{}, {Summary}}]
          BY <5>2
        <5>. QED  BY <5>1, <5>2, Zenon DEF TimeSkip
      <4>3. s.told \in SUBSET Told
        BY <4>2 DEF Told
      <4>. QED  BY <4>1, <4>3
    <3>3. beat'.events \in SUBSET Told /\ beat'.return_control = back /\ DOMAIN beat' = DOMAIN beat
      BY <3>1, <3>2 DEF BurstTypes
    <3>4. DOMAIN burst' = DOMAIN burst /\ burst'.streak = burst.streak /\ burst'.stop_reason = burst.stop_reason
      BY <3>1 DEF BurstTypes
    <3>. QED  BY <2>1, <3>3, <3>4 DEF BurstTypes
  <2>3. /\ MultiBeat' = MultiBeat /\ BeatBudget' = BeatBudget
    BY <2>1 DEF MultiBeat, BeatBudget, Forced
  <2>4. StillGoing'
    BY <2>1, <2>2, <2>3 DEF StillGoing, Settles, Quiet, Playing
  <2>5. StopsWhereItSays'
    BY <2>1, <2>3 DEF StopsWhereItSays, Settles, Quiet
  <2>. QED  BY <2>1, <2>2, <2>4, <2>5
<1>4. CASE RunSpeakerQueue
  <2>1. BurstTypes'
    BY <1>4 DEF RunSpeakerQueue, BurstTypes
  <2>. QED  BY <1>4, <2>1, BurstGoesOn DEF RunSpeakerQueue, Playing
<1>5. CASE ProducedNothing
  <2>1. /\ UNCHANGED <<turn, aux_beats, beat>> /\ stage = "commit" /\ stage' = "reply"
        /\ burst' = [burst EXCEPT !.stop_reason = "beat_produced_nothing"]
    BY <1>5 DEF ProducedNothing
  <2>2. BurstTypes' /\ burst'.stop_reason = "beat_produced_nothing"
    BY <2>1 DEF BurstTypes, Reasons
  <2>3. /\ MultiBeat' = MultiBeat /\ BeatBudget' = BeatBudget
    BY <2>1 DEF MultiBeat, BeatBudget, Forced
  <2>4. StillGoing /\ Len(aux_beats) \in Nat
    BY <2>1, LenProperties DEF Playing, BurstTypes
  <2>5. StopsWhereItSays'
    BY <2>1, <2>2, <2>3, <2>4 DEF StopsWhereItSays, StillGoing, Settles, Quiet
  <2>. QED  BY <2>1, <2>2, <2>5 DEF Playing
<1>6. CASE CommitBeat
  <2>. DEFINE stops == SettledBy # None \/ Len(aux_beats') = BeatBudget
  <2>1. /\ UNCHANGED turn /\ stage = "commit" /\ aux_beats' = Append(aux_beats, LogEntry)
        /\ burst' = [burst EXCEPT !.streak = IF SettledBy = None THEN Streak ELSE @,
                                  !.stop_reason = IF SettledBy # None THEN SettledBy ELSE @]
        /\ stage' = IF stops THEN "reply" ELSE "hint"
        /\ beat' = IF stops THEN beat ELSE NoBeat
    BY <1>6 DEF CommitBeat
  <2>0. PICK n : n = Len(aux_beats)
    OBVIOUS
  <2>2. /\ \A k \in 1..n : ~Settles(k)'
        /\ Settles(n + 1)' <=> SettledBy # None
        /\ SettledBy = "player_addressed" => aux_beats'[n + 1].addressed
        /\ SettledBy = "protagonist_decision" => aux_beats'[n + 1].return_control
        /\ SettledBy = "beat_settled" => Quiet(n + 1)'
        /\ SettledBy = None => Streak = IF Quiet(n + 1)' THEN 1 ELSE 0
        /\ SettledBy \in (Reasons \ {"budget_exhausted", "beat_produced_nothing"}) \cup {None}
    BY <2>0, <2>1, Decides
  <2>3. /\ aux_beats' \in Seq([addressed : BOOLEAN, replied : BOOLEAN, events : SUBSET Told,
                               return_control : BOOLEAN])
        /\ n \in Nat /\ Len(aux_beats') = n + 1
    BY <2>0, <2>1, Logged
  <2>4. /\ MultiBeat' = MultiBeat /\ BeatBudget' = BeatBudget /\ BeatBudget \in Nat
    BY <2>1, BeatAssumption DEF MultiBeat, BeatBudget, Forced
  <2>5. StillGoing
    BY <2>1 DEF Playing
  <2>. HIDE DEF stops
  <2>6. /\ burst'.streak = IF SettledBy = None THEN Streak ELSE burst.streak
        /\ burst'.stop_reason = IF SettledBy # None THEN SettledBy ELSE "budget_exhausted"
        /\ DOMAIN burst' = DOMAIN burst
    BY <2>1, <2>5 DEF BurstTypes, StillGoing
  <2>7. BurstTypes'
    <3>1. burst'.stop_reason \in Reasons
      BY <2>2, <2>6 DEF Reasons, None
    <3>2. /\ DOMAIN beat' = {"queue", "events", "changed", "return_control", "recorded", "voiced"}
          /\ beat'.return_control \in BOOLEAN /\ beat'.events \in SUBSET Told
      BY <2>1 DEF BurstTypes, NoBeat
    <3>. QED  BY <2>1, <2>3, <2>6, <3>1, <3>2 DEF BurstTypes
  <2>8. CASE stops
    <3>1. stage' = "reply"
      BY <2>1, <2>8
    <3>2. Len(aux_beats') - 1 = n
      BY <2>3
    <3>3. CASE SettledBy # None
      <4>1. /\ burst'.stop_reason = SettledBy /\ Settles(n + 1)'
            /\ SettledBy \in {"player_addressed", "protagonist_decision", "beat_settled"}
        BY <2>2, <2>6, <3>3 DEF Reasons, None
      <4>. QED  BY <2>2, <2>3, <2>7, <3>1, <3>2, <4>1 DEF StopsWhereItSays, Playing
    <3>4. CASE SettledBy = None
      <4>1. burst'.stop_reason = "budget_exhausted" /\ n + 1 = BeatBudget' /\ ~Settles(n + 1)'
        BY <2>2, <2>3, <2>4, <2>6, <2>8, <3>4 DEF stops
      <4>. QED  BY <2>2, <2>3, <2>7, <3>1, <3>2, <4>1 DEF StopsWhereItSays, Playing
    <3>. QED  BY <3>3, <3>4
  <2>9. CASE ~stops
    <3>1. stage' = "hint" /\ SettledBy = None /\ n + 1 # BeatBudget
      BY <2>1, <2>3, <2>9 DEF stops
    <3>2. n + 1 < BeatBudget'
      BY <2>0, <2>3, <2>4, <2>5, <3>1 DEF StillGoing
    <3>3. ASSUME NEW k \in 1..(n + 1) PROVE ~Settles(k)'
      <4>1. k \in 1..n \/ k = n + 1
        BY <2>3
      <4>. QED  BY <2>2, <3>1, <4>1
    <3>4. StillGoing'
      <4>1. n + 1 > 0 /\ (burst'.streak = IF Quiet(n + 1)' THEN 1 ELSE 0)
        BY <2>2, <2>3, <2>6, <3>1
      <4>2. burst'.stop_reason = "budget_exhausted"
        BY <2>6, <3>1
      <4>. QED  BY <2>3, <3>2, <3>3, <4>1, <4>2 DEF StillGoing
    <3>5. StopsWhereItSays'
      BY <2>2, <2>3, <3>1 DEF StopsWhereItSays
    <3>. QED  BY <2>7, <3>1, <3>4, <3>5
  <2>. QED  BY <2>8, <2>9
<1>7. CASE Reply \/ Fail
  <2>1. /\ stage' = "idle" /\ aux_beats' = <<>> /\ burst' = NewBurst /\ beat' = NoBeat
        /\ Len(aux_beats') = 0
    BY <1>7, EmptySeq DEF Reply, Fail, Return
  <2>2. BurstTypes'
    BY <2>1, EmptySeq DEF BurstTypes, NewBurst, NoBeat, Reasons
  <2>3. StopsWhereItSays'
    BY <2>1 DEF StopsWhereItSays
  <2>. QED  BY <2>1, <2>2, <2>3 DEF Playing
<1>8. CASE UNCHANGED vars
  BY <1>8 DEF vars, BurstTypes, StillGoing, StopsWhereItSays, Playing, Settles, Quiet, MultiBeat, BeatBudget,
     Forced
<1>. QED  BY <1>1, <1>2, <1>3, <1>4, <1>5, <1>6, <1>7, <1>8 DEF Next

\* While beats are being played none has settled anything (_run_autonomous_burst),
\* and the streak tells whether the last one went without a reply.
THEOREM BurstInvariant == Spec => []BurstInv
<1>. QED  BY BurstStart, BurstStep, PTL DEF Spec

\* A burst stops at the first beat that gives a reason to, says that reason, and
\* says the budget was exhausted only when it was: for every budget of beats.
THEOREM BurstStops == Spec => []StopsWhereItSays
<1>1. BurstInv => StopsWhereItSays
  BY DEF BurstInv
<1>. QED  BY <1>1, BurstInvariant, PTL

-----------------------------------------------------------------------------
(* What the watcher disrupts *)

Counters == [quiet : 0..QuietThreshold, silence : BOOLEAN, since : Nat]

\* The saved counters never run ahead of the stillness there was, nor does the
\* copy of a request, which a disruption has put back to nothing.
WatcherInv ==
    /\ saved \in Counters /\ game \in Counters
    /\ aux_still \in Nat
    /\ saved.quiet <= aux_still
    /\ saved.silence => aux_still > QuietThreshold
    /\ stage \in {"idle", "hint", "direct", "speak", "commit", "reply"}
    /\ stage \in {"idle", "hint", "reply"} => game = saved
    /\ stage = "hint" => hint \in {None, "player"}
    /\ stage \in {"direct", "speak", "commit"} =>
         IF hint = "disruption" THEN game.quiet = 0 /\ ~game.silence
         ELSE /\ game.quiet = saved.quiet
              /\ game.silence => aux_still >= QuietThreshold

\* The narrative clock touches none of what the stillness is counted with.
LEMMA Ages ==
    ASSUME NEW g \in Counters, NEW ticks \in Nat
    PROVE  /\ Aged(g, ticks) \in Counters
           /\ Aged(g, ticks).quiet = g.quiet
           /\ Aged(g, ticks).silence = g.silence
<1>1. (IF g.since + ticks < Refractory THEN g.since + ticks ELSE Refractory) \in Nat
  BY WatcherAssumption DEF Counters
<1>. QED  BY <1>1 DEF Aged, Counters

LEMMA WatcherStart == Init => WatcherInv
<1>1. NewGame \in Counters /\ NewGame.quiet = 0 /\ NewGame.silence = FALSE
  BY WatcherAssumption DEF NewGame, Counters
<1>. QED  BY <1>1 DEF Init, WatcherInv

LEMMA WatcherStep == WatcherInv /\ [Next]_vars => WatcherInv'
<1>. SUFFICES ASSUME WatcherInv, [Next]_vars PROVE WatcherInv'
  OBVIOUS
<1>0. QuietThreshold \in Nat /\ QuietThreshold >= 1 /\ Refractory \in Nat
  BY WatcherAssumption
<1>1. CASE PlayerTurn
  <2>1. /\ stage = "idle" /\ stage' = "hint" /\ UNCHANGED <<saved, game, aux_still>>
        /\ hint' \in {None, "player"}
    BY <1>1 DEF PlayerTurn
  <2>. QED  BY <2>1 DEF WatcherInv
<1>2. CASE ResolveHint
  <2>1. /\ stage = "hint" /\ stage' = "direct" /\ UNCHANGED <<saved, aux_still>> /\ game = saved
    BY <1>2 DEF ResolveHint, WatcherInv
  <2>2. PICK h \in OfferedHints : IF h = None THEN WatcherRecovery ELSE hint' = h /\ UNCHANGED game
    BY <1>2 DEF ResolveHint
  <2>3. CASE h # None
    <3>1. UNCHANGED game /\ hint' # "disruption"
      BY <2>1, <2>2, <2>3 DEF OfferedHints, DriveFires, None, WatcherInv
    <3>. QED  BY <1>0, <2>1, <3>1 DEF WatcherInv, Counters
  <2>4. CASE h = None /\ AllowSilence
    <3>1. /\ game' = [game EXCEPT !.silence = TRUE] /\ hint' = None
          /\ ~(game.quiet < QuietThreshold)
      BY <2>4 DEF AllowSilence, LadderRung
    <3>2. game' \in Counters /\ game'.quiet = game.quiet
      <4>1. game \in Counters
        BY DEF WatcherInv
      <4>. QED  BY <3>1, <4>1 DEF Counters
    <3>4. game.quiet >= QuietThreshold
      <4>1. game.quiet \in 0..QuietThreshold
        BY DEF WatcherInv, Counters
      <4>. QED  BY <1>0, <3>1, <4>1
    <3>3. aux_still >= QuietThreshold
      BY <1>0, <2>1, <3>2, <3>4 DEF WatcherInv, Counters
    <3>. QED  BY <2>1, <3>1, <3>2, <3>3 DEF WatcherInv, None
  <2>5. CASE h = None /\ Disrupt
    <3>1. /\ game' = [game EXCEPT !.quiet = 0, !.silence = FALSE, !.since = 0] /\ hint' = "disruption"
      BY <2>5 DEF Disrupt
    <3>2. game' \in Counters /\ game'.quiet = 0 /\ game'.silence = FALSE
      <4>1. game \in Counters /\ 0 \in 0..QuietThreshold /\ 0 \in Nat
        BY <1>0 DEF WatcherInv
      <4>. QED  BY <3>1, <4>1 DEF Counters
    <3>. QED  BY <2>1, <3>1, <3>2 DEF WatcherInv
  <2>6. CASE h = None /\ NoIntervention
    <3>1. UNCHANGED game /\ hint' = None
      BY <2>6 DEF NoIntervention
    <3>. QED  BY <1>0, <2>1, <3>1 DEF WatcherInv, Counters, None
  <2>. QED  BY <2>2, <2>3, <2>4, <2>5, <2>6 DEF WatcherRecovery
<1>3. CASE DirectorBeat
  <2>1. /\ stage = "direct" /\ stage' = "speak" /\ UNCHANGED <<saved, hint, aux_still>>
        /\ \E ticks \in {0, 1} : game' = Aged(game, ticks)
    BY <1>3 DEF DirectorBeat
  <2>2. game' \in Counters /\ game'.quiet = game.quiet /\ game'.silence = game.silence
    BY <2>1, Ages DEF WatcherInv
  <2>. QED  BY <2>1, <2>2 DEF WatcherInv
<1>4. CASE RunSpeakerQueue
  BY <1>4 DEF RunSpeakerQueue, WatcherInv
<1>5. CASE ProducedNothing
  BY <1>5 DEF ProducedNothing, WatcherInv
<1>6. CASE CommitBeat
  <2>1. /\ stage = "commit" /\ stage' \in {"reply", "hint"} /\ hint' = None /\ saved' = game'
    BY <1>6 DEF CommitBeat
  <2>2. PICK moved \in BOOLEAN : game' = Committed(moved) /\ CountStill(moved)
    BY <1>6 DEF CommitBeat
  <2>3. Audited(moved) \in Counters
    <3>1. game \in Counters /\ 0 \in 0..QuietThreshold
      BY <1>0 DEF WatcherInv
    <3>2. (IF game.quiet < QuietThreshold THEN game.quiet + 1 ELSE game.quiet) \in 0..QuietThreshold
      <4>1. game.quiet \in 0..QuietThreshold
        BY <3>1 DEF Counters
      <4>. QED  BY <1>0, <4>1
    <3>. QED  BY <3>1, <3>2 DEF Audited, Counters
  <2>4. /\ game' \in Counters /\ game'.quiet = Audited(moved).quiet
        /\ game'.silence = Audited(moved).silence
    BY <2>2, <2>3, Ages DEF Committed
  <2>5. CASE moved
    <3>1. game'.quiet = 0 /\ game'.silence = FALSE /\ aux_still' = 0
      BY <2>2, <2>4, <2>5 DEF Audited, CountStill, WatcherInv, Counters
    <3>. QED  BY <2>1, <2>4, <3>1 DEF WatcherInv
  <2>6. CASE ~moved
    <3>1. /\ game'.quiet = IF game.quiet < QuietThreshold THEN game.quiet + 1 ELSE game.quiet
          /\ game'.silence = game.silence
      BY <2>4, <2>6 DEF Audited, WatcherInv, Counters
    <3>2. aux_still' = IF hint = "disruption" THEN 1
                       ELSE IF aux_still <= QuietThreshold THEN aux_still + 1 ELSE aux_still
      BY <2>2, <2>6 DEF CountStill
    <3>3. aux_still' \in Nat /\ game'.quiet <= aux_still' /\ (game'.silence => aux_still' > QuietThreshold)
      <4>1. CASE hint = "disruption"
        BY <1>0, <2>1, <3>1, <3>2, <4>1 DEF WatcherInv
      <4>2. CASE hint # "disruption"
        <5>1. /\ game.quiet \in Int /\ game.quiet <= QuietThreshold /\ game.quiet <= aux_still
              /\ game.silence => aux_still >= QuietThreshold
          BY <1>0, <2>1, <4>2 DEF WatcherInv, Counters
        <5>2. aux_still \in Nat
          BY DEF WatcherInv
        <5>3. aux_still' \in Nat /\ game'.quiet <= aux_still'
          BY <1>0, <3>1, <3>2, <4>2, <5>1, <5>2
        <5>4. game'.silence => aux_still' > QuietThreshold
          BY <1>0, <3>1, <3>2, <4>2, <5>1, <5>2
        <5>. QED  BY <5>3, <5>4
      <4>. QED  BY <4>1, <4>2
    <3>. QED  BY <2>1, <2>4, <3>3 DEF WatcherInv, None
  <2>. QED  BY <2>5, <2>6
<1>7. CASE Reply \/ Fail
  BY <1>7 DEF Reply, Fail, Return, WatcherInv
<1>8. CASE UNCHANGED vars
  BY <1>8 DEF vars, WatcherInv
<1>. QED  BY <1>1, <1>2, <1>3, <1>4, <1>5, <1>6, <1>7, <1>8 DEF Next

\* The watcher's counters never run ahead of what the scene has stood still.
THEOREM WatcherInvariant == Spec => []WatcherInv
<1>. QED  BY WatcherStart, WatcherStep, PTL DEF Spec

\* A disruption comes after as many still beats as the threshold asks for and
\* one more that was tolerated (select_recovery_step): for every threshold.
THEOREM DisruptionIsEarned == Spec => EarnedDisruption
<1>1. ASSUME WatcherInv, [Next]_vars
      PROVE  [hint' = "disruption" /\ hint # hint' => aux_still > QuietThreshold]_vars
  <2>. SUFFICES ASSUME Next, hint' = "disruption", hint # hint' PROVE aux_still > QuietThreshold
    BY <1>1
  <2>1. ResolveHint
    BY DEF Next, PlayerTurn, DirectorBeat, RunSpeakerQueue, ProducedNothing, CommitBeat, Reply, Fail,
           Return, None
  <2>2. stage = "hint" /\ game = saved
    BY <1>1, <2>1 DEF ResolveHint, WatcherInv
  <2>3. PICK h \in OfferedHints : IF h = None THEN WatcherRecovery ELSE hint' = h /\ UNCHANGED game
    BY <2>1 DEF ResolveHint
  <2>4. h = None
    <3>1. hint \in {None, "player"}
      BY <1>1, <2>2 DEF WatcherInv
    <3>2. h # "disruption"
      BY <3>1 DEF OfferedHints, DriveFires, None
    <3>. QED  BY <2>3, <3>2
  <2>5. Disrupt
    BY <2>3, <2>4 DEF WatcherRecovery, AllowSilence, NoIntervention, None
  <2>6. game.silence
    BY <2>5 DEF Disrupt, LadderRung
  <2>. QED  BY <1>1, <2>2, <2>6 DEF WatcherInv
<1>. QED  BY <1>1, WatcherInvariant, PTL DEF Spec, EarnedDisruption
=============================================================================
