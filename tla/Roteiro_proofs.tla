--------------------------- MODULE Roteiro_proofs ---------------------------
(***************************************************************************)
(* Theorems about the story direction, for every set of replies and beats  *)
(* and every value of the caps, the patience and the retained window.      *)
(*                                                                         *)
(* The stamps are the difficulty: an undo makes the direction that stands  *)
(* in the last history entry current again, with its clock, so whatever    *)
(* the proof says of the current direction it has to say of every stamp,   *)
(* at the clock of that stamp and over the entries before it.              *)
(***************************************************************************)
EXTENDS Roteiro, SequenceTheorems, FiniteSetTheorems, TLAPS

-----------------------------------------------------------------------------
(* The inductive invariant *)

\* What holds of a direction r at clock t, with the ghost g.
DeadlineSound(t, r, g) ==
    /\ r.act_index <= Len(r.acts)
    /\ r.act_started_tick <= t
    /\ \A i \in g.fired : i < r.act_index
    /\ HasAct(r) =>
          /\ g.since >= r.act_started_tick
          /\ CurrentAct(r).duration_ticks > 0 => t - g.since <= CurrentAct(r).duration_ticks + MaxSkip

Direction(t, r, g) ==
    IF r = NoRoteiro THEN g.fired = {} ELSE DeadlineSound(t, r, g)

\* The turns of r's beat in h that were told.
Told(r, h) == {h[i].turn : i \in _beat_records(r, h)}

\* What holds of a beat before turn number n, with h the entries before that turn.
BeatCount(r, g, h, n) ==
    IF r = NoRoteiro THEN g.narrated = 0
    ELSE /\ r.cooldown_until_turn <= r.beat_started_turn + COOLDOWN_TURNS
         /\ ~g.cut =>
              /\ g.narrated <= HARD_BEAT_TURN_CAP
              /\ r.beat_started_turn <= n
              /\ g.narrated = Cardinality(Told(r, h)) \/ (compacted /\ Cut(r, h))

Prefix(h, i) == SubSeq(h, 1, i - 1)

DirectionsSound ==
    /\ Direction(tick, roteiro, aux)
    /\ \A i \in DOMAIN history : Direction(history[i].tick, history[i].roteiro, history[i].aux)

ClockOrder ==
    /\ \A i \in DOMAIN history : history[i].tick <= tick
    /\ \A i, j \in DOMAIN history : i <= j => history[i].tick <= history[j].tick

TurnOrder ==
    /\ \A i \in DOMAIN history : history[i].turn = history[1].turn + i - 1
    /\ history # <<>> /\ ~compacted => history[1].turn = 1

BeatsCounted ==
    /\ BeatCount(roteiro, aux, history, next_turn_number(history))
    /\ ~aux.cut /\ roteiro # NoRoteiro => aux.narrated = Cardinality(Told(roteiro, history))
    /\ \A i \in DOMAIN history :
          BeatCount(history[i].roteiro, history[i].aux, Prefix(history, i), history[i].turn)

RoteiroInv == TypeOK /\ DirectionsSound /\ ClockOrder /\ TurnOrder /\ BeatsCounted

-----------------------------------------------------------------------------
(* What is made of an answer *)

LEMMA SelectedType ==
  ASSUME NEW raw \in Seq(WrittenAct), NEW summaries
  PROVE  Selected(raw, summaries) \in Seq(WrittenAct)
<1> DEFINE Kept(i) == IF i <= Len(raw) /\ raw[i].summary \in summaries THEN <<raw[i]>> ELSE <<>>
<1>1. \A i \in 1..5 : Kept(i) \in Seq(WrittenAct)
  OBVIOUS
<1>2. Selected(raw, summaries) = Kept(1) \o Kept(2) \o Kept(3) \o Kept(4) \o Kept(5)
  BY DEF Selected
<1> HIDE DEF Kept
<1>3. /\ Kept(1) \in Seq(WrittenAct) /\ Kept(2) \in Seq(WrittenAct) /\ Kept(3) \in Seq(WrittenAct)
      /\ Kept(4) \in Seq(WrittenAct) /\ Kept(5) \in Seq(WrittenAct)
  BY <1>1
<1> QED BY <1>2, <1>3

LEMMA ValidatedType ==
  ASSUME NEW valid \in Seq(WrittenAct)
  PROVE  _validate_acts(valid) \in Seq(Act)
<1>1. \A n \in Int : Clamped(n, 0, 12) \in 0..12
  BY DEF Clamped
<1>2. DOMAIN valid = 1..Len(valid) /\ Len(valid) \in Nat
  OBVIOUS
<1>0. \A i \in 1..Len(valid) : valid[i] \in WrittenAct
  OBVIOUS
<1>3. \A i \in 1..Len(valid) : valid[i].id \in Nat /\ valid[i].duration_ticks \in Int
  BY <1>0 DEF WrittenAct
<1>4. \A i \in 1..Len(valid) :
         [id |-> valid[i].id, duration_ticks |-> Clamped(valid[i].duration_ticks, 0, 12)] \in Act
  BY <1>1, <1>3 DEF Act
<1>5. _validate_acts(valid) \in [1..Len(valid) -> Act]
  BY <1>2, <1>4 DEF _validate_acts
<1> QED BY <1>2, <1>5

LEMMA ReplyFacts ==
  ASSUME NEW reply \in Replies
  PROVE  /\ _validate_acts(Valid(reply.acts)) \in Seq(Act)
         /\ NewActs(reply) \in Seq(Act)
         /\ _validate_beat(reply) \in 2..10
         /\ reply.completed \in BOOLEAN
<1>1. reply.acts \in Seq(WrittenAct) /\ reply.completed \in BOOLEAN /\ reply.budget \in Int
  BY ReplyAssumption
<1>2. _validate_beat(reply) \in 2..10
  BY <1>1 DEF _validate_beat, Clamped
<1> QED BY <1>1, <1>2, SelectedType, ValidatedType DEF Valid, NewActs

\* r2 has every act of r up to the current one.
PlayedKept(r, r2) ==
    \A i \in 1..r.act_index + 1 :
        i <= Len(r.acts) => i <= Len(r2.acts) /\ r2.acts[i] = r.acts[i]

Within(r) == r.act_index <= Len(r.acts)

LEMMA SplicedFacts ==
  ASSUME NEW r \in RoteiroType, Within(r), NEW reply \in Replies
  PROVE  /\ Spliced(r, reply) \in Seq(Act)
         /\ r.act_index <= Len(Spliced(r, reply))
         /\ \A i \in 1..r.act_index + 1 :
               i <= Len(r.acts) => /\ i <= Len(Spliced(r, reply))
                                   /\ Spliced(r, reply)[i] = r.acts[i]
<1> DEFINE new == NewActs(reply)
           acts == r.acts
           n == r.act_index
<1>1. new \in Seq(Act) /\ acts \in Seq(Act) /\ n \in Nat /\ n <= Len(acts)
  BY ReplyFacts DEF RoteiroType, Within
<1>2. Spliced(r, reply) = (IF n < Len(acts) THEN SubSeq(acts, 1, n + 1) ELSE acts) \o new
  BY DEF Spliced, HasAct
<1> HIDE DEF new, acts, n
<1>3. CASE n < Len(acts)
  <2>1. /\ SubSeq(acts, 1, n + 1) \in Seq(Act) /\ Len(SubSeq(acts, 1, n + 1)) = n + 1
        /\ \A i \in 1..n + 1 : SubSeq(acts, 1, n + 1)[i] = acts[i]
    BY <1>1, <1>3
  <2> QED BY <1>1, <1>2, <1>3, <2>1 DEF acts, n
<1>4. CASE ~(n < Len(acts))
  <2>1. n = Len(acts) BY <1>1, <1>4
  <2> QED BY <1>1, <1>2, <1>4, <2>1 DEF acts, n
<1> QED BY <1>3, <1>4

-----------------------------------------------------------------------------
(* One maintenance of the direction *)

\* r2 is what a maintenance may make of r: the index goes on by one at most, and
\* the act's clock starts again exactly when it does.
Succeeds(r, r2) ==
    /\ r2 \in RoteiroType /\ Within(r2)
    /\ PlayedKept(r, r2)
    /\ \/ r2.act_index = r.act_index /\ r2.act_started_tick = r.act_started_tick
       \/ r2.act_index = r.act_index + 1 /\ r2.act_started_tick = tick

Replanned(r, deadline, turn, r2) ==
    /\ Succeeds(r, r2)
    /\ deadline => r2.act_index = r.act_index /\ r2.act_started_tick = r.act_started_tick
    /\ r2.beat_started_turn = turn
    /\ r2.cooldown_until_turn = turn + COOLDOWN_TURNS

LEMMA ReplanFacts ==
  ASSUME NEW r \in RoteiroType, Within(r), NEW reply \in Replies, NEW turn \in Nat,
         NEW deadline \in BOOLEAN, NEW action \in {"replan_act", "replan_beat", "advance"}, tick \in Nat
  PROVE  Replanned(r, deadline, turn, replan_roteiro(r, action, deadline, reply, turn))
<1> DEFINE acts == IF action = "replan_act" /\ Valid(reply.acts) # <<>> THEN Spliced(r, reply) ELSE r.acts
           moved == ~deadline /\ Completes(r, acts, reply)
           before == IF moved \/ action = "replan_act" THEN 0 ELSE r.beat_replans_in_act
           r2 == replan_roteiro(r, action, deadline, reply, turn)
<1>1. /\ r.acts \in Seq(Act) /\ r.act_index \in Nat /\ r.act_started_tick \in Nat
      /\ r.beat_replans_in_act \in Nat /\ r.act_index <= Len(r.acts)
  BY DEF RoteiroType, Within
<1>2. /\ acts \in Seq(Act) /\ r.act_index <= Len(acts)
      /\ \A i \in 1..r.act_index + 1 : i <= Len(r.acts) => i <= Len(acts) /\ acts[i] = r.acts[i]
  <2>1. CASE action = "replan_act" /\ Valid(reply.acts) # <<>> BY <2>1, SplicedFacts
  <2>2. CASE ~(action = "replan_act" /\ Valid(reply.acts) # <<>>) BY <2>2, <1>1
  <2> QED BY <2>1, <2>2
<1>3. moved \in BOOLEAN /\ (deadline => ~moved) /\ (moved => r.act_index < Len(acts) - 1)
  BY DEF Completes
<1>4. before \in Nat BY <1>1
<1>5. r2 = [acts |-> acts,
            act_index |-> IF moved THEN r.act_index + 1 ELSE r.act_index,
            act_started_tick |-> StartedTick(r, moved),
            beat_started_turn |-> turn,
            anchors_seen |-> {},
            budget |-> _validate_beat(reply),
            beat_actions_elapsed |-> 0,
            cooldown_until_turn |-> turn + COOLDOWN_TURNS,
            beat_replans_in_act |-> IF action = "replan_beat" /\ ~deadline THEN before + 1 ELSE before]
  BY DEF replan_roteiro
<1> HIDE DEF acts, moved, before, r2
<1>6. _validate_beat(reply) \in 2..10 BY ReplyFacts
<1>7. StartedTick(r, moved) = IF moved THEN tick ELSE r.act_started_tick BY DEF StartedTick
<1>8. r2 \in RoteiroType
  BY <1>1, <1>2, <1>3, <1>4, <1>5, <1>6, <1>7, CapAssumption DEF RoteiroType
<1>9. Within(r2) /\ PlayedKept(r, r2)
  BY <1>1, <1>2, <1>3, <1>5 DEF Within, PlayedKept
<1>10. /\ deadline => r2.act_index = r.act_index /\ r2.act_started_tick = r.act_started_tick
       /\ \/ r2.act_index = r.act_index /\ r2.act_started_tick = r.act_started_tick
          \/ r2.act_index = r.act_index + 1 /\ r2.act_started_tick = tick
  BY <1>3, <1>5, <1>7
<1>11. r2.beat_started_turn = turn /\ r2.cooldown_until_turn = turn + COOLDOWN_TURNS
  BY <1>5
<1> QED BY <1>8, <1>9, <1>10, <1>11 DEF Succeeds, Replanned, r2

\* The updates the code makes of a direction in place.
AtIndex(r, n) == [r EXCEPT !.act_index = n]

LEMMA AtIndexRecord ==
  ASSUME NEW r \in RoteiroType, NEW n \in Nat
  PROVE  /\ AtIndex(r, n) \in RoteiroType
         /\ AtIndex(r, n).act_index = n /\ AtIndex(r, n).acts = r.acts
         /\ AtIndex(r, n).act_started_tick = r.act_started_tick
         /\ AtIndex(r, n).beat_started_turn = r.beat_started_turn
         /\ AtIndex(r, n).cooldown_until_turn = r.cooldown_until_turn
BY DEF AtIndex, RoteiroType

OpenedAt(r, n, t) == [r EXCEPT !.act_index = n, !.act_started_tick = t, !.beat_replans_in_act = 0]

LEMMA OpenedRecord ==
  ASSUME NEW r \in RoteiroType, NEW n \in Nat, NEW t \in Nat
  PROVE  /\ OpenedAt(r, n, t) \in RoteiroType
         /\ OpenedAt(r, n, t).acts = r.acts /\ OpenedAt(r, n, t).act_index = n
         /\ OpenedAt(r, n, t).act_started_tick = t
BY DEF OpenedAt, RoteiroType

LEMMA SpentRecord ==
  ASSUME NEW r \in RoteiroType, NEW n \in Nat
  PROVE  LET o == [r EXCEPT !.beat_actions_elapsed = n]
         IN  /\ o \in RoteiroType
             /\ o.acts = r.acts /\ o.act_index = r.act_index
             /\ o.act_started_tick = r.act_started_tick
             /\ o.beat_started_turn = r.beat_started_turn
             /\ o.cooldown_until_turn = r.cooldown_until_turn
             /\ o.budget = r.budget /\ o.anchors_seen = r.anchors_seen
BY DEF RoteiroType

WithSeen(r, seen) == [r EXCEPT !.anchors_seen = @ \cup seen]

LEMMA SeenRecord ==
  ASSUME NEW r \in RoteiroType, NEW seen \in SUBSET Anchors
  PROVE  /\ WithSeen(r, seen) \in RoteiroType
         /\ WithSeen(r, seen).acts = r.acts /\ WithSeen(r, seen).act_index = r.act_index
         /\ WithSeen(r, seen).act_started_tick = r.act_started_tick
         /\ WithSeen(r, seen).beat_started_turn = r.beat_started_turn
         /\ WithSeen(r, seen).cooldown_until_turn = r.cooldown_until_turn
BY DEF WithSeen, RoteiroType

\* The act's time is up, and the code moves on.
LEMMA DeadlineFacts ==
  ASSUME NEW r \in RoteiroType, Within(r), Expired(r), NEW reply \in Replies, NEW turn \in Nat, tick \in Nat
  PROVE  LET r2 == Deadline(r, reply, turn)
         IN  /\ Succeeds(r, r2)
             /\ r2.act_index = r.act_index + 1
             /\ r2.beat_started_turn = turn
             /\ r2.cooldown_until_turn = turn + COOLDOWN_TURNS
<1> DEFINE terminal == r.act_index + 1 >= Len(r.acts)
           opened == [r EXCEPT !.act_index = IF terminal THEN @ ELSE r.act_index + 1,
                               !.act_started_tick = tick,
                               !.beat_replans_in_act = 0]
           action == IF terminal THEN "replan_act" ELSE "replan_beat"
           replanned == replan_roteiro(opened, action, TRUE, reply, turn)
           r2 == Deadline(r, reply, turn)
<1> DEFINE n == IF terminal THEN r.act_index ELSE r.act_index + 1
<1>1. /\ r.acts \in Seq(Act) /\ r.act_index \in Nat /\ r.act_index < Len(r.acts)
  BY DEF RoteiroType, Within, Expired, HasAct
<1>0. opened = OpenedAt(r, n, tick)
  BY DEF OpenedAt
<1>01. n \in Nat BY <1>1
<1>4. r2 = AtIndex(replanned, r.act_index + 1)
  BY DEF Deadline, ActAfterDeadline, AtIndex
<1>5. action \in {"replan_act", "replan_beat", "advance"} /\ terminal \in BOOLEAN
  OBVIOUS
<1> HIDE DEF opened, action, replanned, r2, n
<1>3. /\ opened \in RoteiroType
      /\ opened.acts = r.acts /\ opened.act_index = n /\ opened.act_started_tick = tick
  BY <1>0, <1>01, OpenedRecord
<1>2. /\ opened.acts = r.acts /\ opened.act_started_tick = tick
      /\ opened.act_index = IF terminal THEN r.act_index ELSE r.act_index + 1
  BY <1>3 DEF n
<1>6. Within(opened)
  BY <1>1, <1>2 DEF Within
<1>7. /\ Succeeds(opened, replanned)
      /\ replanned.act_index = opened.act_index /\ replanned.act_started_tick = opened.act_started_tick
      /\ replanned.beat_started_turn = turn
      /\ replanned.cooldown_until_turn = turn + COOLDOWN_TURNS
  <2>1. replanned = replan_roteiro(opened, action, TRUE, reply, turn) BY DEF replanned
  <2>2. Replanned(opened, TRUE, turn, replanned)
    BY <1>3, <1>5, <1>6, <2>1, ReplanFacts
  <2> QED BY <2>2 DEF Replanned
<1>8. replanned \in RoteiroType /\ PlayedKept(opened, replanned) /\ Within(replanned)
  BY <1>7 DEF Succeeds
<1>9. /\ r2 \in RoteiroType /\ r2.act_index = r.act_index + 1 /\ r2.acts = replanned.acts
      /\ r2.act_started_tick = tick /\ r2.beat_started_turn = turn
      /\ r2.cooldown_until_turn = turn + COOLDOWN_TURNS
  <2>1. r.act_index + 1 \in Nat BY <1>1
  <2>2. replanned \in RoteiroType BY <1>8
  <2>3. /\ r2 \in RoteiroType /\ r2.act_index = r.act_index + 1 /\ r2.acts = replanned.acts
        /\ r2.act_started_tick = replanned.act_started_tick
        /\ r2.beat_started_turn = replanned.beat_started_turn
        /\ r2.cooldown_until_turn = replanned.cooldown_until_turn
    BY <1>4, <2>1, <2>2, AtIndexRecord
  <2> QED BY <1>3, <1>7, <2>3
<1>10. PlayedKept(r, r2)
  <2>1. opened.act_index >= r.act_index /\ opened.act_index \in Nat BY <1>1, <1>2
  <2> QED BY <1>1, <1>2, <1>8, <1>9, <2>1 DEF PlayedKept
<1>11. Within(r2)
  <2>1. r.act_index + 1 \in 1..r.act_index + 1 /\ r.act_index + 1 <= Len(r.acts) BY <1>1
  <2>2. r.act_index + 1 <= Len(r2.acts) BY <2>1, <1>10 DEF PlayedKept
  <2> QED BY <2>2, <1>9 DEF Within
<1> QED BY <1>9, <1>10, <1>11 DEF Succeeds, r2

LEMMA CountedFacts ==
  ASSUME NEW first_beat \in BOOLEAN, roteiro \in RoteiroType
  PROVE  LET r == Counted(first_beat)
         IN  /\ r \in RoteiroType
             /\ r.acts = roteiro.acts /\ r.act_index = roteiro.act_index
             /\ r.act_started_tick = roteiro.act_started_tick
             /\ r.beat_started_turn = roteiro.beat_started_turn
             /\ r.cooldown_until_turn = roteiro.cooldown_until_turn
<1> DEFINE n == IF first_beat THEN roteiro.beat_actions_elapsed + 1 ELSE roteiro.beat_actions_elapsed
<1>1. n \in Nat BY DEF RoteiroType
<1>2. Counted(first_beat) = [roteiro EXCEPT !.beat_actions_elapsed = n] BY DEF Counted
<1> HIDE DEF n
<1> QED BY <1>1, <1>2, SpentRecord

LEMMA GeneratedFacts ==
  ASSUME NEW reply \in Replies, NEW turn \in Nat, tick \in Nat
  PROVE  LET r2 == generate_roteiro(reply, turn)
         IN  /\ r2 \in RoteiroType /\ Within(r2)
             /\ r2.act_index = 0 /\ r2.act_started_tick = tick
             /\ r2.beat_started_turn = turn /\ r2.cooldown_until_turn = 0
BY ReplyFacts DEF generate_roteiro, RoteiroType, Within

LEMMA DueCases ==
  ASSUME NEW h, NEW first_beat \in BOOLEAN, roteiro # NoRoteiro
  PROVE  /\ Due(h, first_beat) \in {"act_deadline", "none", "advance", "replan_act", "replan_beat"}
         /\ Due(h, first_beat) = "act_deadline" <=> Expired(roteiro)
         /\ Due(h, first_beat) # "act_deadline" =>
               Due(h, first_beat) = evaluate_roteiro(Counted(first_beat), h)
<1> DEFINE d == evaluate_roteiro(Counted(first_beat), h)
<1>1. d \in {"none", "advance", "replan_act", "replan_beat"}
  BY DEF evaluate_roteiro
<1>2. Due(h, first_beat) = IF Expired(roteiro) THEN "act_deadline" ELSE d
  BY DEF Due
<1> HIDE DEF d
<1> QED BY <1>1, <1>2 DEF d

\* What a maintenance makes of a direction there is.
LEMMA MaintainFacts ==
  ASSUME NEW h, NEW first_beat \in BOOLEAN, NEW reply \in Replies, NEW turn \in Nat, tick \in Nat,
         roteiro \in RoteiroType, roteiro # NoRoteiro, Within(roteiro)
  PROVE  LET due == Due(h, first_beat)
             after == _maintain_roteiro(due, reply, turn, first_beat)
         IN  /\ Succeeds(roteiro, after)
             /\ due = "act_deadline" => after.act_index = roteiro.act_index + 1
             /\ due = "none" =>
                   /\ after.beat_started_turn = roteiro.beat_started_turn
                   /\ after.cooldown_until_turn = roteiro.cooldown_until_turn
             /\ due # "none" =>
                   /\ after.beat_started_turn = turn
                   /\ after.cooldown_until_turn = turn + COOLDOWN_TURNS
<1> DEFINE due == Due(h, first_beat)
           r == Counted(first_beat)
           after == _maintain_roteiro(due, reply, turn, first_beat)
<1>1. /\ r \in RoteiroType
      /\ r.acts = roteiro.acts /\ r.act_index = roteiro.act_index
      /\ r.act_started_tick = roteiro.act_started_tick
      /\ r.beat_started_turn = roteiro.beat_started_turn
      /\ r.cooldown_until_turn = roteiro.cooldown_until_turn
  BY CountedFacts
<1>2. /\ due \in {"act_deadline", "none", "advance", "replan_act", "replan_beat"}
      /\ due = "act_deadline" <=> Expired(roteiro)
  BY DueCases
<1>3. after = CASE due = "generate" -> generate_roteiro(reply, turn)
                [] due = "act_deadline" -> Deadline(r, reply, turn)
                [] due = "none" -> r
                [] OTHER -> replan_roteiro(r, due, FALSE, reply, turn)
  BY DEF _maintain_roteiro
<1> HIDE DEF due, r, after
<1>4. Within(r) /\ (Expired(roteiro) => Expired(r))
  BY <1>1 DEF Within, Expired, HasAct, CurrentAct
<1>5. ASSUME NEW r2, Succeeds(r, r2)
      PROVE  Succeeds(roteiro, r2)
  BY <1>1, <1>5 DEF Succeeds, PlayedKept
<1>6. CASE due = "act_deadline"
  <2>1. after = Deadline(r, reply, turn) BY <1>3, <1>6
  <2>2. /\ Succeeds(r, after)
        /\ after.act_index = r.act_index + 1
        /\ after.beat_started_turn = turn
        /\ after.cooldown_until_turn = turn + COOLDOWN_TURNS
    BY <1>1, <1>2, <1>4, <1>6, <2>1, DeadlineFacts
  <2> QED BY <1>1, <1>5, <1>6, <2>2 DEF due, after
<1>7. CASE due = "none"
  <2>1. after = r BY <1>3, <1>7
  <2>2. Succeeds(roteiro, r)
    BY <1>1, <1>4, <1>7 DEF Succeeds, PlayedKept, RoteiroType
  <2> QED BY <1>1, <1>7, <2>1, <2>2 DEF due, after
<1>8. CASE due \in {"advance", "replan_act", "replan_beat"}
  <2>1. after = replan_roteiro(r, due, FALSE, reply, turn) BY <1>3, <1>8
  <2>2. /\ Succeeds(r, after)
        /\ after.beat_started_turn = turn
        /\ after.cooldown_until_turn = turn + COOLDOWN_TURNS
    <3>1. due \in {"replan_act", "replan_beat", "advance"} BY <1>8
    <3>2. Replanned(r, FALSE, turn, after)
      BY <1>1, <1>4, <2>1, <3>1, ReplanFacts
    <3> QED BY <3>2 DEF Replanned
  <2> QED BY <1>5, <1>8, <2>2 DEF due, after
<1> QED BY <1>2, <1>6, <1>7, <1>8

-----------------------------------------------------------------------------
(* What a committed beat comes to *)

\* The entry of the turn that is being played, stamped with what stands.
IsStamp(e) ==
    /\ e \in Turn
    /\ e.turn = next_turn_number(history)
    /\ e.tick = tick /\ e.roteiro = roteiro /\ e.aux = aux

\* The history the direction is maintained on, and the one that is saved.  What
\* the player told is told in both.
Opening(h, narrated) ==
    \/ h = history
    \/ \E e : IsStamp(e) /\ (e.progress => narrated) /\ h = Append(history, e)

Closing(narrated) ==
    \/ history' = history /\ ~narrated
    \/ \E e : IsStamp(e) /\ e.progress = narrated /\ history' = Append(history, e)

Played(h, first_beat, reply, narrated) ==
    LET turn == next_turn_number(history)
        due == Due(h, first_beat)
        after == _maintain_roteiro(due, reply, turn, first_beat)
    IN  /\ Opening(h, narrated) /\ Closing(narrated)
        /\ \E seen \in SUBSET Anchors : roteiro' = WithSeen(after, seen)
        /\ aux' = GhostAfter(due, after, narrated)
        /\ tick' \in tick + 1..tick + MaxSkip + 1
        /\ burst' \in 0..BurstMaxBeats
        /\ UNCHANGED compacted

LEMMA NextTurnType ==
  ASSUME NEW h \in Seq(Turn)
  PROVE  next_turn_number(h) \in Nat
<1>1. CASE h = <<>> BY <1>1 DEF next_turn_number
<1>2. CASE h # <<>>
  <2>1. Len(h) \in DOMAIN h /\ h[Len(h)] \in Turn BY <1>2
  <2>2. h[Len(h)].turn \in Nat BY <2>1 DEF Turn
  <2> QED BY <1>2, <2>2 DEF next_turn_number
<1> QED BY <1>1, <1>2

LEMMA NextTurnIsNat ==
  ASSUME TypeOK
  PROVE  next_turn_number(history) \in Nat
BY NextTurnType DEF TypeOK

StampOf(turn, progress, actors) ==
    [turn |-> turn, progress |-> progress, actors |-> actors,
     tick |-> tick, roteiro |-> roteiro, aux |-> aux]

LEMMA StampFacts ==
  ASSUME TypeOK, NEW progress \in BOOLEAN, NEW actors \in SUBSET Actors
  PROVE  LET e == StampOf(next_turn_number(history), progress, actors)
         IN  IsStamp(e) /\ e.progress = progress
<1>1. next_turn_number(history) \in Nat BY NextTurnIsNat
<1>2. tick \in Nat /\ roteiro \in RoteiroType \cup {NoRoteiro} /\ aux \in Ghost BY DEF TypeOK
<1> QED BY <1>1, <1>2 DEF StampOf, IsStamp, Turn

LEMMA CommitShape ==
  ASSUME TypeOK, NEW beat \in Beats, NEW reply \in Replies, NEW first_beat \in BOOLEAN,
         CommitBeat(beat, reply, first_beat)
  PROVE  \E h : \E narrated \in BOOLEAN : Played(h, first_beat, reply, narrated)
<1> DEFINE turn == next_turn_number(history)
           spoken == beat.move = "spoken"
           narrated == spoken \/ beat.told = "account"
           told == StampOf(turn, narrated, beat.touched \cap Actors)
           moved == StampOf(turn, spoken, {})
           opened == IF beat.move = "none" THEN history ELSE Append(history, moved)
           due == Due(opened, first_beat)
           after == _maintain_roteiro(due, reply, turn, first_beat)
           seen == collect_beat_evidence(after, beat.touched)
<1>1. /\ roteiro' = WithSeen(after, seen)
      /\ history' = IF beat.move = "none" /\ beat.told = "nothing" THEN history ELSE Append(history, told)
      /\ aux' = GhostAfter(due, after, narrated)
      /\ tick' = tick + beat.ticks + 1
      /\ UNCHANGED compacted
  BY DEF CommitBeat, StampOf, WithSeen
<1>2. /\ beat.move \in {"none", "thought", "spoken"} /\ beat.told \in {"nothing", "thought", "account"}
      /\ beat.ticks \in 0..MaxSkip
  BY BeatAssumption
<1>3. narrated \in BOOLEAN /\ spoken \in BOOLEAN OBVIOUS
<1>4. IsStamp(told) /\ told.progress = narrated
  <2>1. beat.touched \cap Actors \in SUBSET Actors OBVIOUS
  <2> QED BY <1>3, <2>1, StampFacts
<1>5. IsStamp(moved) /\ moved.progress = spoken
  <2>1. {} \in SUBSET Actors OBVIOUS
  <2> QED BY <1>3, <2>1, StampFacts
<1>6. seen \in SUBSET Anchors
  BY DEF collect_beat_evidence, anchors_missing
<1>7. Opening(opened, narrated)
  <2>1. CASE beat.move = "none" BY <2>1 DEF Opening
  <2>2. CASE beat.move # "none"
    <3> HIDE DEF moved
    <3>1. opened = Append(history, moved) BY <2>2
    <3>2. moved.progress => narrated BY <1>5
    <3> QED BY <1>5, <3>1, <3>2 DEF Opening
  <2> QED BY <2>1, <2>2
<1>8. Closing(narrated)
  <2> HIDE DEF told
  <2>1. CASE beat.move = "none" /\ beat.told = "nothing" BY <1>1, <2>1 DEF Closing
  <2>2. CASE ~(beat.move = "none" /\ beat.told = "nothing") BY <1>1, <1>4, <2>2 DEF Closing
  <2> QED BY <2>1, <2>2
<1>9. tick' \in tick + 1..tick + MaxSkip + 1
  <2>1. tick \in Nat BY DEF TypeOK
  <2> QED BY <1>1, <1>2, <2>1, CapAssumption
<1>10. burst' \in 0..BurstMaxBeats
  <2>1. burst \in 0..BurstMaxBeats BY DEF TypeOK
  <2> QED BY <2>1, CapAssumption DEF CommitBeat
<1>11. Played(opened, first_beat, reply, narrated)
  <2> HIDE DEF seen, told, moved, opened, narrated
  <2> QED BY <1>1, <1>6, <1>7, <1>8, <1>9, <1>10 DEF Played
<1> HIDE DEF opened, narrated
<1> QED BY <1>3, <1>11

-----------------------------------------------------------------------------
(* A committed beat keeps the types and the deadlines *)

\* What a beat leaves of a direction that stood before it.
LEMMA PlayedDirection ==
  ASSUME TypeOK, NEW h, NEW first_beat \in BOOLEAN, NEW reply \in Replies, NEW narrated \in BOOLEAN,
         Played(h, first_beat, reply, narrated), roteiro # NoRoteiro
  PROVE  LET due == Due(h, first_beat)
         IN  /\ Succeeds(roteiro, roteiro')
             /\ due = "act_deadline" => roteiro'.act_index = roteiro.act_index + 1
             /\ due = "none" =>
                   /\ roteiro'.beat_started_turn = roteiro.beat_started_turn
                   /\ roteiro'.cooldown_until_turn = roteiro.cooldown_until_turn
             /\ due # "none" =>
                   /\ roteiro'.beat_started_turn = next_turn_number(history)
                   /\ roteiro'.cooldown_until_turn = next_turn_number(history) + COOLDOWN_TURNS
<1> DEFINE turn == next_turn_number(history)
           due == Due(h, first_beat)
           after == _maintain_roteiro(due, reply, turn, first_beat)
<1>1. /\ roteiro \in RoteiroType /\ Within(roteiro) /\ tick \in Nat /\ turn \in Nat
  BY NextTurnIsNat DEF TypeOK, Within
<1>2. PICK seen \in SUBSET Anchors : roteiro' = WithSeen(after, seen)
  BY DEF Played
<1> HIDE DEF turn
<1>3. /\ Succeeds(roteiro, after)
      /\ due = "act_deadline" => after.act_index = roteiro.act_index + 1
      /\ due = "none" =>
            /\ after.beat_started_turn = roteiro.beat_started_turn
            /\ after.cooldown_until_turn = roteiro.cooldown_until_turn
      /\ due # "none" =>
            /\ after.beat_started_turn = turn
            /\ after.cooldown_until_turn = turn + COOLDOWN_TURNS
  BY <1>1, MaintainFacts
<1> HIDE DEF due, after
<1>4. after \in RoteiroType BY <1>3 DEF Succeeds
<1>5. /\ roteiro' \in RoteiroType /\ roteiro'.acts = after.acts /\ roteiro'.act_index = after.act_index
      /\ roteiro'.act_started_tick = after.act_started_tick
      /\ roteiro'.beat_started_turn = after.beat_started_turn
      /\ roteiro'.cooldown_until_turn = after.cooldown_until_turn
  BY <1>2, <1>4, SeenRecord
<1>6. Succeeds(roteiro, roteiro')
  BY <1>3, <1>5 DEF Succeeds, Within, PlayedKept
<1> QED BY <1>3, <1>5, <1>6 DEF due, turn

\* ... and what the first beat of a session writes.
LEMMA FirstDirection ==
  ASSUME TypeOK, NEW h, NEW first_beat \in BOOLEAN, NEW reply \in Replies, NEW narrated \in BOOLEAN,
         Played(h, first_beat, reply, narrated), roteiro = NoRoteiro
  PROVE  /\ Due(h, first_beat) = "generate"
         /\ roteiro' \in RoteiroType /\ Within(roteiro')
         /\ roteiro'.act_index = 0 /\ roteiro'.act_started_tick = tick
         /\ roteiro'.beat_started_turn = next_turn_number(history)
         /\ roteiro'.cooldown_until_turn = 0
<1> DEFINE turn == next_turn_number(history)
           after == _maintain_roteiro(Due(h, first_beat), reply, turn, first_beat)
<1>1. Due(h, first_beat) = "generate" BY DEF Due
<1>2. tick \in Nat /\ turn \in Nat BY NextTurnIsNat DEF TypeOK
<1>3. after = generate_roteiro(reply, turn) BY <1>1 DEF _maintain_roteiro
<1>4. PICK seen \in SUBSET Anchors : roteiro' = WithSeen(after, seen)
  BY DEF Played
<1> HIDE DEF turn, after
<1>5. /\ after \in RoteiroType /\ Within(after)
      /\ after.act_index = 0 /\ after.act_started_tick = tick
      /\ after.beat_started_turn = turn /\ after.cooldown_until_turn = 0
  BY <1>2, <1>3, GeneratedFacts
<1> QED BY <1>1, <1>4, <1>5, SeenRecord DEF turn, Within

LEMMA PlayedTypes ==
  ASSUME TypeOK, NEW h, NEW first_beat \in BOOLEAN, NEW reply \in Replies, NEW narrated \in BOOLEAN,
         Played(h, first_beat, reply, narrated)
  PROVE  TypeOK'
<1>1. /\ tick \in Nat /\ history \in Seq(Turn) /\ compacted \in BOOLEAN /\ aux \in Ghost
      /\ roteiro \in RoteiroType \cup {NoRoteiro}
  BY DEF TypeOK
<1>2. roteiro' \in RoteiroType /\ roteiro'.act_index <= Len(roteiro'.acts)
  <2>1. CASE roteiro = NoRoteiro BY <2>1, FirstDirection DEF Within
  <2>2. CASE roteiro # NoRoteiro BY <2>2, PlayedDirection DEF Succeeds, Within
  <2> QED BY <2>1, <2>2
<1>3. tick' \in Nat
  BY <1>1, CapAssumption DEF Played
<1>4. history' \in Seq(Turn)
  BY <1>1 DEF Played, Closing, IsStamp
<1>5. aux' \in Ghost
  <2> DEFINE due == Due(h, first_beat)
             after == _maintain_roteiro(due, reply, next_turn_number(history), first_beat)
  <2>1. aux' = GhostAfter(due, after, narrated) BY DEF Played
  <2>2. aux.since \in Nat /\ aux.narrated \in Nat /\ aux.fired \in SUBSET Nat /\ aux.cut \in BOOLEAN
    BY <1>1 DEF Ghost
  <2>3. due = "act_deadline" => roteiro.act_index \in Nat
    <3>1. roteiro = NoRoteiro => due = "generate" BY DEF Due
    <3> QED BY <1>1, <3>1 DEF RoteiroType
  <2> HIDE DEF due, after
  <2>4. (due = "none" /\ aux.cut) \in BOOLEAN OBVIOUS
  <2>5. (IF due = "none" THEN aux.narrated ELSE 0) + (IF narrated THEN 1 ELSE 0) \in Nat
    BY <2>2
  <2>6. (IF due = "act_deadline" THEN aux.fired \cup {roteiro.act_index} ELSE aux.fired) \in SUBSET Nat
    BY <2>2, <2>3
  <2> QED BY <1>1, <2>1, <2>2, <2>4, <2>5, <2>6 DEF GhostAfter, Ghost
<1>6. burst' \in 0..BurstMaxBeats /\ compacted' \in BOOLEAN
  BY <1>1 DEF Played
<1> QED BY <1>2, <1>3, <1>4, <1>5, <1>6 DEF TypeOK

\* A beat that does not conclude the act finds time left on it.
LEMMA PlayedDeadline ==
  ASSUME TypeOK, NEW h, NEW first_beat \in BOOLEAN, NEW reply \in Replies, NEW narrated \in BOOLEAN,
         Played(h, first_beat, reply, narrated), Direction(tick, roteiro, aux)
  PROVE  roteiro' # NoRoteiro => DeadlineSound(tick', roteiro', aux')
<1> DEFINE due == Due(h, first_beat)
           after == _maintain_roteiro(due, reply, next_turn_number(history), first_beat)
<1>1. /\ tick \in Nat /\ tick' \in tick + 1..tick + MaxSkip + 1 /\ MaxSkip \in Nat
      /\ aux.since \in Nat /\ aux.fired \in SUBSET Nat
  BY CapAssumption DEF Played, TypeOK, Ghost
<1>2. \E seen \in SUBSET Anchors : roteiro' = WithSeen(after, seen)
  BY DEF Played
<1>3. aux' = GhostAfter(due, after, narrated) BY DEF Played
<1>4. roteiro' \in RoteiroType /\ Within(roteiro')
  <2>1. CASE roteiro = NoRoteiro BY <2>1, FirstDirection
  <2>2. CASE roteiro # NoRoteiro BY <2>2, PlayedDirection DEF Succeeds
  <2> QED BY <2>1, <2>2
<1>5. after.act_index = roteiro'.act_index
  <2>1. after \in RoteiroType
    <3>1. next_turn_number(history) \in Nat BY NextTurnIsNat
    <3>2. CASE roteiro = NoRoteiro
      <4>1. due = "generate" BY <3>2 DEF Due
      <4>2. after = generate_roteiro(reply, next_turn_number(history)) BY <4>1 DEF _maintain_roteiro
      <4> QED BY <1>1, <3>1, <4>2, GeneratedFacts
    <3>3. CASE roteiro # NoRoteiro
      <4>1. roteiro \in RoteiroType /\ Within(roteiro) BY <3>3 DEF TypeOK, Within
      <4>2. Succeeds(roteiro, after) BY <1>1, <3>1, <3>3, <4>1, MaintainFacts
      <4> QED BY <4>2 DEF Succeeds
    <3> QED BY <3>2, <3>3
  <2> HIDE DEF after
  <2> QED BY <1>2, <2>1, SeenRecord
<1> HIDE DEF after
<1>6. /\ aux'.since = IF roteiro # NoRoteiro /\ HasAct(roteiro) /\ roteiro'.act_index = roteiro.act_index
                      THEN aux.since ELSE tick
      /\ aux'.fired = IF due = "act_deadline" THEN aux.fired \cup {roteiro.act_index} ELSE aux.fired
  BY <1>3, <1>5 DEF GhostAfter
<1>7. \A i \in 1..Len(roteiro'.acts) : roteiro'.acts[i].duration_ticks \in Nat
  <2>1. roteiro'.acts \in Seq(Act) BY <1>4 DEF RoteiroType
  <2>2. \A i \in 1..Len(roteiro'.acts) : roteiro'.acts[i] \in Act BY <2>1
  <2>3. \A act \in Act : act.duration_ticks \in Nat BY DEF Act
  <2> QED BY <2>2, <2>3
<1>8. roteiro'.act_index \in Nat /\ roteiro'.act_started_tick \in Nat BY <1>4 DEF RoteiroType
<1>9. HasAct(roteiro') => CurrentAct(roteiro').duration_ticks \in Nat
  BY <1>4, <1>7, <1>8 DEF HasAct, CurrentAct, RoteiroType
<1>10. CASE roteiro = NoRoteiro
  <2>1. /\ due = "generate" /\ roteiro'.act_index = 0 /\ roteiro'.act_started_tick = tick
    BY <1>10, FirstDirection
  <2>2. aux.fired = {} BY <1>10 DEF Direction
  <2>3. aux'.since = tick /\ aux'.fired = {} BY <1>6, <1>10, <2>1, <2>2
  <2> QED BY <1>1, <1>4, <1>9, <2>1, <2>3 DEF DeadlineSound, Within
<1>11. CASE roteiro # NoRoteiro
  <2>1. roteiro \in RoteiroType /\ DeadlineSound(tick, roteiro, aux)
    BY <1>11 DEF TypeOK, Direction
  <2>2. /\ PlayedKept(roteiro, roteiro')
        /\ \/ roteiro'.act_index = roteiro.act_index /\ roteiro'.act_started_tick = roteiro.act_started_tick
           \/ roteiro'.act_index = roteiro.act_index + 1 /\ roteiro'.act_started_tick = tick
        /\ due = "act_deadline" => roteiro'.act_index = roteiro.act_index + 1
    BY <1>11, PlayedDirection DEF Succeeds
  <2>3. due = "act_deadline" <=> Expired(roteiro) BY <1>11, DueCases
  <2>4. /\ roteiro.act_index \in Nat /\ roteiro.act_started_tick \in Nat /\ roteiro.acts \in Seq(Act)
    BY <2>1 DEF RoteiroType
  <2>5. \A i \in aux'.fired : i < roteiro'.act_index
    BY <1>1, <1>6, <2>1, <2>2, <2>4 DEF DeadlineSound
  <2>6. CASE HasAct(roteiro) /\ roteiro'.act_index = roteiro.act_index
    <3>1. aux'.since = aux.since BY <1>6, <1>11, <2>6
    <3>2. ~Expired(roteiro) BY <2>2, <2>3, <2>4, <2>6
    <3>3. roteiro'.act_started_tick = roteiro.act_started_tick BY <2>2, <2>4, <2>6
    <3>4. CurrentAct(roteiro') = CurrentAct(roteiro)
      BY <2>2, <2>4, <2>6 DEF PlayedKept, CurrentAct, HasAct
    <3>5. aux.since >= roteiro.act_started_tick BY <2>1, <2>6 DEF DeadlineSound
    <3>6. HasAct(roteiro') /\ CurrentAct(roteiro').duration_ticks > 0 =>
            tick - roteiro.act_started_tick < CurrentAct(roteiro').duration_ticks
      BY <1>1, <1>9, <2>4, <2>6, <3>2, <3>4 DEF Expired
    <3>7. HasAct(roteiro') /\ CurrentAct(roteiro').duration_ticks > 0 =>
            tick' - aux'.since <= CurrentAct(roteiro').duration_ticks + MaxSkip
      BY <1>1, <1>9, <2>4, <3>1, <3>5, <3>6
    <3>8. aux'.since >= roteiro'.act_started_tick BY <3>1, <3>3, <3>5
    <3>9. roteiro'.act_started_tick <= tick' BY <1>1, <2>1, <2>4, <3>3 DEF DeadlineSound
    <3> QED BY <1>4, <2>5, <3>7, <3>8, <3>9 DEF DeadlineSound, Within
  <2>7. CASE ~(HasAct(roteiro) /\ roteiro'.act_index = roteiro.act_index)
    <3>1. aux'.since = tick BY <1>6, <2>7
    <3>2. HasAct(roteiro') /\ CurrentAct(roteiro').duration_ticks > 0 =>
            tick' - aux'.since <= CurrentAct(roteiro').duration_ticks + MaxSkip
      BY <1>1, <1>9, <3>1
    <3>3. roteiro'.act_started_tick <= tick
      BY <1>1, <2>1, <2>2, <2>4 DEF DeadlineSound
    <3>4. roteiro'.act_started_tick <= tick' /\ aux'.since >= roteiro'.act_started_tick
      BY <1>1, <1>8, <3>1, <3>3
    <3> QED BY <1>4, <2>5, <3>2, <3>4 DEF DeadlineSound, Within
  <2> QED BY <2>6, <2>7
<1> QED BY <1>10, <1>11

-----------------------------------------------------------------------------
(* The order of the history *)

LEMMA AppendedHistory ==
  ASSUME NEW h \in Seq(Turn), NEW e \in Turn
  PROVE  /\ Append(h, e) \in Seq(Turn)
         /\ DOMAIN Append(h, e) = 1..Len(h) + 1 /\ DOMAIN h = 1..Len(h) /\ Len(h) \in Nat
         /\ Len(Append(h, e)) = Len(h) + 1
         /\ \A i \in 1..Len(h) : Append(h, e)[i] = h[i]
         /\ Append(h, e)[Len(h) + 1] = e
         /\ \A i \in 1..Len(h) : Prefix(Append(h, e), i) = Prefix(h, i)
         /\ Prefix(Append(h, e), Len(h) + 1) = h
<1> DEFINE g == Append(h, e)
<1>1. /\ g \in Seq(Turn) /\ DOMAIN g = 1..Len(h) + 1 /\ DOMAIN h = 1..Len(h) /\ Len(h) \in Nat
      /\ Len(g) = Len(h) + 1
      /\ \A i \in 1..Len(h) : g[i] = h[i]
      /\ g[Len(h) + 1] = e
  OBVIOUS
<1> HIDE DEF g
<1>2. ASSUME NEW i \in 1..Len(h)
      PROVE  Prefix(g, i) = Prefix(h, i)
  <2>1. SubSeq(g, 1, i - 1) = [k \in 1..(i - 1) |-> g[k]]
    BY <1>1
  <2>2. SubSeq(h, 1, i - 1) = [k \in 1..(i - 1) |-> h[k]]
    BY <1>1
  <2>3. \A k \in 1..(i - 1) : g[k] = h[k] BY <1>1
  <2> QED BY <2>1, <2>2, <2>3 DEF Prefix
<1>3. Prefix(g, Len(h) + 1) = h
  <2>1. SubSeq(g, 1, Len(h)) = [k \in 1..Len(h) |-> g[k]] BY <1>1
  <2>2. SubSeq(g, 1, Len(h)) = [k \in 1..Len(h) |-> h[k]] BY <1>1, <2>1
  <2>3. h = [k \in 1..Len(h) |-> h[k]] BY <1>1
  <2>4. Len(h) + 1 - 1 = Len(h) BY <1>1
  <2> QED BY <2>2, <2>3, <2>4 DEF Prefix
<1> QED BY <1>1, <1>2, <1>3 DEF g

LEMMA HistoryFacts ==
  ASSUME TypeOK
  PROVE  /\ history \in Seq(Turn) /\ DOMAIN history = 1..Len(history) /\ Len(history) \in Nat
         /\ \A i \in 1..Len(history) :
               /\ history[i] \in Turn
               /\ history[i].turn \in Nat /\ history[i].tick \in Nat
               /\ history[i].roteiro \in RoteiroType \cup {NoRoteiro} /\ history[i].aux \in Ghost
<1>1. history \in Seq(Turn) BY DEF TypeOK
<1>2. \A i \in 1..Len(history) : history[i] \in Turn BY <1>1
<1>3. \A e \in Turn : /\ e.turn \in Nat /\ e.tick \in Nat
                      /\ e.roteiro \in RoteiroType \cup {NoRoteiro} /\ e.aux \in Ghost
  BY DEF Turn
<1> QED BY <1>1, <1>2, <1>3

TurnsBelow(h, n) == \A i \in DOMAIN h : h[i].turn \in Nat /\ h[i].turn < n

\* The next turn number is past every turn there is.
LEMMA NextTurn ==
  ASSUME TypeOK, TurnOrder
  PROVE  /\ TurnsBelow(history, next_turn_number(history))
         /\ history # <<>> => next_turn_number(history) = history[1].turn + Len(history)
<1>1. /\ history \in Seq(Turn) /\ DOMAIN history = 1..Len(history) /\ Len(history) \in Nat
      /\ \A i \in 1..Len(history) : history[i].turn \in Nat
  BY HistoryFacts
<1>2. CASE history = <<>>
  <2>1. DOMAIN history = {} BY <1>2
  <2> QED BY <1>2, <2>1 DEF TurnsBelow
<1>3. CASE history # <<>>
  <2>1. Len(history) \in 1..Len(history) /\ 1 \in 1..Len(history) BY <1>1, <1>3
  <2>2. history[Len(history)].turn = history[1].turn + Len(history) - 1 BY <1>1, <2>1 DEF TurnOrder
  <2>3. next_turn_number(history) = history[1].turn + Len(history)
    BY <1>1, <1>3, <2>1, <2>2 DEF next_turn_number
  <2>4. \A i \in 1..Len(history) : history[i].turn < history[1].turn + Len(history)
    BY <1>1, <2>1 DEF TurnOrder
  <2> QED BY <1>1, <2>3, <2>4 DEF TurnsBelow
<1> QED BY <1>2, <1>3

LEMMA PlayedOrder ==
  ASSUME TypeOK, ClockOrder, TurnOrder, DirectionsSound, NEW narrated, Closing(narrated),
         UNCHANGED compacted, tick' \in Nat, tick' >= tick, Direction(tick', roteiro', aux')
  PROVE  ClockOrder' /\ TurnOrder' /\ DirectionsSound'
<1>1. /\ history \in Seq(Turn) /\ DOMAIN history = 1..Len(history) /\ Len(history) \in Nat
      /\ tick \in Nat
      /\ \A i \in 1..Len(history) : history[i].turn \in Nat /\ history[i].tick \in Nat
  BY HistoryFacts DEF TypeOK
<1>2. CASE history' = history
  <2>1. ClockOrder' BY <1>1, <1>2 DEF ClockOrder
  <2>2. TurnOrder' BY <1>2 DEF TurnOrder
  <2>3. DirectionsSound' BY <1>2 DEF DirectionsSound, Direction, DeadlineSound
  <2> QED BY <2>1, <2>2, <2>3
<1>3. CASE history' # history
  <2>1. PICK e : IsStamp(e) /\ history' = Append(history, e) BY <1>3 DEF Closing
  <2>2. e \in Turn /\ e.turn = next_turn_number(history) /\ e.tick = tick /\ e.roteiro = roteiro /\ e.aux = aux
    BY <2>1 DEF IsStamp
  <2> DEFINE n == Len(history)
  <2>3. /\ DOMAIN history' = 1..n + 1 /\ n \in Nat
        /\ \A i \in 1..n : history'[i] = history[i]
        /\ history'[n + 1] = e
    BY <1>1, <2>1, <2>2, AppendedHistory
  <2>4. n = 0 <=> history = <<>> BY <1>1
  <2> HIDE DEF n
  <2>5. ClockOrder'
    <3>1. \A i \in 1..n : history'[i].tick <= tick /\ history'[i].tick \in Nat
      BY <1>1, <2>3 DEF ClockOrder, n
    <3>2. \A i \in 1..n + 1 : history'[i].tick <= tick /\ history'[i].tick \in Nat
      BY <1>1, <2>2, <2>3, <3>1
    <3>3. \A i, j \in 1..n : i <= j => history'[i].tick <= history'[j].tick
      BY <1>1, <2>3 DEF ClockOrder, n
    <3>4. \A i, j \in 1..n + 1 : i <= j => history'[i].tick <= history'[j].tick
      <4> SUFFICES ASSUME NEW i \in 1..n + 1, NEW j \in 1..n + 1, i <= j
                   PROVE  history'[i].tick <= history'[j].tick
        OBVIOUS
      <4>1. CASE j = n + 1 BY <2>2, <2>3, <3>2, <4>1
      <4>2. CASE j # n + 1
        <5>1. i \in 1..n /\ j \in 1..n BY <2>3, <4>2
        <5> QED BY <3>3, <5>1
      <4> QED BY <4>1, <4>2
    <3>5. \A i \in 1..n + 1 : history'[i].tick <= tick' BY <1>1, <3>2
    <3> QED BY <2>3, <3>4, <3>5 DEF ClockOrder
  <2>6. TurnOrder'
    <3>1. history' # <<>> /\ 1 \in DOMAIN history' BY <1>1, <2>1, <2>3
    <3>2. CASE n = 0
      <4>1. next_turn_number(history) = 1 BY <2>4, <3>2 DEF next_turn_number
      <4>2. history'[1].turn = 1 BY <2>2, <2>3, <3>2, <4>1
      <4> QED BY <2>3, <3>2, <4>2 DEF TurnOrder
    <3>3. CASE n # 0
      <4>1. next_turn_number(history) = history[1].turn + n BY <2>4, <3>3, NextTurn DEF n
      <4>2. 1 \in 1..n /\ history'[1] = history[1] BY <2>3, <3>3
      <4>3. history[1].turn \in Nat BY <1>1, <4>2 DEF n
      <4>4. \A i \in 1..n : history'[i].turn = history'[1].turn + i - 1
        BY <1>1, <2>3, <4>2 DEF TurnOrder, n
      <4>5. history'[n + 1].turn = history'[1].turn + (n + 1) - 1
        BY <2>2, <2>3, <4>1, <4>2, <4>3
      <4>6. \A i \in 1..n + 1 : history'[i].turn = history'[1].turn + i - 1
        BY <2>3, <4>4, <4>5
      <4>7. ~compacted' => history'[1].turn = 1
        BY <2>4, <3>3, <4>2 DEF TurnOrder
      <4> QED BY <2>3, <4>6, <4>7 DEF TurnOrder
    <3> QED BY <3>2, <3>3
  <2>7. DirectionsSound'
    <3>1. \A i \in 1..n : Direction(history'[i].tick, history'[i].roteiro, history'[i].aux)
      BY <1>1, <2>3 DEF DirectionsSound, n
    <3>2. Direction(history'[n + 1].tick, history'[n + 1].roteiro, history'[n + 1].aux)
      BY <2>2, <2>3 DEF DirectionsSound
    <3>3. \A i \in 1..n + 1 : Direction(history'[i].tick, history'[i].roteiro, history'[i].aux)
      BY <2>3, <3>1, <3>2
    <3> QED BY <2>3, <3>3 DEF DirectionsSound, Direction, DeadlineSound
  <2> QED BY <2>5, <2>6, <2>7
<1> QED BY <1>2, <1>3

-----------------------------------------------------------------------------
(* The turns of a beat that were told *)

LEMMA ToldFinite ==
  ASSUME NEW r \in RoteiroType, NEW h, NEW n \in Nat, TurnsBelow(h, n)
  PROVE  /\ Told(r, h) \subseteq r.beat_started_turn..n - 1
         /\ IsFiniteSet(Told(r, h)) /\ Cardinality(Told(r, h)) \in Nat
         /\ r.beat_started_turn <= n => Cardinality(Told(r, h)) <= n - r.beat_started_turn
<1> DEFINE s == r.beat_started_turn
<1>1. s \in Nat BY DEF RoteiroType
<1>2. Told(r, h) \subseteq s..n - 1
  BY <1>1 DEF Told, _beat_records, TurnsBelow
<1> HIDE DEF s
<1>3. /\ IsFiniteSet(s..n - 1)
      /\ Cardinality(s..n - 1) = IF s > n - 1 THEN 0 ELSE (n - 1) - s + 1
  BY <1>1, FS_Interval
<1>4. IsFiniteSet(Told(r, h)) /\ Cardinality(Told(r, h)) <= Cardinality(s..n - 1)
  BY <1>2, <1>3, FS_Subset
<1>5. Cardinality(Told(r, h)) \in Nat BY <1>4, FS_CardinalityType
<1> QED BY <1>1, <1>2, <1>3, <1>4, <1>5 DEF s

LEMMA ToldSame ==
  ASSUME NEW r, NEW r2, r.beat_started_turn = r2.beat_started_turn, NEW h
  PROVE  Told(r, h) = Told(r2, h)
BY DEF Told, _beat_records

LEMMA ToldNothing ==
  ASSUME NEW r \in RoteiroType, NEW h, TurnsBelow(h, r.beat_started_turn)
  PROVE  Told(r, h) = {}
<1>1. r.beat_started_turn \in Nat BY DEF RoteiroType
<1> QED BY <1>1 DEF Told, _beat_records, TurnsBelow

LEMMA ToldAppended ==
  ASSUME NEW r \in RoteiroType, NEW h \in Seq(Turn), NEW e \in Turn
  PROVE  Told(r, Append(h, e)) =
            Told(r, h) \cup (IF e.turn >= r.beat_started_turn /\ e.progress THEN {e.turn} ELSE {})
<1> DEFINE g == Append(h, e)
           n == Len(h)
           s == r.beat_started_turn
<1>1. /\ DOMAIN g = 1..n + 1 /\ DOMAIN h = 1..n /\ n \in Nat
      /\ \A i \in 1..n : g[i] = h[i]
      /\ g[n + 1] = e
  BY AppendedHistory
<1> HIDE DEF g, n, s
<1>2. ASSUME NEW t
      PROVE  t \in Told(r, g) <=> t \in Told(r, h) \/ (t = e.turn /\ e.turn >= s /\ e.progress)
  <2>1. t \in Told(r, g) <=> \E i \in 1..n + 1 : g[i].turn >= s /\ g[i].progress /\ t = g[i].turn
    BY <1>1 DEF Told, _beat_records, s
  <2>2. t \in Told(r, h) <=> \E i \in 1..n : h[i].turn >= s /\ h[i].progress /\ t = h[i].turn
    BY <1>1 DEF Told, _beat_records, s
  <2>3. ASSUME NEW i \in 1..n + 1, g[i].turn >= s /\ g[i].progress /\ t = g[i].turn
        PROVE  t \in Told(r, h) \/ (t = e.turn /\ e.turn >= s /\ e.progress)
    <3>1. CASE i = n + 1 BY <1>1, <2>3, <3>1
    <3>2. CASE i # n + 1
      <4>1. i \in 1..n BY <1>1, <3>2
      <4> QED BY <1>1, <2>2, <2>3, <4>1
    <3> QED BY <3>1, <3>2
  <2>4. ASSUME NEW i \in 1..n, h[i].turn >= s /\ h[i].progress /\ t = h[i].turn
        PROVE  t \in Told(r, g)
    <3>1. i \in 1..n + 1 BY <1>1
    <3> QED BY <1>1, <2>1, <2>4, <3>1
  <2>5. ASSUME t = e.turn /\ e.turn >= s /\ e.progress
        PROVE  t \in Told(r, g)
    <3>1. n + 1 \in 1..n + 1 BY <1>1
    <3> QED BY <1>1, <2>1, <2>5, <3>1
  <2> QED BY <2>1, <2>2, <2>3, <2>4, <2>5
<1>3. Told(r, g) = Told(r, h) \cup (IF e.turn >= s /\ e.progress THEN {e.turn} ELSE {})
  BY <1>2
<1> QED BY <1>3 DEF g, s

\* A beat that is left as it is has told fewer turns than the cap, whatever the
\* player has added to the history it is judged on.
LEMMA RoomForOneMore ==
  ASSUME TypeOK, TurnOrder, NEW h, NEW first_beat \in BOOLEAN, NEW narrated, Opening(h, narrated),
         roteiro # NoRoteiro, Due(h, first_beat) = "none",
         roteiro.cooldown_until_turn <= roteiro.beat_started_turn + COOLDOWN_TURNS,
         roteiro.beat_started_turn <= next_turn_number(history)
  PROVE  Cardinality(Told(roteiro, history)) < HARD_BEAT_TURN_CAP
<1> DEFINE turn == next_turn_number(history)
           r == Counted(first_beat)
           told == Told(roteiro, history)
<1>1. /\ roteiro \in RoteiroType /\ turn \in Nat /\ history \in Seq(Turn)
      /\ TurnsBelow(history, turn)
  BY NextTurnIsNat, NextTurn DEF TypeOK
<1>2. /\ r \in RoteiroType
      /\ r.beat_started_turn = roteiro.beat_started_turn
      /\ r.cooldown_until_turn = roteiro.cooldown_until_turn
  BY <1>1, CountedFacts
<1>3. evaluate_roteiro(r, h) = "none"
  BY DueCases
<1> HIDE DEF r, turn
<1>4. /\ Cardinality(told) \in Nat /\ IsFiniteSet(told)
      /\ Cardinality(told) <= turn - roteiro.beat_started_turn
  BY <1>1, ToldFinite DEF turn
<1>5. /\ h = history \/ \E e \in Turn : h = Append(history, e) /\ e.turn = turn
      /\ next_turn_number(h) >= turn
  <2>1. CASE h = history BY <1>1, <2>1 DEF turn
  <2>2. CASE h # history
    <3>1. PICK e : IsStamp(e) /\ h = Append(history, e) BY <2>2 DEF Opening
    <3>2. e \in Turn /\ e.turn = turn BY <3>1 DEF IsStamp, turn
    <3>3. h # <<>> /\ h[Len(h)] = e BY <1>1, <3>1, <3>2
    <3>4. next_turn_number(h) = turn + 1 BY <3>2, <3>3 DEF next_turn_number
    <3> QED BY <1>1, <3>1, <3>2, <3>4
  <2> QED BY <2>1, <2>2
<1>6. PICK n \in Nat : TurnsBelow(h, n)
  <2>1. CASE h = history BY <1>1, <2>1
  <2>2. CASE h # history
    <3>1. PICK e \in Turn : h = Append(history, e) /\ e.turn = turn BY <1>5, <2>2
    <3>2. /\ DOMAIN h = 1..Len(history) + 1 /\ Len(history) \in Nat /\ DOMAIN history = 1..Len(history)
          /\ \A i \in 1..Len(history) : h[i] = history[i]
          /\ h[Len(history) + 1] = e
      BY <1>1, <3>1, AppendedHistory
    <3>3. TurnsBelow(h, turn + 1) BY <1>1, <3>1, <3>2 DEF TurnsBelow
    <3> QED BY <1>1, <3>3
  <2> QED BY <2>1, <2>2
<1>7. told \subseteq Told(r, h)
  <2>1. told = Told(r, history) BY <1>2, ToldSame
  <2>2. CASE h = history BY <2>1, <2>2
  <2>3. CASE h # history
    <3>1. PICK e \in Turn : h = Append(history, e) BY <1>5, <2>3
    <3> QED BY <1>1, <1>2, <2>1, <3>1, ToldAppended
  <2> QED BY <2>2, <2>3
<1>8. Cardinality(told) <= turns_elapsed(r, h) /\ turns_elapsed(r, h) \in Nat
  <2>1. IsFiniteSet(Told(r, h)) /\ Cardinality(Told(r, h)) \in Nat BY <1>2, <1>6, ToldFinite
  <2>2. turns_elapsed(r, h) = Cardinality(Told(r, h)) BY DEF turns_elapsed, Told
  <2> HIDE DEF told
  <2> QED BY <1>7, <2>1, <2>2, FS_Subset
<1>9. next_turn_number(h) < r.cooldown_until_turn \/ turns_elapsed(r, h) < HARD_BEAT_TURN_CAP
  <2>1. Advances(r, h) => FALSE BY <1>3 DEF evaluate_roteiro
  <2>2. ~Stalled(r, h) \/ next_turn_number(h) < r.cooldown_until_turn
    BY <1>3, <2>1 DEF evaluate_roteiro
  <2> QED BY <1>8, <2>2, CapAssumption DEF Stalled
<1>10. next_turn_number(h) \in Nat
  <2>1. CASE h = history BY <1>1, <2>1 DEF turn
  <2>2. CASE h # history
    <3>1. PICK e \in Turn : h = Append(history, e) /\ e.turn = turn BY <1>5, <2>2
    <3>2. h # <<>> /\ h[Len(h)] = e BY <1>1, <3>1
    <3> QED BY <1>1, <3>1, <3>2 DEF next_turn_number
  <2> QED BY <2>1, <2>2
<1>11. /\ roteiro.beat_started_turn \in Nat /\ roteiro.cooldown_until_turn \in Nat
       /\ HARD_BEAT_TURN_CAP \in Nat /\ COOLDOWN_TURNS \in Nat /\ COOLDOWN_TURNS <= HARD_BEAT_TURN_CAP
  BY <1>1, CapAssumption DEF RoteiroType
<1> HIDE DEF told
<1>12. Cardinality(told) < HARD_BEAT_TURN_CAP
  BY <1>1, <1>2, <1>4, <1>5, <1>8, <1>9, <1>10, <1>11
<1> QED BY <1>12 DEF told

-----------------------------------------------------------------------------
(* A committed beat keeps the count *)

LEMMA NextTurnAfter ==
  ASSUME TypeOK, TypeOK', NEW narrated, Closing(narrated)
  PROVE  next_turn_number(history') >= next_turn_number(history)
<1>1. next_turn_number(history) \in Nat BY NextTurnIsNat
<1>2. CASE history' = history BY <1>1, <1>2
<1>3. CASE history' # history
  <2>1. PICK e : IsStamp(e) /\ history' = Append(history, e) BY <1>3 DEF Closing
  <2>2. history \in Seq(Turn) /\ e \in Turn /\ e.turn = next_turn_number(history)
    BY <2>1 DEF IsStamp, TypeOK
  <2>3. history' # <<>> /\ history'[Len(history')] = e BY <2>1, <2>2
  <2>4. next_turn_number(history') = e.turn + 1 BY <2>3 DEF next_turn_number
  <2> QED BY <1>1, <2>2, <2>4
<1> QED BY <1>2, <1>3

\* What the beat adds to the turns told.
LEMMA ToldAfter ==
  ASSUME TypeOK, NEW narrated \in BOOLEAN, Closing(narrated), NEW r \in RoteiroType,
         r.beat_started_turn <= next_turn_number(history)
  PROVE  Told(r, history') =
            Told(r, history) \cup (IF narrated THEN {next_turn_number(history)} ELSE {})
<1>1. CASE history' = history /\ ~narrated BY <1>1
<1>2. CASE ~(history' = history /\ ~narrated)
  <2>1. PICK e : IsStamp(e) /\ e.progress = narrated /\ history' = Append(history, e)
    BY <1>2 DEF Closing
  <2>2. history \in Seq(Turn) /\ e \in Turn /\ e.turn = next_turn_number(history)
    BY <2>1 DEF IsStamp, TypeOK
  <2>3. e.turn \in Nat /\ r.beat_started_turn \in Nat /\ e.progress \in BOOLEAN
    BY <2>2 DEF Turn, RoteiroType
  <2>4. Told(r, history') =
           Told(r, history) \cup (IF e.turn >= r.beat_started_turn /\ e.progress THEN {e.turn} ELSE {})
    BY <2>1, <2>2, ToldAppended
  <2>5. e.turn >= r.beat_started_turn BY <2>2, <2>3
  <2>6. (IF e.turn >= r.beat_started_turn /\ e.progress THEN {e.turn} ELSE {})
           = IF narrated THEN {next_turn_number(history)} ELSE {}
    BY <2>1, <2>2, <2>5
  <2> QED BY <2>4, <2>6
<1> QED BY <1>1, <1>2

\* The current beat after a beat has been played.
CountNow(r, g, h, n) ==
    /\ BeatCount(r, g, h, n)
    /\ ~g.cut /\ r # NoRoteiro => g.narrated = Cardinality(Told(r, h))

LEMMA PlayedCount ==
  ASSUME TypeOK, TypeOK', TurnOrder, NEW h, NEW first_beat \in BOOLEAN, NEW reply \in Replies,
         NEW narrated \in BOOLEAN, Played(h, first_beat, reply, narrated),
         CountNow(roteiro, aux, history, next_turn_number(history))
  PROVE  CountNow(roteiro', aux', history', next_turn_number(history'))
<1> DEFINE turn == next_turn_number(history)
           due == Due(h, first_beat)
           after == _maintain_roteiro(due, reply, turn, first_beat)
<1>1. /\ turn \in Nat /\ TurnsBelow(history, turn) /\ aux \in Ghost /\ aux' \in Ghost
      /\ roteiro \in RoteiroType \cup {NoRoteiro} /\ history \in Seq(Turn)
  BY NextTurnIsNat, NextTurn DEF TypeOK
<1>2. /\ Closing(narrated) /\ Opening(h, narrated) /\ aux' = GhostAfter(due, after, narrated)
  BY DEF Played
<1>3. next_turn_number(history') >= turn /\ next_turn_number(history') \in Nat
  <2>1. next_turn_number(history') \in Nat BY NextTurnType DEF TypeOK
  <2> QED BY <1>2, <2>1, NextTurnAfter
<1>4. roteiro' \in RoteiroType
  <2>1. CASE roteiro = NoRoteiro BY <2>1, FirstDirection
  <2>2. CASE roteiro # NoRoteiro BY <2>2, PlayedDirection DEF Succeeds
  <2> QED BY <2>1, <2>2
<1>5. HARD_BEAT_TURN_CAP \in Nat \ {0} /\ COOLDOWN_TURNS \in Nat BY CapAssumption
<1>6. aux.narrated \in Nat /\ aux.cut \in BOOLEAN BY <1>1 DEF Ghost
<1>7. ASSUME due # "none"
      PROVE  CountNow(roteiro', aux', history', next_turn_number(history'))
  <2>1. aux'.narrated = 0 + (IF narrated THEN 1 ELSE 0)
    BY <1>2, <1>7 DEF GhostAfter
  <2>2. roteiro'.beat_started_turn = turn /\ roteiro'.cooldown_until_turn <= turn + COOLDOWN_TURNS
    <3>1. CASE roteiro = NoRoteiro
      <4>1. roteiro'.beat_started_turn = turn /\ roteiro'.cooldown_until_turn = 0
        BY <3>1, FirstDirection
      <4> HIDE DEF turn
      <4> QED BY <1>1, <1>5, <4>1
    <3>2. CASE roteiro # NoRoteiro
      <4>1. roteiro'.beat_started_turn = turn /\ roteiro'.cooldown_until_turn = turn + COOLDOWN_TURNS
        BY <1>7, <3>2, PlayedDirection
      <4> HIDE DEF turn
      <4> QED BY <1>1, <1>5, <4>1
    <3> QED BY <3>1, <3>2
  <2> HIDE DEF turn, due, after
  <2>3. Told(roteiro', history) = {}
    BY <1>1, <1>4, <2>2, ToldNothing
  <2>4. Told(roteiro', history') = IF narrated THEN {turn} ELSE {}
    <3>1. roteiro'.beat_started_turn <= turn BY <1>1, <2>2
    <3>2. Told(roteiro', history') = Told(roteiro', history) \cup (IF narrated THEN {turn} ELSE {})
      BY <1>2, <1>4, <3>1, ToldAfter DEF turn
    <3> QED BY <2>3, <3>2
  <2>5. aux'.narrated = Cardinality(Told(roteiro', history'))
    <3>1. Cardinality({}) = 0 /\ Cardinality({turn}) = 1 BY FS_EmptySet, FS_Singleton
    <3>2. CASE narrated BY <2>1, <2>4, <3>1, <3>2
    <3>3. CASE ~narrated BY <2>1, <2>4, <3>1, <3>3
    <3> QED BY <3>2, <3>3
  <2>6. aux'.narrated <= HARD_BEAT_TURN_CAP BY <1>5, <2>1
  <2>7. roteiro'.beat_started_turn <= next_turn_number(history') BY <1>1, <1>3, <2>2
  <2>8. roteiro'.cooldown_until_turn <= roteiro'.beat_started_turn + COOLDOWN_TURNS BY <2>2
  <2>9. roteiro' # NoRoteiro BY <1>4, NoRoteiroAssumption
  <2> QED BY <2>5, <2>6, <2>7, <2>8, <2>9 DEF CountNow, BeatCount
<1>8. ASSUME due = "none"
      PROVE  CountNow(roteiro', aux', history', next_turn_number(history'))
  <2>1. roteiro # NoRoteiro BY <1>8 DEF Due
  <2>2. aux'.narrated = aux.narrated + (IF narrated THEN 1 ELSE 0)
    BY <1>2, <1>8 DEF GhostAfter
  <2>3. ~aux'.cut => ~aux.cut
    BY <1>2, <1>8 DEF GhostAfter
  <2>4. /\ roteiro'.beat_started_turn = roteiro.beat_started_turn
        /\ roteiro'.cooldown_until_turn = roteiro.cooldown_until_turn
    BY <1>8, <2>1, PlayedDirection
  <2>5. /\ roteiro \in RoteiroType
        /\ roteiro.cooldown_until_turn <= roteiro.beat_started_turn + COOLDOWN_TURNS
        /\ ~aux.cut => /\ aux.narrated <= HARD_BEAT_TURN_CAP
                       /\ roteiro.beat_started_turn <= turn
                       /\ aux.narrated = Cardinality(Told(roteiro, history))
    BY <1>1, <2>1 DEF CountNow, BeatCount
  <2>6. ~aux.cut => Cardinality(Told(roteiro, history)) < HARD_BEAT_TURN_CAP
    BY <1>2, <1>8, <2>1, <2>5, RoomForOneMore
  <2> HIDE DEF turn, due, after
  <2>7. /\ IsFiniteSet(Told(roteiro, history)) /\ turn \notin Told(roteiro, history)
        /\ Cardinality(Told(roteiro, history)) \in Nat
    <3>1. turn \notin roteiro.beat_started_turn..turn - 1 BY <1>1
    <3> QED BY <1>1, <2>5, <3>1, ToldFinite
  <2>8. roteiro'.beat_started_turn <= turn =>
           Told(roteiro', history') = Told(roteiro, history) \cup (IF narrated THEN {turn} ELSE {})
    <3>1. Told(roteiro', history) = Told(roteiro, history) BY <2>4, ToldSame
    <3> QED BY <1>2, <1>4, <3>1, ToldAfter DEF turn
  <2>9. Cardinality(Told(roteiro, history) \cup (IF narrated THEN {turn} ELSE {}))
           = Cardinality(Told(roteiro, history)) + (IF narrated THEN 1 ELSE 0)
    <3>1. CASE narrated BY <2>7, <3>1, FS_AddElement
    <3>2. CASE ~narrated BY <2>7, <3>2
    <3> QED BY <3>1, <3>2
  <2>10. ASSUME ~aux'.cut
         PROVE  /\ aux'.narrated <= HARD_BEAT_TURN_CAP
                /\ roteiro'.beat_started_turn <= next_turn_number(history')
                /\ aux'.narrated = Cardinality(Told(roteiro', history'))
    <3>1. ~aux.cut BY <2>3, <2>10
    <3>2. aux.narrated < HARD_BEAT_TURN_CAP BY <2>5, <2>6, <3>1
    <3>3. aux'.narrated <= HARD_BEAT_TURN_CAP BY <1>5, <1>6, <2>2, <3>2
    <3>4. roteiro'.beat_started_turn <= turn BY <2>4, <2>5, <3>1
    <3>5. roteiro'.beat_started_turn \in Nat BY <1>4 DEF RoteiroType
    <3>6. roteiro'.beat_started_turn <= next_turn_number(history') BY <1>1, <1>3, <3>4, <3>5
    <3>7. aux'.narrated = Cardinality(Told(roteiro', history'))
      BY <2>2, <2>5, <2>8, <2>9, <3>1, <3>4
    <3> QED BY <3>3, <3>6, <3>7
  <2>11. roteiro' # NoRoteiro BY <1>4, NoRoteiroAssumption
  <2> QED BY <2>4, <2>5, <2>10, <2>11 DEF CountNow, BeatCount
<1> QED BY <1>7, <1>8

LEMMA PlayedStamps ==
  ASSUME TypeOK, BeatsCounted, NEW narrated, Closing(narrated), UNCHANGED compacted
  PROVE  \A i \in DOMAIN history' :
            BeatCount(history'[i].roteiro, history'[i].aux, Prefix(history', i), history'[i].turn)
<1> DEFINE n == Len(history)
<1>1. history \in Seq(Turn) /\ DOMAIN history = 1..n /\ n \in Nat
  BY HistoryFacts
<1>2. \A i \in 1..n :
         BeatCount(history[i].roteiro, history[i].aux, Prefix(history, i), history[i].turn)
  BY <1>1 DEF BeatsCounted
<1>3. CASE history' = history BY <1>1, <1>2, <1>3
<1>4. CASE history' # history
  <2>1. PICK e : IsStamp(e) /\ history' = Append(history, e) BY <1>4 DEF Closing
  <2>2. /\ e \in Turn /\ e.turn = next_turn_number(history)
        /\ e.roteiro = roteiro /\ e.aux = aux
    BY <2>1 DEF IsStamp
  <2>3. /\ DOMAIN history' = 1..n + 1
        /\ \A i \in 1..n : history'[i] = history[i] /\ Prefix(history', i) = Prefix(history, i)
        /\ history'[n + 1] = e /\ Prefix(history', n + 1) = history
    BY <1>1, <2>1, <2>2, AppendedHistory
  <2>4. BeatCount(e.roteiro, e.aux, history, e.turn)
    BY <2>2 DEF BeatsCounted
  <2> HIDE DEF n
  <2> SUFFICES ASSUME NEW i \in 1..n + 1
               PROVE  BeatCount(history'[i].roteiro, history'[i].aux, Prefix(history', i), history'[i].turn)
    BY <2>3
  <2>5. CASE i = n + 1 BY <2>3, <2>4, <2>5
  <2>6. CASE i # n + 1
    <3>1. i \in 1..n BY <1>1, <2>6
    <3> QED BY <1>2, <2>3, <3>1
  <2> QED BY <2>5, <2>6
<1> QED BY <1>3, <1>4

LEMMA CommitKeeps ==
  ASSUME RoteiroInv, NEW beat \in Beats, NEW reply \in Replies, NEW first_beat \in BOOLEAN,
         CommitBeat(beat, reply, first_beat)
  PROVE  RoteiroInv'
<1>1. TypeOK /\ DirectionsSound /\ ClockOrder /\ TurnOrder /\ BeatsCounted BY DEF RoteiroInv
<1>2. PICK h : \E narrated \in BOOLEAN : Played(h, first_beat, reply, narrated) BY <1>1, CommitShape
<1>3. PICK narrated \in BOOLEAN : Played(h, first_beat, reply, narrated) BY <1>2
<1>4. /\ Closing(narrated) /\ UNCHANGED compacted /\ tick \in Nat
      /\ tick' \in tick + 1..tick + MaxSkip + 1
  BY <1>1, <1>3 DEF Played, TypeOK
<1>5. TypeOK' BY <1>1, <1>3, PlayedTypes
<1>6. tick' \in Nat /\ tick' >= tick BY <1>4, CapAssumption
<1>7. Direction(tick, roteiro, aux) BY <1>1 DEF DirectionsSound
<1>8. Direction(tick', roteiro', aux')
  <2>1. roteiro' # NoRoteiro
    <3>1. CASE roteiro = NoRoteiro BY <1>1, <1>3, <3>1, FirstDirection, NoRoteiroAssumption
    <3>2. CASE roteiro # NoRoteiro BY <1>1, <1>3, <3>2, PlayedDirection, NoRoteiroAssumption DEF Succeeds
    <3> QED BY <3>1, <3>2
  <2>2. DeadlineSound(tick', roteiro', aux') BY <1>1, <1>3, <1>7, <2>1, PlayedDeadline
  <2> QED BY <2>1, <2>2 DEF Direction
<1>9. ClockOrder' /\ TurnOrder' /\ DirectionsSound'
  BY <1>1, <1>4, <1>6, <1>8, PlayedOrder
<1>10. BeatsCounted'
  <2>1. CountNow(roteiro, aux, history, next_turn_number(history))
    BY <1>1 DEF CountNow, BeatsCounted
  <2>2. CountNow(roteiro', aux', history', next_turn_number(history'))
    BY <1>1, <1>3, <1>5, <2>1, PlayedCount
  <2>3. \A i \in DOMAIN history' :
           BeatCount(history'[i].roteiro, history'[i].aux, Prefix(history', i), history'[i].turn)
    BY <1>1, <1>4, PlayedStamps
  <2> QED BY <1>4, <2>2, <2>3 DEF CountNow, BeatsCounted, BeatCount
<1> QED BY <1>5, <1>9, <1>10 DEF RoteiroInv

-----------------------------------------------------------------------------
(* Undo *)

LEMMA UndoneHistory ==
  ASSUME NEW h \in Seq(Turn), h # <<>>
  PROVE  LET g == SubSeq(h, 1, Len(h) - 1) IN
         /\ g \in Seq(Turn) /\ Len(h) \in Nat \ {0} /\ DOMAIN h = 1..Len(h)
         /\ DOMAIN g = 1..Len(h) - 1 /\ Len(g) = Len(h) - 1
         /\ \A i \in 1..Len(h) - 1 : g[i] = h[i] /\ Prefix(g, i) = Prefix(h, i)
         /\ g = Prefix(h, Len(h))
         /\ g = <<>> <=> Len(h) = 1
<1> DEFINE g == SubSeq(h, 1, Len(h) - 1)
<1>0. Len(h) \in Nat \ {0} /\ DOMAIN h = 1..Len(h) OBVIOUS
<1>1. /\ g \in Seq(Turn) /\ Len(h) \in Nat \ {0} /\ DOMAIN h = 1..Len(h)
      /\ DOMAIN g = 1..Len(h) - 1 /\ Len(g) = Len(h) - 1
      /\ \A i \in 1..Len(h) - 1 : g[i] = h[i]
  <2>1. \A i \in 1..Len(h) - 1 : h[i] \in Turn BY <1>0
  <2>2. g = [i \in 1..Len(h) - 1 |-> h[i]] BY <1>0
  <2>3. Len(h) - 1 \in Nat BY <1>0
  <2> HIDE DEF g
  <2>4. g \in Seq(Turn) BY <2>1, <2>2, <2>3
  <2>5. DOMAIN g = 1..Len(h) - 1 BY <2>2
  <2>6. Len(g) = Len(h) - 1 BY <2>3, <2>4, <2>5, LenProperties
  <2> QED BY <1>0, <2>2, <2>4, <2>5, <2>6
<1>2. ASSUME NEW i \in 1..Len(h) - 1
      PROVE  Prefix(g, i) = Prefix(h, i)
  <2>1. SubSeq(g, 1, i - 1) = [k \in 1..(i - 1) |-> g[k]] BY <1>1
  <2>2. SubSeq(h, 1, i - 1) = [k \in 1..(i - 1) |-> h[k]] BY <1>1
  <2>3. \A k \in 1..(i - 1) : g[k] = h[k] BY <1>1
  <2> QED BY <2>1, <2>2, <2>3 DEF Prefix
<1>3. g = Prefix(h, Len(h)) BY DEF Prefix
<1>4. g = <<>> <=> Len(h) = 1
  <2> HIDE DEF g
  <2>1. g = <<>> <=> Len(g) = 0 BY <1>1, EmptySeq
  <2> QED BY <1>1, <2>1
<1> QED BY <1>1, <1>2, <1>3, <1>4

LEMMA UndoKeeps ==
  ASSUME RoteiroInv, UndoTurn
  PROVE  RoteiroInv'
<1> DEFINE n == Len(history)
           last == history[n]
<1>1. TypeOK /\ DirectionsSound /\ ClockOrder /\ TurnOrder /\ BeatsCounted BY DEF RoteiroInv
<1>2. history \in Seq(Turn) /\ history # <<>> BY <1>1 DEF UndoTurn, TypeOK
<1>3. /\ history' = SubSeq(history, 1, n - 1)
      /\ tick' = last.tick /\ roteiro' = last.roteiro
      /\ aux' = [last.aux EXCEPT !.cut = @ \/ (compacted /\ Cut(last.roteiro, history'))]
      /\ burst' = 0 /\ compacted' = compacted
  BY DEF UndoTurn
<1>4. /\ history' \in Seq(Turn) /\ n \in Nat \ {0} /\ DOMAIN history = 1..n
      /\ DOMAIN history' = 1..n - 1 /\ Len(history') = n - 1
      /\ \A i \in 1..n - 1 : history'[i] = history[i] /\ Prefix(history', i) = Prefix(history, i)
      /\ history' = Prefix(history, n)
      /\ history' = <<>> <=> n = 1
  BY <1>2, <1>3, UndoneHistory
<1>5. n \in 1..n /\ 1 \in 1..n BY <1>4
<1>6. /\ \A i \in 1..n : history[i].turn \in Nat /\ history[i].tick \in Nat
      /\ last.roteiro \in RoteiroType \cup {NoRoteiro} /\ last.aux \in Ghost
      /\ last.tick \in Nat
  BY <1>1, <1>5, HistoryFacts
<1>7. Direction(last.tick, last.roteiro, last.aux)
  BY <1>1, <1>4, <1>5 DEF DirectionsSound
<1>8. BeatCount(last.roteiro, last.aux, Prefix(history, n), last.turn)
  BY <1>1, <1>4, <1>5 DEF BeatsCounted
<1>9. \A i \in 1..n : history[i].tick <= last.tick
  BY <1>1, <1>4, <1>5 DEF ClockOrder
<1>10. \A i \in 1..n : history[i].turn = history[1].turn + i - 1
  BY <1>1, <1>4 DEF TurnOrder
<1>11. ~compacted => history[1].turn = 1 BY <1>1, <1>2 DEF TurnOrder
<1>12. /\ aux'.since = last.aux.since /\ aux'.narrated = last.aux.narrated
       /\ aux'.fired = last.aux.fired /\ aux' \in Ghost
       /\ ~aux'.cut => ~last.aux.cut /\ ~(compacted /\ Cut(last.roteiro, history'))
  <2> DEFINE c == last.aux.cut \/ (compacted /\ Cut(last.roteiro, history'))
             a == last.aux
  <2>1. c \in BOOLEAN /\ aux' = [a EXCEPT !.cut = c] BY <1>3
  <2>2. a \in [since: Nat, narrated: Nat, fired: SUBSET Nat, cut: BOOLEAN] BY <1>6 DEF Ghost
  <2> HIDE DEF c, a
  <2>3. /\ aux'.since = a.since /\ aux'.narrated = a.narrated /\ aux'.fired = a.fired
        /\ aux'.cut = c /\ aux' \in Ghost
    BY <2>1, <2>2 DEF Ghost
  <2> QED BY <2>3 DEF a, c
<1> HIDE DEF n, last
<1>13. last = history[n] BY DEF last
<1>14. TypeOK'
  <2>1. roteiro' # NoRoteiro => roteiro'.act_index <= Len(roteiro'.acts)
    BY <1>3, <1>7 DEF Direction, DeadlineSound
  <2>2. compacted' \in BOOLEAN /\ burst' \in 0..BurstMaxBeats
    BY <1>1, <1>3, CapAssumption DEF TypeOK
  <2> QED BY <1>3, <1>4, <1>6, <1>12, <2>1, <2>2 DEF TypeOK
<1>15. DirectionsSound'
  <2>1. Direction(tick', roteiro', aux')
    BY <1>3, <1>7, <1>12 DEF Direction, DeadlineSound
  <2>2. \A i \in 1..n - 1 : Direction(history'[i].tick, history'[i].roteiro, history'[i].aux)
    BY <1>1, <1>4 DEF DirectionsSound
  <2> QED BY <1>4, <2>1, <2>2 DEF DirectionsSound, Direction, DeadlineSound
<1>16. ClockOrder'
  <2>1. \A i \in 1..n - 1 : history'[i].tick <= tick' BY <1>3, <1>4, <1>9
  <2>2. \A i, j \in 1..n - 1 : i <= j => history'[i].tick <= history'[j].tick
    BY <1>1, <1>4 DEF ClockOrder
  <2> QED BY <1>4, <2>1, <2>2 DEF ClockOrder
<1>17. TurnOrder'
  <2>1. \A i \in 1..n - 1 : history'[i].turn = history'[1].turn + i - 1
    BY <1>4, <1>10
  <2>2. history' # <<>> /\ ~compacted' => history'[1].turn = 1
    <3>1. history' # <<>> => 1 \in 1..n - 1 BY <1>4
    <3> QED BY <1>3, <1>4, <1>11, <3>1
  <2> QED BY <1>4, <2>1, <2>2 DEF TurnOrder
<1>18. BeatsCounted'
  <2>1. last.turn = history[1].turn + n - 1 BY <1>4, <1>5, <1>10, <1>13
  <2>2. history' # <<>> => next_turn_number(history') = last.turn
    <3> SUFFICES ASSUME history' # <<>> PROVE next_turn_number(history') = last.turn OBVIOUS
    <3>1. n - 1 \in 1..n - 1 /\ n - 1 \in 1..n BY <1>4
    <3>2. next_turn_number(history') = history[n - 1].turn + 1 BY <1>4, <3>1 DEF next_turn_number
    <3>3. history[n - 1].turn = history[1].turn + (n - 1) - 1 BY <1>10, <3>1
    <3> QED BY <1>4, <1>5, <1>6, <2>1, <3>2, <3>3
  <2>3. history' = <<>> /\ ~compacted => next_turn_number(history') = last.turn
    BY <1>4, <1>11, <2>1 DEF next_turn_number
  <2>4. roteiro' # NoRoteiro => roteiro' \in RoteiroType BY <1>3, <1>6
  <2>5. roteiro' # NoRoteiro /\ ~aux'.cut =>
          /\ aux'.narrated <= HARD_BEAT_TURN_CAP
          /\ roteiro'.beat_started_turn <= next_turn_number(history')
          /\ aux'.narrated = Cardinality(Told(roteiro', history'))
    <3> SUFFICES ASSUME roteiro' # NoRoteiro, ~aux'.cut
                 PROVE  /\ aux'.narrated <= HARD_BEAT_TURN_CAP
                        /\ roteiro'.beat_started_turn <= next_turn_number(history')
                        /\ aux'.narrated = Cardinality(Told(roteiro', history'))
      OBVIOUS
    <3>1. ~last.aux.cut /\ ~(compacted /\ Cut(last.roteiro, history')) BY <1>12
    <3>2. history' = <<>> => ~compacted BY <1>3, <3>1 DEF Cut
    <3>3. next_turn_number(history') = last.turn BY <2>2, <2>3, <3>2
    <3>4. /\ last.aux.narrated <= HARD_BEAT_TURN_CAP
          /\ last.roteiro.beat_started_turn <= last.turn
          /\ last.aux.narrated = Cardinality(Told(last.roteiro, history'))
      BY <1>3, <1>4, <1>8, <3>1 DEF BeatCount
    <3> QED BY <1>3, <1>12, <3>3, <3>4
  <2>6. roteiro' = NoRoteiro => aux'.narrated = 0 BY <1>3, <1>8, <1>12 DEF BeatCount
  <2>7. roteiro' # NoRoteiro => roteiro'.cooldown_until_turn <= roteiro'.beat_started_turn + COOLDOWN_TURNS
    BY <1>3, <1>8 DEF BeatCount
  <2>8. \A i \in 1..n - 1 :
          BeatCount(history'[i].roteiro, history'[i].aux, Prefix(history', i), history'[i].turn)
    BY <1>1, <1>4 DEF BeatsCounted
  <2> QED BY <1>3, <1>4, <2>5, <2>6, <2>7, <2>8 DEF BeatsCounted, BeatCount
<1> QED BY <1>14, <1>15, <1>16, <1>17, <1>18 DEF RoteiroInv

-----------------------------------------------------------------------------
(* Compaction *)

Consecutive(h) == \A i \in DOMAIN h : h[i].turn \in Nat /\ h[i].turn = h[1].turn + i - 1

\* g is h without its first d entries.
Suffix(g, h, d) ==
    /\ d \in Nat /\ d < Len(h)
    /\ Len(g) = Len(h) - d
    /\ \A i \in 1..Len(h) - d : g[i] = h[i + d]

\* What is evicted takes nothing from a beat whose first turn is still there.
LEMMA ToldSuffix ==
  ASSUME NEW r \in RoteiroType, NEW h \in Seq(Turn), NEW g \in Seq(Turn), NEW d, Suffix(g, h, d),
         Consecutive(h), g[1].turn <= r.beat_started_turn
  PROVE  Told(r, g) = Told(r, h)
<1> DEFINE s == r.beat_started_turn
           n == Len(h)
<1>1. /\ s \in Nat /\ n \in Nat /\ d \in Nat /\ d < n /\ DOMAIN h = 1..n /\ DOMAIN g = 1..n - d
      /\ \A i \in 1..n - d : g[i] = h[i + d]
      /\ \A i \in 1..n : h[i].turn \in Nat /\ h[i].turn = h[1].turn + i - 1
  <2>1. s \in Nat BY DEF RoteiroType
  <2>2. n \in Nat /\ DOMAIN h = 1..n /\ DOMAIN g = 1..Len(g) BY LenProperties
  <2>3. d \in Nat /\ d < n /\ Len(g) = n - d /\ \A i \in 1..n - d : g[i] = h[i + d] BY DEF Suffix
  <2>4. \A i \in 1..n : h[i].turn \in Nat /\ h[i].turn = h[1].turn + i - 1
    BY <2>2 DEF Consecutive
  <2> QED BY <2>1, <2>2, <2>3, <2>4
<1>2. g[1] = h[1 + d] /\ 1 \in 1..n /\ 1 + d \in 1..n
  BY <1>1
<1>3. g[1].turn <= s OBVIOUS
<1> HIDE DEF s, n
<1>4. ASSUME NEW t
      PROVE  t \in Told(r, g) <=> t \in Told(r, h)
  <2>1. t \in Told(r, g) <=> \E i \in 1..n - d : g[i].turn >= s /\ g[i].progress /\ t = g[i].turn
    BY <1>1 DEF Told, _beat_records, s
  <2>2. t \in Told(r, h) <=> \E i \in 1..n : h[i].turn >= s /\ h[i].progress /\ t = h[i].turn
    BY <1>1 DEF Told, _beat_records, s
  <2>3. ASSUME NEW i \in 1..n - d, g[i].turn >= s /\ g[i].progress /\ t = g[i].turn
        PROVE  t \in Told(r, h)
    <3>1. i + d \in 1..n BY <1>1
    <3> QED BY <1>1, <2>2, <2>3, <3>1
  <2>4. ASSUME NEW i \in 1..n, h[i].turn >= s /\ h[i].progress /\ t = h[i].turn
        PROVE  t \in Told(r, g)
    <3>1. h[i].turn >= h[1 + d].turn BY <1>1, <1>2, <1>3, <2>4
    <3>2. i >= 1 + d
      <4>1. PICK first \in Nat : first = h[1].turn BY <1>1
      <4>2. h[i].turn = first + i - 1 /\ h[1 + d].turn = first + (1 + d) - 1 BY <1>1, <1>2, <4>1
      <4> QED BY <1>1, <3>1, <4>2
    <3>3. i - d \in 1..n - d /\ g[i - d] = h[i]
      <4>1. i - d \in 1..n - d BY <1>1, <3>2
      <4>2. (i - d) + d = i BY <1>1
      <4> QED BY <1>1, <4>1, <4>2
    <3> QED BY <2>1, <2>4, <3>3
  <2> QED BY <2>1, <2>2, <2>3, <2>4
<1> QED BY <1>4 DEF Told

LEMMA CompactedHistory ==
  ASSUME TypeOK, CompactHistory
  PROVE  LET n == Len(history)
             d == n - KeepRecent
         IN  /\ n \in Nat /\ d \in Nat \ {0} /\ d < n /\ DOMAIN history = 1..n
             /\ history' \in Seq(Turn) /\ Suffix(history', history, d)
             /\ Len(history') = n - d /\ DOMAIN history' = 1..n - d
             /\ \A i \in 1..n - d : i + d \in 1..n /\ history'[i] = history[i + d]
<1> DEFINE n == Len(history)
           d == n - KeepRecent
<1>1. /\ history \in Seq(Turn) /\ n \in Nat /\ DOMAIN history = 1..n
      /\ \A i \in 1..n : history[i] \in Turn
  BY HistoryFacts
<1>2. KeepRecent \in Nat \ {0} /\ n > KeepRecent /\ history' = SubSeq(history, n - KeepRecent + 1, n)
  BY CapAssumption DEF CompactHistory
<1>4. history' = SubSeq(history, d + 1, n) BY <1>2
<1> HIDE DEF n
<1>3. d \in Nat \ {0} /\ d < n /\ n - d = KeepRecent BY <1>1, <1>2
<1> HIDE DEF d
<1>5. d + 1 \in Int /\ n \in Int /\ \A i \in d + 1..n : history[i] \in Turn BY <1>1, <1>3
<1>6. /\ history' \in Seq(Turn)
      /\ Len(history') = IF d + 1 <= n THEN n - (d + 1) + 1 ELSE 0
      /\ \A i \in 1..n - (d + 1) + 1 : history'[i] = history[(d + 1) + i - 1]
  BY <1>4, <1>5, SubSeqProperties
<1>7. Len(history') = n - d BY <1>1, <1>3, <1>6
<1>8. \A i \in 1..n - d : i + d \in 1..n /\ history'[i] = history[i + d]
  <2> SUFFICES ASSUME NEW i \in 1..n - d PROVE i + d \in 1..n /\ history'[i] = history[i + d] OBVIOUS
  <2>1. i + d \in 1..n BY <1>1, <1>3
  <2>2. i \in 1..n - (d + 1) + 1 /\ (d + 1) + i - 1 = i + d BY <1>1, <1>3
  <2> QED BY <1>6, <2>1, <2>2
<1>9. DOMAIN history' = 1..n - d BY <1>6, <1>7
<1>10. Suffix(history', history, d) BY <1>3, <1>7, <1>8 DEF Suffix, n
<1> QED BY <1>1, <1>3, <1>6, <1>7, <1>8, <1>9, <1>10 DEF n, d

LEMMA PrefixFacts ==
  ASSUME NEW h \in Seq(Turn), NEW i \in 1..Len(h)
  PROVE  /\ Prefix(h, i) \in Seq(Turn) /\ Len(Prefix(h, i)) = i - 1 /\ DOMAIN Prefix(h, i) = 1..i - 1
         /\ \A k \in 1..i - 1 : Prefix(h, i)[k] = h[k]
         /\ Prefix(h, i) = <<>> <=> i = 1
<1> DEFINE p == Prefix(h, i)
<1>1. Len(h) \in Nat /\ \A k \in 1..Len(h) : h[k] \in Turn OBVIOUS
<1>2. 1 \in Int /\ i - 1 \in Int /\ \A k \in 1..i - 1 : h[k] \in Turn BY <1>1
<1>3. /\ p \in Seq(Turn)
      /\ Len(p) = IF 1 <= i - 1 THEN (i - 1) - 1 + 1 ELSE 0
      /\ \A k \in 1..(i - 1) - 1 + 1 : p[k] = h[1 + k - 1]
  BY <1>2, SubSeqProperties DEF Prefix
<1> HIDE DEF p
<1>4. Len(p) = i - 1 BY <1>1, <1>3
<1>5. DOMAIN p = 1..i - 1 BY <1>3, <1>4
<1>6. \A k \in 1..i - 1 : p[k] = h[k]
  <2> SUFFICES ASSUME NEW k \in 1..i - 1 PROVE p[k] = h[k] OBVIOUS
  <2>1. k \in 1..(i - 1) - 1 + 1 /\ 1 + k - 1 = k BY <1>1
  <2> QED BY <1>3, <2>1
<1>7. p = <<>> <=> Len(p) = 0 BY <1>3, EmptySeq
<1> QED BY <1>1, <1>3, <1>4, <1>5, <1>6, <1>7 DEF p

LEMMA CompactKeeps ==
  ASSUME RoteiroInv, CompactHistory
  PROVE  RoteiroInv'
<1> DEFINE n == Len(history)
           d == n - KeepRecent
<1>1. TypeOK /\ DirectionsSound /\ ClockOrder /\ TurnOrder /\ BeatsCounted BY DEF RoteiroInv
<1>2. /\ n \in Nat /\ d \in Nat \ {0} /\ d < n /\ DOMAIN history = 1..n
      /\ history' \in Seq(Turn) /\ Suffix(history', history, d)
      /\ Len(history') = n - d /\ DOMAIN history' = 1..n - d
      /\ \A i \in 1..n - d : i + d \in 1..n /\ history'[i] = history[i + d]
  BY <1>1, CompactedHistory
<1>3. /\ tick' = tick /\ roteiro' = roteiro /\ compacted' = TRUE /\ burst' = 0
      /\ aux' = [aux EXCEPT !.cut = @ \/ Cut(roteiro, history')]
  BY DEF CompactHistory
<1>4. /\ aux'.since = aux.since /\ aux'.narrated = aux.narrated
      /\ aux'.fired = aux.fired /\ aux' \in Ghost
      /\ ~aux'.cut => ~aux.cut /\ ~Cut(roteiro, history')
  <2> DEFINE c == aux.cut \/ Cut(roteiro, history')
  <2>1. c \in BOOLEAN /\ aux' = [aux EXCEPT !.cut = c] BY <1>3
  <2>2. aux \in [since: Nat, narrated: Nat, fired: SUBSET Nat, cut: BOOLEAN] BY <1>1 DEF Ghost, TypeOK
  <2> HIDE DEF c
  <2>3. /\ aux'.since = aux.since /\ aux'.narrated = aux.narrated /\ aux'.fired = aux.fired
        /\ aux'.cut = c /\ aux' \in Ghost
    BY <2>1, <2>2 DEF Ghost
  <2> QED BY <2>3 DEF c
<1> HIDE DEF n, d
<1>5. TypeOK'
  BY <1>1, <1>2, <1>3, <1>4, CapAssumption DEF TypeOK
<1>6. DirectionsSound'
  <2>1. Direction(tick', roteiro', aux')
    BY <1>1, <1>3, <1>4 DEF DirectionsSound, Direction, DeadlineSound
  <2>2. \A i \in 1..n - d : Direction(history'[i].tick, history'[i].roteiro, history'[i].aux)
    BY <1>1, <1>2 DEF DirectionsSound
  <2> QED BY <1>2, <2>1, <2>2 DEF DirectionsSound, Direction, DeadlineSound
<1>7. ClockOrder'
  <2>1. \A i \in 1..n - d : history'[i].tick <= tick' BY <1>1, <1>2, <1>3 DEF ClockOrder
  <2>2. \A i, j \in 1..n - d : i <= j => history'[i].tick <= history'[j].tick
    <3> SUFFICES ASSUME NEW i \in 1..n - d, NEW j \in 1..n - d, i <= j
                 PROVE  history'[i].tick <= history'[j].tick
      OBVIOUS
    <3>1. i + d \in 1..n /\ j + d \in 1..n /\ i + d <= j + d BY <1>2
    <3> QED BY <1>1, <1>2, <3>1 DEF ClockOrder
  <2> QED BY <1>2, <2>1, <2>2 DEF ClockOrder
<1>8. /\ history \in Seq(Turn)
      /\ \A i \in 1..n : history[i].turn \in Nat /\ history[i].turn = history[1].turn + i - 1
  BY <1>1, <1>2, HistoryFacts DEF TurnOrder, n
<1>9. 1 \in 1..n /\ 1 \in 1..n - d /\ 1 + d \in 1..n /\ history'[1] = history[1 + d]
  BY <1>2
<1>10. TurnOrder'
  <2>1. \A i \in 1..n - d : history'[i].turn = history'[1].turn + i - 1
    <3> SUFFICES ASSUME NEW i \in 1..n - d PROVE history'[i].turn = history'[1].turn + i - 1 OBVIOUS
    <3>1. i + d \in 1..n /\ history'[i] = history[i + d] BY <1>2
    <3>2. /\ history[i + d].turn = history[1].turn + (i + d) - 1
          /\ history[1 + d].turn = history[1].turn + (1 + d) - 1
          /\ history[1].turn \in Nat
      BY <1>8, <1>9, <3>1
    <3> QED BY <1>2, <1>9, <3>1, <3>2
  <2> QED BY <1>2, <1>3, <2>1 DEF TurnOrder
<1>11. next_turn_number(history') = next_turn_number(history)
  <2>1. n - d \in 1..n - d /\ (n - d) + d = n BY <1>2
  <2>2. history'[n - d] = history[n] BY <1>2, <2>1
  <2>3. history' # <<>> /\ history # <<>> BY <1>2, <1>9
  <2> QED BY <1>2, <2>2, <2>3 DEF next_turn_number, n
<1>12. ASSUME roteiro # NoRoteiro, ~aux'.cut
       PROVE  /\ aux.narrated <= HARD_BEAT_TURN_CAP
              /\ roteiro.beat_started_turn <= next_turn_number(history)
              /\ aux.narrated = Cardinality(Told(roteiro, history'))
  <2>1. ~aux.cut /\ ~Cut(roteiro, history') BY <1>4, <1>12
  <2>2. roteiro \in RoteiroType BY <1>1, <1>12 DEF TypeOK
  <2>3. history'[1].turn <= roteiro.beat_started_turn
    <3>1. ~(history'[1].turn > roteiro.beat_started_turn) BY <1>12, <2>1 DEF Cut
    <3>2. history'[1].turn \in Nat BY <1>8, <1>9
    <3>3. roteiro.beat_started_turn \in Nat BY <2>2 DEF RoteiroType
    <3> QED BY <3>1, <3>2, <3>3
  <2>4. Consecutive(history) BY <1>2, <1>8 DEF Consecutive
  <2>5. Told(roteiro, history') = Told(roteiro, history)
    BY <1>2, <1>8, <2>2, <2>3, <2>4, ToldSuffix
  <2> QED BY <1>1, <1>12, <2>1, <2>5 DEF BeatsCounted, BeatCount
<1>13. ASSUME NEW i \in 1..n - d
       PROVE  BeatCount(history[i].roteiro, history[i].aux, Prefix(history, i), history[i].turn)'
  <2> DEFINE e == history[i + d]
             r == e.roteiro
             p == Prefix(history, i + d)
             q == Prefix(history', i)
  <2>1. i + d \in 1..n /\ history'[i] = e BY <1>2
  <2>2. BeatCount(r, e.aux, p, e.turn) BY <1>1, <1>2, <2>1 DEF BeatsCounted
  <2>3. r \in RoteiroType \cup {NoRoteiro} BY <1>1, <2>1, HistoryFacts DEF n
  <2>4. /\ p \in Seq(Turn) /\ Len(p) = (i + d) - 1 /\ DOMAIN p = 1..(i + d) - 1
        /\ \A k \in 1..(i + d) - 1 : p[k] = history[k]
    BY <1>8, <2>1, PrefixFacts DEF n
  <2>5. /\ q \in Seq(Turn) /\ Len(q) = i - 1 /\ DOMAIN q = 1..i - 1
        /\ \A k \in 1..i - 1 : q[k] = history'[k]
        /\ q = <<>> <=> i = 1
    BY <1>2, PrefixFacts
  <2> HIDE DEF e, r, p, q
  <2>6. ASSUME r # NoRoteiro, ~Cut(r, q), ~e.aux.cut
        PROVE  e.aux.narrated = Cardinality(Told(r, q))
    <3>1. r \in RoteiroType BY <2>3, <2>6
    <3>2. i # 1 /\ 1 \in 1..i - 1 /\ q[1] = history[1 + d]
      <4>1. i # 1 BY <2>5, <2>6 DEF Cut
      <4>2. 1 \in 1..i - 1 BY <1>2, <4>1
      <4> QED BY <1>9, <2>5, <4>1, <4>2
    <3>3. q[1].turn <= r.beat_started_turn
      <4>1. ~(q[1].turn > r.beat_started_turn) BY <2>6 DEF Cut
      <4>2. q[1].turn \in Nat BY <1>8, <1>9, <3>2
      <4>3. r.beat_started_turn \in Nat BY <3>1 DEF RoteiroType
      <4> QED BY <4>1, <4>2, <4>3
    <3>4. p[1] = history[1] /\ p # <<>>
      <4>1. 1 \in 1..(i + d) - 1 BY <1>2, <3>2
      <4> QED BY <2>4, <4>1
    <3>5. ~Cut(r, p)
      <4>1. history[1 + d].turn = history[1].turn + (1 + d) - 1 /\ history[1].turn \in Nat
        BY <1>8, <1>9
      <4>2. history[1].turn <= history[1 + d].turn /\ history[1 + d].turn \in Nat
        BY <1>2, <4>1
      <4>3. r.beat_started_turn \in Nat BY <3>1 DEF RoteiroType
      <4>4. p[1].turn <= r.beat_started_turn BY <3>2, <3>3, <3>4, <4>1, <4>2, <4>3
      <4>5. p[1].turn \in Nat BY <3>4, <4>1
      <4> QED BY <3>4, <4>3, <4>4, <4>5 DEF Cut
    <3>6. e.aux.narrated = Cardinality(Told(r, p)) BY <2>2, <2>6, <3>5 DEF BeatCount
    <3>7. Suffix(q, p, d)
      <4>1. d \in Nat /\ d < Len(p) /\ Len(q) = Len(p) - d /\ Len(p) - d = i - 1 BY <1>2, <2>4, <2>5, <3>2
      <4>2. \A k \in 1..i - 1 : k + d \in 1..(i + d) - 1 /\ k \in 1..n - d BY <1>2
      <4>3. \A k \in 1..i - 1 : q[k] = p[k + d] BY <1>2, <2>4, <2>5, <4>2
      <4> QED BY <4>1, <4>3 DEF Suffix
    <3>8. Consecutive(p)
      <4>1. \A k \in 1..(i + d) - 1 : k \in 1..n BY <1>2, <2>1
      <4> QED BY <1>8, <2>4, <3>4, <4>1 DEF Consecutive
    <3>9. Told(r, q) = Told(r, p) BY <2>4, <2>5, <3>1, <3>3, <3>7, <3>8, ToldSuffix
    <3> QED BY <3>6, <3>9
  <2>7. /\ r = NoRoteiro => e.aux.narrated = 0
        /\ r # NoRoteiro => r.cooldown_until_turn <= r.beat_started_turn + COOLDOWN_TURNS
        /\ r # NoRoteiro /\ ~e.aux.cut => e.aux.narrated <= HARD_BEAT_TURN_CAP /\ r.beat_started_turn <= e.turn
    BY <2>2 DEF BeatCount
  <2> QED BY <1>3, <2>1, <2>6, <2>7 DEF BeatCount, e, r, p, q
<1>14. BeatsCounted'
  <2>1. roteiro = NoRoteiro => aux'.narrated = 0 BY <1>1, <1>4 DEF BeatsCounted, BeatCount
  <2>2. roteiro # NoRoteiro => roteiro.cooldown_until_turn <= roteiro.beat_started_turn + COOLDOWN_TURNS
    BY <1>1 DEF BeatsCounted, BeatCount
  <2> QED BY <1>2, <1>3, <1>4, <1>11, <1>12, <1>13, <2>1, <2>2 DEF BeatsCounted, BeatCount
<1> QED BY <1>5, <1>6, <1>7, <1>10, <1>14 DEF RoteiroInv

-----------------------------------------------------------------------------
(* The theorems *)

LEMMA RoteiroInit ==
  ASSUME Init
  PROVE  RoteiroInv
<1>1. /\ tick = 0 /\ history = <<>> /\ roteiro = NoRoteiro /\ compacted = FALSE /\ burst = 0
      /\ aux = [since |-> 0, narrated |-> 0, fired |-> {}, cut |-> FALSE]
  BY DEF Init
<1>2. DOMAIN history = {} /\ history \in Seq(Turn) BY <1>1
<1>3. TypeOK
  <2>1. aux \in Ghost BY <1>1 DEF Ghost
  <2>2. burst \in 0..BurstMaxBeats BY <1>1, CapAssumption
  <2> QED BY <1>1, <1>2, <2>1, <2>2 DEF TypeOK
<1>4. DirectionsSound BY <1>1, <1>2 DEF DirectionsSound, Direction
<1>5. ClockOrder /\ TurnOrder BY <1>1, <1>2 DEF ClockOrder, TurnOrder
<1>6. BeatsCounted BY <1>1, <1>2 DEF BeatsCounted, BeatCount
<1> QED BY <1>3, <1>4, <1>5, <1>6 DEF RoteiroInv

\* Whatever the architect answers, whatever is undone or compacted, and for every
\* value of the caps: the direction that stands and every direction a stamp holds
\* are ones the code could have reached, at their clock and over their history.
THEOREM RoteiroInvariant == Spec => []RoteiroInv
<1>1. Init => RoteiroInv BY RoteiroInit
<1>2. RoteiroInv /\ [Next]_vars => RoteiroInv'
  <2> SUFFICES ASSUME RoteiroInv, [Next]_vars PROVE RoteiroInv' OBVIOUS
  <2>1. ASSUME NEW beat \in Beats, NEW reply \in Replies, NEW first_beat \in BOOLEAN,
               CommitBeat(beat, reply, first_beat)
        PROVE  RoteiroInv'
    BY <2>1, CommitKeeps
  <2>2. CASE UndoTurn BY <2>2, UndoKeeps
  <2>3. CASE CompactHistory BY <2>3, CompactKeeps
  <2>4. CASE UNCHANGED vars
    BY <2>4 DEF vars, RoteiroInv, TypeOK, DirectionsSound, ClockOrder, TurnOrder, BeatsCounted,
                Direction, DeadlineSound, BeatCount
  <2> QED BY <2>1, <2>2, <2>3, <2>4 DEF Next
<1> QED BY <1>1, <1>2, PTL DEF Spec

\* The index of the current act never passes the end of the skeleton, and the
\* other parts of the direction have their types.
THEOREM RoteiroTypes == Spec => []TypeOK
<1>1. RoteiroInv => TypeOK BY DEF RoteiroInv
<1> QED BY <1>1, RoteiroInvariant, PTL

\* No deadline comes round again, the terminal act's included.
THEOREM DeadlinesAreOver == Spec => []FiredActsAreOver
<1>1. RoteiroInv => FiredActsAreOver
  BY DEF RoteiroInv, DirectionsSound, Direction, DeadlineSound, FiredActsAreOver
<1> QED BY <1>1, RoteiroInvariant, PTL

\* No replan, undo or compaction puts an act's deadline off.
THEOREM NoDeadlineIsPutOff == Spec => []WorldNeverWaits
<1>1. RoteiroInv => WorldNeverWaits
  BY DEF RoteiroInv, DirectionsSound, Direction, DeadlineSound, WorldNeverWaits
<1> QED BY <1>1, RoteiroInvariant, PTL

\* No beat whose turns are in the history outstays the cap, for every cap and
\* every retained window.
THEOREM BeatsEnd == Spec => []BeatTurnCeiling
<1>1. RoteiroInv => BeatTurnCeiling
  <2> SUFFICES ASSUME RoteiroInv PROVE BeatTurnCeiling OBVIOUS
  <2>1. HARD_BEAT_TURN_CAP \in Nat BY CapAssumption
  <2> QED BY <2>1 DEF RoteiroInv, BeatsCounted, BeatCount, BeatTurnCeiling
<1> QED BY <1>1, RoteiroInvariant, PTL

\* No beat rewrites or returns to an act that has been played.
THEOREM PlayedStays == Spec => PlayedActsStay
<1> DEFINE Stays ==
      tick' > tick /\ roteiro # NoRoteiro =>
         /\ roteiro'.act_index >= roteiro.act_index
         /\ \A i \in 1..roteiro.act_index + 1 :
              i <= Len(roteiro.acts) => /\ i <= Len(roteiro'.acts)
                                        /\ roteiro'.acts[i] = roteiro.acts[i]
<1>1. RoteiroInv /\ [Next]_vars => [Stays]_vars
  <2> SUFFICES ASSUME RoteiroInv, Next, tick' > tick, roteiro # NoRoteiro
               PROVE  /\ roteiro'.act_index >= roteiro.act_index
                      /\ PlayedKept(roteiro, roteiro')
    BY DEF PlayedKept
  <2>1. TypeOK /\ ClockOrder BY DEF RoteiroInv
  <2>2. tick \in Nat BY <2>1 DEF TypeOK
  <2>3. ASSUME NEW beat \in Beats, NEW reply \in Replies, NEW first_beat \in BOOLEAN,
               CommitBeat(beat, reply, first_beat)
        PROVE  Succeeds(roteiro, roteiro')
    <3>1. PICK h : \E narrated \in BOOLEAN : Played(h, first_beat, reply, narrated)
      BY <2>1, <2>3, CommitShape
    <3> QED BY <2>1, <3>1, PlayedDirection
  <2>4. ~UndoTurn
    <3> SUFFICES ASSUME UndoTurn PROVE FALSE OBVIOUS
    <3>1. tick' = history[Len(history)].tick BY DEF UndoTurn
    <3>2. history # <<>> /\ history \in Seq(Turn) BY <2>1 DEF UndoTurn, TypeOK
    <3>3. Len(history) \in DOMAIN history BY <3>2
    <3>4. tick' <= tick /\ tick' \in Nat BY <2>1, <3>1, <3>3, HistoryFacts DEF ClockOrder
    <3> QED BY <2>2, <3>4
  <2>5. ~CompactHistory BY <2>2 DEF CompactHistory
  <2>6. Succeeds(roteiro, roteiro') BY <2>3, <2>4, <2>5 DEF Next
  <2>7. roteiro.act_index \in Nat
    <3>1. roteiro \in RoteiroType BY <2>1 DEF TypeOK
    <3> QED BY <3>1 DEF RoteiroType
  <2> QED BY <2>6, <2>7 DEF Succeeds
<1> QED BY <1>1, RoteiroInvariant, PTL DEF Spec, PlayedActsStay
=============================================================================
