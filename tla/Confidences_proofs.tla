------------------------- MODULE Confidences_proofs -------------------------
(***************************************************************************)
(* A confidence reaches nobody it was not told to, over the paths the code  *)
(* guards: for any cast, any words, any zones and any number of replies in  *)
(* a turn, whatever the Director and the characters make of what they read. *)
(***************************************************************************)
EXTENDS Confidences, TLAPS

-----------------------------------------------------------------------------
(* The inductive invariant *)

Listening == Cast \ {Controlled}

ConfidenceTypes ==
    /\ DOMAIN scene = {"present", "zones", "hears", "positions", "facts"}
    /\ scene.present = Cast /\ scene.facts \subseteq Words
    /\ \A rec \in history : /\ rec.words \subseteq Words
                            /\ rec.audience \in (SUBSET Cast) \cup {Everyone}
                            /\ rec.type = "thought" => rec.speaker = Player
    /\ story \subseteq Words
    /\ knows \in [Cast -> SUBSET Words]
    /\ stage = "answer" => reply.speaker \in Listening
    /\ DOMAIN reply = {"speaker", "attempt", "done"}
    /\ turn \in (SUBSET Cast) \cup {Everyone}
    /\ event.words \subseteq Words /\ event.witnesses \subseteq Cast
    /\ moods \in [Cast -> SUBSET Words]
    /\ DOMAIN beat = {"skip", "moods"} /\ beat.skip \subseteq Words /\ beat.moods \in [Cast -> SUBSET Words]
    /\ aux_told \in [Words -> SUBSET Cast]

\* No prompt, no record and no fact has shown a word to anyone who was not let in
\* on it, and no mood will.
ShownToTold ==
    /\ \A c \in Listening : \A w \in knows[c] : c \in aux_told[w]
    /\ \A c \in Listening : \A w \in moods[c] \cup beat.moods[c] : c \in aux_told[w]
    /\ \A rec \in history, c \in Listening :
          rec.type # "thought" /\ record_visible_to(rec, c) => \A w \in rec.words : c \in aux_told[w]
    /\ \A w \in scene.facts : Listening \subseteq aux_told[w]

\* What anybody reads beside thoughts.
Felt == UNION {moods[c] \cup beat.moods[c] : c \in Cast}
Uttered ==
    WordsOf({rec \in history : rec.type # "thought"}) \cup scene.facts \cup story
        \cup event.words \cup beat.skip \cup Felt

\* A word that is kept from someone stands in a whisper they did not hear ...
KeptByAWhisper ==
    \A w \in Uttered, c \in Listening : c \notin aux_told[w] =>
        \E rec \in Whispers(history) : w \in rec.words /\ ~record_visible_to(rec, c)

\* ... and in one by the human that each of those who were let in did hear.
ConfidedByAWhisper ==
    \A w \in Words, s \in Listening, c \in Listening : s \in aux_told[w] /\ c \notin aux_told[w] =>
        \E rec \in Whispers(history) :
            /\ w \in rec.words /\ rec.speaker = Player
            /\ s \in rec.audience /\ c \notin rec.audience

ConfidenceInv ==
    /\ ConfidenceTypes
    /\ ~aux_unguarded => ShownToTold /\ KeptByAWhisper /\ ConfidedByAWhisper

Guarded == ShownToTold /\ KeptByAWhisper /\ ConfidedByAWhisper

-----------------------------------------------------------------------------
(* What the guards keep *)

LEMMA InWords ==
    ASSUME NEW records, NEW w
    PROVE  w \in WordsOf(records) <=> \E rec \in records : w \in rec.words
BY DEF WordsOf

LEMMA InWhispers ==
    ASSUME NEW records, NEW rec
    PROVE  rec \in Whispers(records) <=>
              rec \in records /\ rec.audience # Everyone /\ rec.origin = "whisper" /\ rec.type # "thought"
BY DEF Whispers

LEMMA InUttered ==
    ASSUME NEW w
    PROVE  w \in Uttered <=> \/ \E rec \in history : rec.type # "thought" /\ w \in rec.words
                             \/ w \in scene.facts \/ w \in story \/ w \in event.words
                             \/ w \in beat.skip \/ w \in Felt
BY InWords DEF Uttered

LEMMA FeltWords == ASSUME ConfidenceTypes PROVE Felt \subseteq Words
BY DEF Felt, ConfidenceTypes

LEMMA UtteredWords == ASSUME ConfidenceTypes PROVE Uttered \subseteq Words
BY InUttered, FeltWords DEF ConfidenceTypes

\* What a prompt shows a listener was told to it.
LEMMA VisibleToTold ==
    ASSUME ConfidenceTypes, ShownToTold, NEW c \in Listening, NEW w \in WordsOf(Visible(history, c))
    PROVE  c \in aux_told[w] /\ w \in Words
<1>1. PICK rec \in Visible(history, c) : w \in rec.words
  BY InWords
<1>2. rec \in history /\ IF rec.type = "thought" THEN rec.speaker = c ELSE record_visible_to(rec, c)
  BY <1>1 DEF Visible
<1>3. rec.type # "thought"
  BY <1>2, PerceptionAssumption DEF ConfidenceTypes, Listening
<1>. QED  BY <1>1, <1>2, <1>3 DEF ShownToTold, ConfidenceTypes

LEMMA KnownToTold ==
    ASSUME ConfidenceTypes, ShownToTold, NEW c \in Listening, NEW w \in known_tokens(history, c, scene)
    PROVE  c \in aux_told[w]
BY VisibleToTold DEF known_tokens, ShownToTold

\* The guards on what a listener is shown hold back every word it was not let in on ...
LEMMA HiddenFrom ==
    ASSUME ConfidenceTypes, Guarded, NEW c \in Listening, NEW w \in Uttered, c \notin aux_told[w]
    PROVE  w \in hidden_whisper_tokens(history, c, scene)
<1>1. PICK rec \in Whispers(history) : w \in rec.words /\ ~record_visible_to(rec, c)
  BY DEF Guarded, KeptByAWhisper
<1>2. w \in WordsOf({r \in Whispers(history) : ~record_visible_to(r, c)})
  BY <1>1, InWords
<1>3. w \notin known_tokens(history, c, scene)
  BY KnownToTold DEF Guarded
<1>. QED  BY <1>2, <1>3 DEF hidden_whisper_tokens

\* ... and so does the one on what a confidant says before others.
LEMMA SecretBefore ==
    ASSUME ConfidenceTypes, Guarded, NEW s \in Listening, NEW exposed, NEW c \in exposed, c \in Listening,
           NEW w \in Words, s \in aux_told[w], c \notin aux_told[w]
    PROVE  w \in secret_tokens_exposed_to(history, s, exposed, scene)
<1>1. PICK rec \in Whispers(history) : /\ w \in rec.words /\ rec.speaker = Player
                                       /\ s \in rec.audience /\ c \notin rec.audience
  BY DEF Guarded, ConfidedByAWhisper
<1>2. record_visible_to(rec, s)
  BY <1>1 DEF record_visible_to
<1>3. c \notin Cover(rec)
  BY <1>1 DEF Cover, Listening
<1>. DEFINE confidential == {r \in Whispers(history) :
                                record_visible_to(r, s) /\ ~(exposed \subseteq Cover(r))}
<1>4. w \in WordsOf(confidential)
  <2>1. rec \in confidential
    BY <1>1, <1>2, <1>3
  <2>. QED  BY <1>1, <2>1, InWords
<1>5. w \notin {v \in Words : \A d \in exposed : v \in known_tokens(history, d, scene)}
  BY KnownToTold DEF Guarded
<1>. QED  BY <1>4, <1>5 DEF secret_tokens_exposed_to

-----------------------------------------------------------------------------
(* New records *)

\* Lines of words that were uttered, or told to a listener, may be added where all
\* who hear them were let in on every word.
LEMMA LinesAdded ==
    ASSUME ConfidenceTypes, Guarded, NEW added,
           \A rec \in added :
              /\ rec.type # "thought" /\ rec.words \subseteq Words
              /\ rec.audience \in (SUBSET Cast) \cup {Everyone}
              /\ \A w \in rec.words :
                    /\ w \in Uttered \/ \E s \in Listening : s \in aux_told[w]
                    /\ \A c \in Listening : record_visible_to(rec, c) => c \in aux_told[w],
           history' = history \cup added,
           UNCHANGED <<scene, story, knows, aux_told>>,
           event' = event \/ event' = NoEvent,
           moods' = moods \/ moods' = beat.moods,
           beat' = beat \/ beat' = [beat EXCEPT !.skip = {}]
    PROVE  /\ Guarded'
           /\ \A rec \in history' : /\ rec.words \subseteq Words
                                    /\ rec.audience \in (SUBSET Cast) \cup {Everyone}
                                    /\ rec.type = "thought" => rec.speaker = Player
<1>1. \A rec \in history' : /\ rec.words \subseteq Words
                            /\ rec.audience \in (SUBSET Cast) \cup {Everyone}
                            /\ rec.type = "thought" => rec.speaker = Player
  BY DEF ConfidenceTypes
<1>a. beat'.skip \subseteq beat.skip /\ beat'.moods = beat.moods
  BY DEF ConfidenceTypes
<1>b. Felt' \subseteq Felt
  BY <1>a DEF Felt
<1>2. ShownToTold'
  <2>0. \A c \in Listening : \A w \in moods'[c] \cup beat'.moods[c] : c \in aux_told[w]
    BY <1>a DEF Guarded, ShownToTold
  <2>1. ASSUME NEW rec \in history', NEW c \in Listening, rec.type # "thought", record_visible_to(rec, c),
               NEW w \in rec.words
        PROVE  c \in aux_told[w]
    <3>1. CASE rec \in history
      BY <2>1, <3>1 DEF Guarded, ShownToTold
    <3>2. CASE rec \in added
      BY <2>1, <3>2
    <3>. QED  BY <3>1, <3>2
  <2>. QED  BY <2>0, <2>1 DEF Guarded, ShownToTold, record_visible_to
<1>3. \A rec \in Whispers(history) : rec \in Whispers(history')
  BY InWhispers
<1>4. \A w \in Uttered' : w \in Uttered \/ \E s \in Listening : s \in aux_told[w]
  <2>. SUFFICES ASSUME NEW w \in Uttered' PROVE w \in Uttered \/ \E s \in Listening : s \in aux_told[w]
    OBVIOUS
  <2>1. \/ \E rec \in history' : rec.type # "thought" /\ w \in rec.words
        \/ w \in scene.facts \/ w \in story \/ w \in event'.words \/ w \in beat'.skip \/ w \in Felt'
    BY InWords DEF Uttered
  <2>2. event'.words \subseteq event.words
    BY DEF NoEvent
  <2>. QED  BY <1>a, <1>b, <2>1, <2>2, InUttered
<1>5. KeptByAWhisper'
  <2>. SUFFICES ASSUME NEW w \in Uttered', NEW c \in Listening, c \notin aux_told[w]
                PROVE  \E rec \in Whispers(history) : w \in rec.words /\ ~record_visible_to(rec, c)
    BY <1>3 DEF KeptByAWhisper, record_visible_to
  <2>1. CASE w \in Uttered
    BY <2>1 DEF Guarded, KeptByAWhisper
  <2>2. ASSUME NEW s \in Listening, s \in aux_told[w]
        PROVE  \E rec \in Whispers(history) : w \in rec.words /\ ~record_visible_to(rec, c)
    <3>1. w \in Words
      <4>1. w \in Uttered => w \in Words
        BY UtteredWords
      <4>2. w \in scene.facts \/ w \in story \/ w \in event'.words \/ w \in beat'.skip \/ w \in Felt'
               => w \in Uttered
        <5>1. event'.words \subseteq event.words
          BY DEF NoEvent
        <5>. QED  BY <1>a, <1>b, <5>1, InUttered
      <4>3. \/ \E rec \in history' : rec.type # "thought" /\ w \in rec.words
            \/ w \in scene.facts \/ w \in story \/ w \in event'.words \/ w \in beat'.skip \/ w \in Felt'
        BY InWords DEF Uttered
      <4>. QED  BY <1>1, <4>1, <4>2, <4>3
    <3>2. PICK rec \in Whispers(history) : w \in rec.words /\ rec.speaker = Player /\ c \notin rec.audience
      BY <2>2, <3>1 DEF Guarded, ConfidedByAWhisper
    <3>3. ~record_visible_to(rec, c)
      BY <3>2, InWhispers, PerceptionAssumption DEF record_visible_to, Listening
    <3>. QED  BY <3>2, <3>3
  <2>. QED  BY <1>4, <2>1, <2>2
<1>6. ConfidedByAWhisper'
  BY <1>3 DEF Guarded, ConfidedByAWhisper
<1>. QED  BY <1>1, <1>2, <1>5, <1>6 DEF Guarded

\* A line as it is recorded.
LEMMA LineFields ==
    ASSUME NEW speaker, NEW type, NEW words, NEW audience
    PROVE  /\ Line(speaker, type, words, audience).speaker = speaker
           /\ Line(speaker, type, words, audience).type = type
           /\ Line(speaker, type, words, audience).words = words
           /\ Line(speaker, type, words, audience).origin = IF audience = Everyone THEN "zone" ELSE "whisper"
BY DEF Line

\* A character's line reaches those its zone or its audience has, and nobody else.
LEMMA Reached ==
    ASSUME scene.present = Cast, NEW s \in Cast, s # Player,
           NEW audience \in (SUBSET Cast) \cup {Everyone}, NEW words
    PROVE  LET rec == Line(s, "speech", words, audience)
               exposed == (IF audience # Everyone THEN audience ELSE eligible_witnesses(scene, s)) \ {s}
           IN  /\ rec.audience \in (SUBSET Cast) \cup {Everyone}
               /\ \A c \in Cast : record_visible_to(rec, c) => c = s \/ c \in exposed
<1>. DEFINE rec == Line(s, "speech", words, audience)
            exposed == (IF audience # Everyone THEN audience ELSE eligible_witnesses(scene, s)) \ {s}
<1>1. rec.audience = Audience(scene, s, audience) /\ rec.speaker = s
  BY DEF Line
<1>2. eligible_witnesses(scene, s) \subseteq Cast \ {s}
  BY DEF eligible_witnesses
<1>3. rec.audience \in (SUBSET Cast) \cup {Everyone}
  BY <1>1, <1>2 DEF Audience
<1>4. ASSUME NEW c \in Cast, record_visible_to(rec, c), c # s PROVE c \in exposed
  <2>1. rec.audience = Everyone \/ c \in rec.audience
    BY <1>1, <1>4 DEF record_visible_to
  <2>2. CASE scene.zones = {}
    <3>1. c \in eligible_witnesses(scene, s)
      BY <1>4, <2>2 DEF eligible_witnesses, can_perceive
    <3>2. rec.audience = audience
      BY <1>1, <2>2 DEF Audience
    <3>. QED  BY <1>4, <2>1, <3>1, <3>2
  <2>3. CASE scene.zones # {} /\ audience # Everyone
    <3>1. rec.audience = audience \cap (eligible_witnesses(scene, s) \cup {s})
      BY <1>1, <2>3 DEF Audience
    <3>2. rec.audience # Everyone
      BY <3>1, <2>3, PerceptionAssumption
    <3>. QED  BY <1>4, <2>1, <2>3, <3>1, <3>2
  <2>4. CASE scene.zones # {} /\ audience = Everyone
    <3>1. rec.audience = IF eligible_witnesses(scene, s) = Cast \ {s} THEN Everyone
                         ELSE eligible_witnesses(scene, s)
      BY <1>1, <2>4 DEF Audience
    <3>2. c \in eligible_witnesses(scene, s)
      BY <1>2, <1>4, <2>1, <3>1, PerceptionAssumption
    <3>. QED  BY <1>4, <2>4, <3>2
  <2>. QED  BY <2>2, <2>3, <2>4
<1>. QED  BY <1>3, <1>4

-----------------------------------------------------------------------------
(* The human's move *)

LEMMA PlayerMoves ==
    ASSUME ConfidenceInv, PlayerMove
    PROVE  ConfidenceTypes' /\ (Guarded => Guarded')
<1>. USE DEF ConfidenceInv
<1>0. PICK type \in {"speech", "thought"}, words \in SUBSET Words : \E audience \in ValidAudiences(type) :
         LET rec == Line(Player, type, words, audience)
         IN  /\ history' = history \cup Telling({rec})
             /\ aux_told' = [w \in Words |-> LetIn(rec, w)]
             /\ turn' = audience
  BY DEF PlayerMove
<1>1. PICK audience \in ValidAudiences(type) :
         LET rec == Line(Player, type, words, audience)
         IN  /\ history' = history \cup Telling({rec})
             /\ aux_told' = [w \in Words |-> LetIn(rec, w)]
             /\ turn' = audience
  BY <1>0
<1>. DEFINE rec == Line(Player, type, words, audience)
<1>2. UNCHANGED <<scene, story, knows, moods, event, beat, reply>> /\ stage' = "direct"
  BY DEF PlayerMove
<1>3. audience \in (SUBSET Cast) \cup {Everyone} /\ (type = "thought" => audience = Everyone)
  BY DEF ValidAudiences, ConfidenceTypes
<1>4. /\ rec.speaker = Player /\ rec.type = type /\ rec.words = words
      /\ rec.origin = IF audience = Everyone THEN "zone" ELSE "whisper"
  BY LineFields
<1>5. /\ rec.audience \in (SUBSET Cast) \cup {Everyone}
      /\ audience # Everyone => rec.audience \in SUBSET Cast
  <2>1. rec.audience = IF type = "thought" THEN audience ELSE Audience(scene, Controlled, audience)
    BY DEF Line
  <2>2. eligible_witnesses(scene, Controlled) \subseteq Cast
    BY DEF eligible_witnesses, ConfidenceTypes
  <2>3. Controlled \in Cast
    BY PerceptionAssumption
  <2>. QED  BY <1>3, <2>1, <2>2, <2>3 DEF Audience
<1>. HIDE DEF rec
<1>6. \A w \in Words : /\ LetIn(rec, w) \in SUBSET Cast /\ aux_told[w] \subseteq LetIn(rec, w)
                       /\ w \in rec.words /\ type = "speech" =>
                             \/ audience = Everyone /\ LetIn(rec, w) = Cast
                             \/ audience # Everyone /\ LetIn(rec, w) = aux_told[w] \cup rec.audience
                       /\ LetIn(rec, w) # aux_told[w] => w \in rec.words /\ type = "speech"
  BY <1>3, <1>4, <1>5 DEF LetIn, ConfidenceTypes
<1>7. \A w \in Words : aux_told'[w] = LetIn(rec, w)
  BY <1>1 DEF rec
<1>8. \A r : r \in history' <=> r \in history \/ (r = rec /\ rec.words # {})
  BY <1>1 DEF Telling, rec
<1>9. ConfidenceTypes'
  <2>1. aux_told' \in [Words -> SUBSET Cast]
    BY <1>1, <1>6 DEF rec
  <2>2. ASSUME NEW r \in history'
        PROVE  /\ r.words \subseteq Words
               /\ r.audience \in (SUBSET Cast) \cup {Everyone}
               /\ r.type = "thought" => r.speaker = Player
    BY <1>4, <1>5, <1>8 DEF ConfidenceTypes
  <2>. QED  BY <1>1, <1>2, <1>3, <2>1, <2>2 DEF ConfidenceTypes
<1>10. ASSUME Guarded PROVE Guarded'
  <2>1. \A r \in Whispers(history) : r \in Whispers(history')
    BY <1>8, InWhispers
  <2>2. type = "speech" /\ audience # Everyone /\ rec.words # {} =>
           rec \in Whispers(history') /\ \A c \in Listening \ rec.audience : ~record_visible_to(rec, c)
    <3>1. audience # Everyone => rec.audience # Everyone
      BY <1>5, PerceptionAssumption
    <3>. QED  BY <1>4, <1>8, <3>1, InWhispers, PerceptionAssumption DEF record_visible_to, Listening
  <2>3. ShownToTold'
    <3>1. ASSUME NEW c \in Listening, NEW w \in knows[c] PROVE c \in aux_told'[w]
      <4>1. w \in Words
        BY <3>1 DEF ConfidenceTypes, Listening
      <4>. QED  BY <1>6, <1>7, <1>10, <3>1, <4>1 DEF Guarded, ShownToTold
    <3>2. ASSUME NEW w \in scene.facts PROVE Listening \subseteq aux_told'[w]
      <4>1. w \in Words
        BY <3>2 DEF ConfidenceTypes
      <4>. QED  BY <1>6, <1>7, <1>10, <3>2, <4>1 DEF Guarded, ShownToTold
    <3>3. ASSUME NEW r \in history', NEW c \in Listening, r.type # "thought", record_visible_to(r, c),
                 NEW w \in r.words
          PROVE  c \in aux_told'[w]
      <4>1. CASE r \in history
        <5>1. w \in Words /\ c \in aux_told[w]
          BY <1>10, <3>3, <4>1 DEF ConfidenceTypes, Guarded, ShownToTold
        <5>. QED  BY <1>6, <1>7, <5>1
      <4>2. CASE r = rec /\ rec.words # {}
        <5>1. type = "speech" /\ w \in Words /\ c \in Cast
          BY <1>4, <3>3, <4>2 DEF Listening
        <5>2. audience # Everyone => c \in rec.audience
          BY <2>2, <3>3, <4>2, <5>1
        <5>. QED  BY <1>6, <1>7, <3>3, <4>2, <5>1, <5>2
      <4>. QED  BY <1>8, <3>3, <4>1, <4>2
    <3>0. ASSUME NEW c \in Listening, NEW w \in moods[c] \cup beat.moods[c] PROVE c \in aux_told'[w]
      <4>1. w \in Words
        BY <3>0 DEF ConfidenceTypes, Listening
      <4>. QED  BY <1>6, <1>7, <1>10, <3>0, <4>1 DEF Guarded, ShownToTold
    <3>4. /\ \A c \in Listening : \A w \in knows'[c] : c \in aux_told'[w]
          /\ \A c \in Listening : \A w \in moods'[c] \cup beat'.moods[c] : c \in aux_told'[w]
      BY <1>2, <3>0, <3>1
    <3>5. \A w \in scene'.facts : Listening \subseteq aux_told'[w]
      BY <1>2, <3>2
    <3>. QED  BY <3>3, <3>4, <3>5 DEF ShownToTold, record_visible_to
  <2>4. KeptByAWhisper'
    <3>. SUFFICES ASSUME NEW w \in Uttered', NEW c \in Listening, c \notin aux_told'[w]
                  PROVE  \E r \in Whispers(history') : w \in r.words /\ ~record_visible_to(r, c)
      BY DEF KeptByAWhisper, record_visible_to
    <3>1. \/ \E r \in history' : r.type # "thought" /\ w \in r.words
          \/ w \in scene.facts \/ w \in story \/ w \in event.words \/ w \in beat.skip \/ w \in Felt
      BY <1>2, InWords DEF Uttered, Felt
    <3>2. CASE w \in Uttered
      <4>1. w \in Words
        BY <3>2, UtteredWords
      <4>2. c \notin aux_told[w]
        BY <1>6, <1>7, <4>1
      <4>. QED  BY <1>10, <2>1, <3>2, <4>2 DEF Guarded, KeptByAWhisper
    <3>3. CASE type = "speech" /\ w \in rec.words
      <4>1. w \in Words /\ c \in Cast
        BY <1>4, <3>3 DEF Listening
      <4>2. audience # Everyone /\ c \notin rec.audience
        BY <1>6, <1>7, <3>3, <4>1
      <4>. QED  BY <2>2, <3>3, <4>2
    <3>. QED  BY <1>4, <1>8, <3>1, <3>2, <3>3, InUttered
  <2>5. ConfidedByAWhisper'
    <3>. SUFFICES ASSUME NEW w \in Words, NEW s \in Listening, NEW c \in Listening,
                         s \in aux_told'[w], c \notin aux_told'[w]
                  PROVE  \E r \in Whispers(history') : /\ w \in r.words /\ r.speaker = Player
                                                       /\ s \in r.audience /\ c \notin r.audience
      BY DEF ConfidedByAWhisper
    <3>1. c \notin aux_told[w]
      BY <1>6, <1>7
    <3>2. CASE s \in aux_told[w]
      BY <1>10, <2>1, <3>1, <3>2 DEF Guarded, ConfidedByAWhisper
    <3>3. CASE s \notin aux_told[w]
      <4>1. w \in rec.words /\ type = "speech" /\ c \in Cast
        BY <1>6, <1>7, <3>3 DEF Listening
      <4>2. audience # Everyone /\ s \in rec.audience /\ c \notin rec.audience
        BY <1>6, <1>7, <3>3, <4>1
      <4>. QED  BY <1>4, <2>2, <4>1, <4>2
    <3>. QED  BY <3>2, <3>3
  <2>. QED  BY <2>3, <2>4, <2>5 DEF Guarded
<1>. QED  BY <1>9, <1>10

-----------------------------------------------------------------------------
(* The Director *)

LEMMA CanonKeeps ==
    ASSUME ConfidenceTypes, NEW moves, NEW links
    PROVE  LET moved == _apply_canon(scene, moves, links)
           IN  /\ DOMAIN moved = DOMAIN scene
               /\ moved.present = scene.present /\ moved.facts = scene.facts
<1>1. DOMAIN scene = {"present", "zones", "hears", "positions", "facts"}
  BY DEF ConfidenceTypes
<1>. DEFINE Same(other) == /\ DOMAIN other = DOMAIN scene
                           /\ other.present = scene.present /\ other.facts = scene.facts
            new == {moves[c] : c \in DOMAIN moves} \ scene.zones
            staged == IF new # {} /\ scene.zones = {} THEN Staged(scene) ELSE scene
            opened == _open_new_zones(staged, moves, new \ staged.zones)
<1>2. Same(staged)
  BY <1>1 DEF Staged
<1>3. Same(opened)
  <2>. HIDE DEF staged, new
  <2>. QED  BY <1>1, <1>2 DEF _open_new_zones
<1>. HIDE DEF opened
<1>4. _apply_canon(scene, moves, links) =
         [opened EXCEPT
            !.positions = [c \in Cast |-> IF c \in DOMAIN moves THEN moves[c] ELSE @[c]],
            !.hears = [z \in Places |-> IF z \in DOMAIN links \cap opened.zones
                                        THEN links[z] \cap opened.zones ELSE @[z]]]
  BY DEF _apply_canon, opened
<1>. QED  BY <1>1, <1>3, <1>4

\* What the Director reads beside what is found in thoughts only.
LEMMA ReadAloud ==
    ASSUME ConfidenceTypes, NEW w \in DirectorReads, w \notin hidden_thought_tokens(history, scene)
    PROVE  w \in Uttered
<1>1. w \in scene.facts \/ w \in story \/ w \in Felt \/ \E rec \in history : w \in rec.words
  BY InWords DEF DirectorReads, Felt
<1>2. ASSUME NEW rec \in history, w \in rec.words, rec.type = "thought"
      PROVE  w \in scene.facts \/ \E r \in history : r.type # "thought" /\ w \in r.words
  <2>1. w \in WordsOf({r \in history : r.type = "thought"})
    BY <1>2, InWords
  <2>2. w \in WordsOf({r \in history : r.type # "thought"}) \/ w \in scene.facts
    BY <2>1 DEF hidden_thought_tokens
  <2>. QED  BY <2>2, InWords
<1>. QED  BY <1>1, <1>2, InUttered

LEMMA ReadWords == ASSUME ConfidenceTypes PROVE DirectorReads \subseteq Words
<1>1. \A w \in WordsOf(history) : w \in Words
  BY InWords DEF ConfidenceTypes
<1>. QED  BY <1>1 DEF DirectorReads, ConfidenceTypes

\* A fact has words that everyone was told, whether in its value or in a key that
\* tells nobody anything.
LEMMA FactsTold ==
    ASSUME ConfidenceTypes, Guarded, NEW w \in DirectorReads, w \notin scene_fact_secret_tokens(history, scene)
    PROVE  w \in Uttered /\ Listening \subseteq aux_told[w]
<1>1. w \in DirectorReads /\ w \notin scene_fact_secret_tokens(history, scene)
  OBVIOUS
<1>2. w \in Uttered
  BY <1>1, ReadAloud DEF scene_fact_secret_tokens
<1>3. ASSUME NEW c \in Listening, c \notin aux_told[w] PROVE FALSE
  <2>1. w \in hidden_whisper_tokens(history, c, scene)
    BY <1>2, <1>3, HiddenFrom
  <2>2. c \in scene.present
    BY DEF ConfidenceTypes, Listening
  <2>. QED  BY <1>1, <2>1, <2>2 DEF scene_fact_secret_tokens
<1>. QED  BY <1>2, <1>3

LEMMA EventAloud ==
    ASSUME ConfidenceTypes, event' \in Decisions
    PROVE  event'.words \subseteq Uttered /\ event'.witnesses \subseteq Cast
<1>1. CASE event' = NoEvent
  BY <1>1 DEF NoEvent
<1>2. ASSUME NEW subject, NEW proposed, event' = Event(Kind(subject), subject, DirectorReads, proposed)
      PROVE  event'.words \subseteq Uttered /\ event'.witnesses \subseteq Cast
  <2>. DEFINE told == redact_tokens(DirectorReads, hidden_thought_tokens(history, scene))
  <2>1. told \subseteq Uttered
    BY ReadAloud DEF redact_tokens
  <2>2. Witnesses(scene, subject, proposed) \subseteq Cast
    BY DEF Witnesses, eligible_witnesses, ConfidenceTypes
  <2>3. CASE told = {}
    BY <1>2, <2>3 DEF Event, NoEvent
  <2>4. CASE told # {}
    <3>1. event'.words = told /\ event'.witnesses = Witnesses(scene, subject, proposed)
      BY <1>2, <2>4 DEF Event
    <3>. QED  BY <2>1, <2>2, <3>1
  <2>. QED  BY <2>3, <2>4
<1>. QED  BY <1>1, <1>2 DEF Decisions

LEMMA DirectorDecides ==
    ASSUME ConfidenceInv, DirectorBeat
    PROVE  ConfidenceTypes' /\ (Guarded /\ ~aux_unguarded' => Guarded')
<1>. USE DEF ConfidenceInv
<1>1. UNCHANGED <<history, story, knows, moods, turn, reply, aux_told>> /\ stage' = "reply"
  BY DEF DirectorBeat
<1>2. PICK written \in FactsWritten, skip \in SUBSET DirectorReads, new \in Moods :
         /\ \E moves, links : scene' = [_apply_canon(scene, moves, links) EXCEPT !.facts = written.facts]
         /\ beat' = [skip |-> skip, moods |-> new]
         /\ aux_unguarded' = (aux_unguarded \/ written.tell \/ SkipTells(skip) \/ MoodsTell(new))
  BY DEF DirectorBeat
<1>3. PICK kept \in SUBSET scene.facts, values \in SUBSET DirectorReads, keys \in SUBSET DirectorReads :
         written.facts = kept \cup FactWords(values) \cup keys /\ written.tell = KeysTell(keys)
  <2>1. \E kept \in SUBSET scene.facts, values \in SUBSET DirectorReads, keys \in SUBSET DirectorReads :
           written = Written(kept, values, keys)
    BY DEF FactsWritten
  <2>. QED  BY <2>1 DEF Written
<1>4. /\ DOMAIN scene' = DOMAIN scene /\ scene'.present = Cast
      /\ scene'.facts = kept \cup FactWords(values) \cup keys
  <2>1. PICK moves, links : scene' = [_apply_canon(scene, moves, links) EXCEPT !.facts = written.facts]
    BY <1>2
  <2>. DEFINE moved == _apply_canon(scene, moves, links)
  <2>2. DOMAIN moved = DOMAIN scene /\ moved.present = scene.present /\ moved.facts = scene.facts
    BY CanonKeeps
  <2>. HIDE DEF moved
  <2>3. scene' = [moved EXCEPT !.facts = written.facts]
    BY <2>1 DEF moved
  <2>. QED  BY <1>3, <2>2, <2>3 DEF ConfidenceTypes
<1>5. event'.words \subseteq Uttered /\ event'.witnesses \subseteq Cast
  BY EventAloud DEF DirectorBeat
<1>6. DirectorReads \subseteq Words /\ Uttered \subseteq Words
  BY ReadWords, UtteredWords
<1>7. new \in [Cast -> SUBSET DirectorReads]
  BY DEF Moods
<1>8. ConfidenceTypes'
  <2>1. scene'.facts \subseteq Words
    BY <1>4, <1>6 DEF FactWords, redact_tokens, ConfidenceTypes
  <2>2. DOMAIN beat' = {"skip", "moods"} /\ beat'.skip \subseteq Words /\ beat'.moods \in [Cast -> SUBSET Words]
    BY <1>2, <1>6, <1>7
  <2>3. \A rec \in history' : /\ rec.words \subseteq Words
                              /\ rec.audience \in (SUBSET Cast) \cup {Everyone}
                              /\ rec.type = "thought" => rec.speaker = Player
    BY <1>1 DEF ConfidenceTypes
  <2>. QED  BY <1>1, <1>4, <1>5, <1>6, <2>1, <2>2, <2>3 DEF ConfidenceTypes
<1>9. ASSUME Guarded, ~aux_unguarded' PROVE Guarded'
  <2>1. ~KeysTell(keys) /\ ~SkipTells(skip) /\ ~MoodsTell(new)
    BY <1>2, <1>3, <1>9
  <2>2. ASSUME NEW w \in scene'.facts PROVE w \in Uttered /\ Listening \subseteq aux_told[w]
    <3>1. CASE w \in scene.facts
      BY <1>9, <3>1, InUttered DEF Guarded, ShownToTold
    <3>2. CASE w \notin scene.facts
      <4>1. w \in DirectorReads /\ w \notin scene_fact_secret_tokens(history, scene)
        BY <1>4, <2>1, <2>2, <3>2 DEF FactWords, redact_tokens, KeysTell
      <4>. QED  BY <1>9, <4>1, FactsTold
    <3>. QED  BY <3>1, <3>2
  <2>3. skip \subseteq Uttered
    BY <2>1, ReadAloud DEF SkipTells
  <2>4. ASSUME NEW c \in Cast, NEW w \in new[c] PROVE w \in Uttered /\ (c \in Listening => c \in aux_told[w])
    <3>1. w \in DirectorReads /\ w \notin hidden_thought_tokens(history, scene)
      BY <1>7, <2>1, <2>4 DEF MoodsTell
    <3>. QED  BY <2>1, <2>4, <3>1, ReadAloud DEF MoodsTell, Listening
  <2>5. ShownToTold'
    <3>1. \A c \in Listening : \A w \in moods'[c] \cup beat'.moods[c] : c \in aux_told[w]
      BY <1>1, <1>2, <1>9, <2>4 DEF Guarded, ShownToTold, Listening
    <3>. QED  BY <1>1, <1>9, <2>2, <3>1 DEF Guarded, ShownToTold, record_visible_to
  <2>6. Uttered' \subseteq Uttered
    <3>. SUFFICES ASSUME NEW w \in Uttered' PROVE w \in Uttered
      OBVIOUS
    <3>1. \/ \E r \in history : r.type # "thought" /\ w \in r.words
          \/ w \in scene'.facts \/ w \in story \/ w \in event'.words \/ w \in skip \/ w \in Felt'
      BY <1>1, <1>2, InWords DEF Uttered
    <3>2. w \in Felt' => \E c \in Cast : w \in moods[c] \/ w \in new[c]
      BY <1>1, <1>2 DEF Felt
    <3>3. \A c \in Cast : w \in moods[c] => w \in Felt
      BY DEF Felt
    <3>. QED  BY <1>5, <2>2, <2>3, <2>4, <3>1, <3>2, <3>3, InUttered
  <2>7. KeptByAWhisper' /\ ConfidedByAWhisper'
    BY <1>1, <1>9, <2>6 DEF Guarded, KeptByAWhisper, ConfidedByAWhisper, Whispers, record_visible_to
  <2>. QED  BY <2>5, <2>7 DEF Guarded
<1>. QED  BY <1>8, <1>9

-----------------------------------------------------------------------------
(* The replies *)

LEMMA SpeakerReads ==
    ASSUME ConfidenceInv, RunSpeaker
    PROVE  ConfidenceTypes' /\ (Guarded => Guarded')
<1>. USE DEF ConfidenceInv
<1>1. PICK c \in scene.present \ (reply.done \cup {Controlled}) :
         /\ reply' = [reply EXCEPT !.speaker = c]
         /\ knows' = [knows EXCEPT ![c] = @ \cup CharacterReads(c)]
  BY DEF RunSpeaker
<1>2. UNCHANGED <<scene, history, story, moods, turn, event, beat, aux_told>> /\ stage' = "answer"
  BY DEF RunSpeaker
<1>3. c \in Listening
  BY DEF ConfidenceTypes, Listening
<1>4. WordsOf(Visible(history, c)) \subseteq Words
  <2>1. ASSUME NEW w \in WordsOf(Visible(history, c)) PROVE w \in Words
    BY <2>1, InWords DEF Visible, ConfidenceTypes
  <2>. QED  BY <2>1
<1>5. Context(c) \subseteq event.words \cup beat.skip
  BY DEF Context, Context_raw, redact_tokens
<1>6. ConfidenceTypes'
  <2>1. CharacterReads(c) \subseteq Words
    BY <1>3, <1>4, <1>5 DEF CharacterReads, ConfidenceTypes, Listening
  <2>. QED  BY <1>1, <1>2, <1>3, <2>1 DEF ConfidenceTypes, Listening
<1>7. ASSUME Guarded PROVE Guarded'
  <2>1. ASSUME NEW w \in CharacterReads(c) PROVE c \in aux_told[w]
    <3>1. CASE w \in WordsOf(Visible(history, c))
      BY <1>3, <1>7, <3>1, VisibleToTold DEF Guarded
    <3>2. CASE w \in Context(c)
      <4>1. w \in Uttered /\ w \notin hidden_whisper_tokens(history, c, scene)
        BY <1>5, <3>2, InUttered DEF Context, redact_tokens
      <4>. QED  BY <1>3, <1>7, <4>1, HiddenFrom
    <3>3. CASE w \in moods[c]
      BY <1>3, <1>7, <3>3 DEF Guarded, ShownToTold
    <3>. QED  BY <3>1, <3>2, <3>3 DEF CharacterReads
  <2>2. ASSUME NEW d \in Listening, NEW w \in knows'[d] PROVE d \in aux_told[w]
    <3>1. knows'[d] = IF d = c THEN knows[c] \cup CharacterReads(c) ELSE knows[d]
      BY <1>1, <1>3 DEF ConfidenceTypes, Listening
    <3>. QED  BY <1>7, <2>1, <2>2, <3>1 DEF Guarded, ShownToTold
  <2>3. ShownToTold'
    BY <1>2, <1>7, <2>2 DEF Guarded, ShownToTold, record_visible_to
  <2>4. Uttered' = Uttered /\ Whispers(history') = Whispers(history)
    BY <1>2 DEF Uttered, Felt
  <2>5. KeptByAWhisper' /\ ConfidedByAWhisper'
    BY <1>2, <1>7, <2>4 DEF Guarded, KeptByAWhisper, ConfidedByAWhisper, record_visible_to
  <2>. QED  BY <2>3, <2>5 DEF Guarded
<1>. QED  BY <1>6, <1>7

\* What an answer is recorded as, be it guarded or not.
LEMMA RecordedTypes ==
    ASSUME ConfidenceInv, stage = "answer", NEW speech \in SUBSET Words, NEW action \in SUBSET Words,
           Recorded(speech, action), UNCHANGED <<scene, story, knows, moods, turn, event, beat, aux_told>>
    PROVE  ConfidenceTypes'
<1>. DEFINE spoken == Line(reply.speaker, "speech", speech, reply_audience(reply.speaker))
            done == Line(reply.speaker, "action", action, Everyone)
<1>1. /\ history' = history \cup Telling({spoken, done})
      /\ reply' = [speaker |-> None, attempt |-> 0, done |-> reply.done \cup {reply.speaker}]
      /\ stage' = "reply"
  BY DEF Recorded
<1>2. reply.speaker \in Cast /\ scene.present = Cast /\ Controlled \in Cast
  BY PerceptionAssumption DEF ConfidenceInv, ConfidenceTypes, Listening
<1>3. \A subject \in Cast, audience \in (SUBSET Cast) \cup {Everyone} :
         Audience(scene, subject, audience) \in (SUBSET Cast) \cup {Everyone}
  BY <1>2 DEF Audience, eligible_witnesses
<1>4. reply_audience(reply.speaker) \in (SUBSET Cast) \cup {Everyone}
  BY DEF reply_audience, ConfidenceInv, ConfidenceTypes
<1>5. \A rec \in {spoken, done} : /\ rec.words \subseteq Words /\ rec.type # "thought"
                                  /\ rec.audience \in (SUBSET Cast) \cup {Everyone}
  BY <1>2, <1>3, <1>4 DEF Line
<1>. HIDE DEF spoken, done
<1>6. \A rec \in history' : /\ rec.words \subseteq Words
                            /\ rec.audience \in (SUBSET Cast) \cup {Everyone}
                            /\ rec.type = "thought" => rec.speaker = Player
  BY <1>1, <1>5 DEF Telling, ConfidenceInv, ConfidenceTypes
<1>. QED  BY <1>1, <1>6 DEF ConfidenceInv, ConfidenceTypes

\* A reply that holds no word the guard keeps from its listeners, and no action, may be recorded.
LEMMA GuardedReply ==
    ASSUME ConfidenceInv, Guarded, stage = "answer", NEW speech \in SUBSET knows[reply.speaker],
           speech \cap _leaked_secret_tokens(speech) = {},
           Recorded(speech, {}), UNCHANGED <<scene, story, knows, moods, turn, event, beat, aux_told>>
    PROVE  Guarded'
<1>. USE DEF ConfidenceInv
<1>. DEFINE s == reply.speaker
            rec == Line(s, "speech", speech, reply_audience(s))
            done == Line(s, "action", {}, Everyone)
            added == Telling({rec, done})
<1>1. /\ s \in Listening /\ s \in Cast /\ s # Player /\ scene.present = Cast
      /\ reply_audience(s) \in (SUBSET Cast) \cup {Everyone}
  BY PerceptionAssumption DEF ConfidenceTypes, Listening, reply_audience
<1>2. \A w \in speech : w \in Words /\ s \in aux_told[w]
  BY <1>1 DEF ConfidenceTypes, Guarded, ShownToTold
<1>3. /\ rec.audience \in (SUBSET Cast) \cup {Everyone}
      /\ \A c \in Cast : record_visible_to(rec, c) => c = s \/ c \in Exposed(s)
  <2>. DEFINE audience == reply_audience(s)
              exposed == (IF audience # Everyone THEN audience ELSE eligible_witnesses(scene, s)) \ {s}
  <2>1. exposed = Exposed(s)
    BY DEF Exposed
  <2>. HIDE DEF audience
  <2>2. audience \in (SUBSET Cast) \cup {Everyone}
    BY <1>1 DEF audience
  <2>. HIDE DEF s
  <2>3. LET line == Line(s, "speech", speech, audience)
        IN  /\ line.audience \in (SUBSET Cast) \cup {Everyone}
            /\ \A c \in Cast : record_visible_to(line, c) => c = s \/ c \in exposed
    BY <1>1, <2>2, Reached
  <2>4. rec = Line(s, "speech", speech, audience)
    BY DEF audience
  <2>. HIDE DEF exposed, rec
  <2>. QED  BY <2>1, <2>3, <2>4
<1>4. ASSUME NEW w \in speech, NEW c \in Listening, record_visible_to(rec, c) PROVE c \in aux_told[w]
  <2>1. CASE c = s
    BY <1>2, <2>1
  <2>2. CASE c \in Exposed(s)
    <3>. SUFFICES ASSUME c \notin aux_told[w] PROVE FALSE
      OBVIOUS
    <3>1. w \in secret_tokens_exposed_to(history, s, Exposed(s), scene)
      BY <1>1, <1>2, <2>2, SecretBefore
    <3>2. w \in _leaked_secret_tokens(speech)
      BY <2>2, <3>1 DEF _leaked_secret_tokens
    <3>. QED  BY <3>2
  <2>. QED  BY <1>3, <1>4, <2>1, <2>2 DEF Listening
<1>5. history' = history \cup added
  BY DEF Recorded
<1>6. rec.type = "speech" /\ rec.words = speech /\ done.words = {}
  BY LineFields
<1>7. \A r \in added : r = rec
  BY <1>6 DEF Telling
<1>. HIDE DEF s, rec, added
<1>. QED  BY <1>1, <1>2, <1>3, <1>4, <1>5, <1>6, <1>7, LinesAdded

LEMMA CharacterAnswers ==
    ASSUME ConfidenceInv, CharacterAnswer
    PROVE  ConfidenceTypes' /\ (Guarded /\ ~aux_unguarded' => Guarded')
<1>. USE DEF ConfidenceInv
<1>1. PICK speech \in SUBSET knows[reply.speaker], action \in SUBSET knows[reply.speaker] :
         \/ Physical(speech, action) \/ Leaks(speech, action)
         \/ Echoes(speech, action) \/ Passes(speech, action)
  BY DEF CharacterAnswer
<1>2. stage = "answer" /\ UNCHANGED <<scene, story, knows, moods, turn, event, beat, aux_told>>
  BY DEF CharacterAnswer
<1>3. knows[reply.speaker] \subseteq Words
  BY <1>2 DEF ConfidenceTypes, Listening
<1>4. CASE Retried
  <2>1. UNCHANGED <<history, stage>> /\ reply' = [reply EXCEPT !.attempt = 1]
    BY <1>4 DEF Retried
  <2>2. ConfidenceTypes'
    BY <1>2, <2>1 DEF ConfidenceTypes
  <2>3. Uttered' = Uttered /\ Whispers(history') = Whispers(history)
    BY <1>2, <2>1 DEF Uttered, Felt
  <2>4. Guarded => Guarded'
    BY <1>2, <2>1, <2>3
       DEF Guarded, ShownToTold, KeptByAWhisper, ConfidedByAWhisper, record_visible_to
  <2>. QED  BY <2>2, <2>4
<1>5. ASSUME NEW said \in SUBSET speech, NEW did \in SUBSET Words, Recorded(said, did),
             ~aux_unguarded' => did = {} /\ said \cap _leaked_secret_tokens(said) = {}
      PROVE  ConfidenceTypes' /\ (Guarded /\ ~aux_unguarded' => Guarded')
  <2>1. said \in SUBSET knows[reply.speaker] /\ said \in SUBSET Words
    BY <1>3
  <2>2. ConfidenceTypes'
    BY <1>2, <1>5, <2>1, RecordedTypes
  <2>3. ASSUME Guarded, ~aux_unguarded' PROVE Guarded'
    <3>1. Recorded(said, {})
      BY <1>5, <2>3
    <3>. QED  BY <1>2, <1>5, <2>1, <2>3, <3>1, GuardedReply
  <2>. QED  BY <2>2, <2>3
<1>6. \A said \in SUBSET speech :
         _leaked_secret_tokens(said) \subseteq _leaked_secret_tokens(speech)
  BY DEF _leaked_secret_tokens
<1>7. CASE Physical(speech, action) /\ ~Retried
  <2>1. PICK moved \in SUBSET speech :
           /\ Recorded(speech \ moved, action \cup moved)
           /\ aux_unguarded' = (aux_unguarded \/ speech \cup action # {})
    BY <1>7 DEF Physical
  <2>2. speech \ moved \in SUBSET speech /\ action \cup moved \in SUBSET Words
    BY <1>3
  <2>3. ~aux_unguarded' => speech = {} /\ action \cup moved = {}
    BY <2>1
  <2>. QED  BY <1>5, <2>1, <2>2, <2>3
<1>8. CASE Leaks(speech, action) /\ ~Retried
  <2>. DEFINE said == redact_tokens(speech, _leaked_secret_tokens(speech))
  <2>1. Recorded(said, action) /\ aux_unguarded' = (aux_unguarded \/ action # {})
    BY <1>8 DEF Leaks
  <2>2. said \in SUBSET speech /\ said \cap _leaked_secret_tokens(speech) = {} /\ action \in SUBSET Words
    BY <1>3 DEF redact_tokens
  <2>3. said \cap _leaked_secret_tokens(said) = {}
    BY <1>6, <2>2
  <2>. HIDE DEF said
  <2>. QED  BY <1>5, <2>1, <2>2, <2>3
<1>9. CASE Echoes(speech, action) /\ ~Retried
  <2>1. Recorded({}, action) /\ aux_unguarded' = (aux_unguarded \/ action # {})
    BY <1>9 DEF Echoes
  <2>. QED  BY <1>3, <1>5, <2>1
<1>10. CASE Passes(speech, action)
  <2>1. /\ Recorded(speech, action) /\ aux_unguarded' = (aux_unguarded \/ action # {})
        /\ _leaked_secret_tokens(speech) = {}
    BY <1>10 DEF Passes
  <2>. QED  BY <1>3, <1>5, <2>1
<1>. QED  BY <1>1, <1>4, <1>7, <1>8, <1>9, <1>10

-----------------------------------------------------------------------------
(* The Director's lines, and compaction *)

LEMMA DirectorsLines ==
    ASSUME ConfidenceInv, CommitBeat
    PROVE  ConfidenceTypes' /\ (Guarded /\ ~aux_unguarded' => Guarded')
<1>. USE DEF ConfidenceInv
<1>1. /\ UNCHANGED <<scene, story, knows, aux_told>>
      /\ stage' = "idle" /\ turn' = Everyone /\ event' = NoEvent /\ reply' = NoReply
      /\ moods' = beat.moods /\ beat' = [beat EXCEPT !.skip = {}]
  BY DEF CommitBeat
<1>2. PICK added : /\ history' = history \cup added
                   /\ added = {} \/ /\ Voiced
                                    /\ added = {[speaker |-> event.subject, type |-> "speech", words |-> event.words,
                                                 audience |-> HeardBy, origin |-> "zone"]}
  <2>1. CASE Voiced
    BY <2>1 DEF Voiced
  <2>2. CASE NotVoiced
    <3>1. history' = history \cup {}
      BY <2>2 DEF NotVoiced
    <3>. QED  BY <3>1
  <2>. QED  BY <2>1, <2>2 DEF CommitBeat
<1>3. \A rec \in added : /\ rec.type = "speech" /\ rec.words = event.words /\ rec.audience = HeardBy
                         /\ rec.speaker = event.subject
  BY <1>2
<1>4. HeardBy \in (SUBSET Cast) \cup {Everyone}
  BY DEF HeardBy, ConfidenceTypes
<1>5. event.words \subseteq Words /\ event.words \subseteq Uttered
  BY InUttered DEF ConfidenceTypes
<1>6. ConfidenceTypes'
  <2>1. \A rec \in history' : /\ rec.words \subseteq Words
                              /\ rec.audience \in (SUBSET Cast) \cup {Everyone}
                              /\ rec.type = "thought" => rec.speaker = Player
    BY <1>2, <1>3, <1>4, <1>5 DEF ConfidenceTypes
  <2>. QED  BY <1>1, <2>1 DEF ConfidenceTypes, NoEvent, NoReply
<1>7. ASSUME Guarded, ~aux_unguarded' PROVE Guarded'
  <2>1. ASSUME NEW rec \in added, NEW w \in event.words, NEW c \in Listening, record_visible_to(rec, c)
        PROVE  c \in aux_told[w]
    <3>1. Voiced
      BY <1>2, <2>1
    <3>2. event.subject \in aux_told[w] /\ ~Withheld
      BY <1>7, <3>1 DEF Voiced
    <3>. SUFFICES ASSUME c # event.subject, c \notin aux_told[w] PROVE FALSE
      BY <3>2
    <3>3. HeardBy = Everyone \/ c \in HeardBy
      BY <1>3, <2>1 DEF record_visible_to
    <3>4. c \in Listeners
      BY <3>3 DEF Listeners, Others, ConfidenceTypes, Listening
    <3>5. w \in hidden_whisper_tokens(history, c, scene)
      BY <1>5, <1>7, HiddenFrom
    <3>. QED  BY <3>2, <3>4, <3>5 DEF Withheld
  <2>. QED  BY <1>1, <1>2, <1>3, <1>4, <1>5, <1>7, <2>1, LinesAdded
<1>. QED  BY <1>6, <1>7

LEMMA Compacts ==
    ASSUME ConfidenceInv, Compact
    PROVE  ConfidenceTypes' /\ (Guarded /\ ~aux_unguarded' => Guarded')
<1>. USE DEF ConfidenceInv
<1>1. PICK evicted \in (SUBSET history) \ {{}} :
         /\ history' = history \ evicted
         /\ story' = Summarized(evicted)
         /\ aux_unguarded' = (aux_unguarded \/ Whispers(evicted) # {})
  BY DEF Compact
<1>2. UNCHANGED <<scene, knows, moods, stage, turn, event, beat, reply, aux_told>>
  BY DEF Compact
<1>3. \A w \in story' : w \in story \/ \E rec \in history : rec.type # "thought" /\ w \in rec.words
  BY <1>1, InWords DEF Summarized
<1>4. ConfidenceTypes'
  BY <1>1, <1>2, <1>3 DEF ConfidenceTypes
<1>5. ASSUME Guarded, ~aux_unguarded' PROVE Guarded'
  <2>1. \A rec \in Whispers(history) : rec \in Whispers(history')
    <3>1. \A rec : rec \notin Whispers(evicted)
      BY <1>1, <1>5
    <3>. QED  BY <1>1, <3>1, InWhispers
  <2>2. \A w \in Uttered' : w \in Uttered
    <3>. SUFFICES ASSUME NEW w \in Uttered' PROVE w \in Uttered
      OBVIOUS
    <3>1. \/ \E rec \in history' : rec.type # "thought" /\ w \in rec.words
          \/ w \in scene.facts \/ w \in story' \/ w \in event.words \/ w \in beat.skip \/ w \in Felt
      BY <1>2, InWords DEF Uttered, Felt
    <3>. QED  BY <1>1, <1>3, <3>1, InUttered
  <2>3. ShownToTold'
    BY <1>1, <1>2, <1>5 DEF Guarded, ShownToTold, record_visible_to
  <2>4. KeptByAWhisper' /\ ConfidedByAWhisper'
    BY <1>2, <1>5, <2>1, <2>2 DEF Guarded, KeptByAWhisper, ConfidedByAWhisper, record_visible_to
  <2>. QED  BY <2>3, <2>4 DEF Guarded
<1>. QED  BY <1>4, <1>5

-----------------------------------------------------------------------------
(* Theorems *)

LEMMA ConfidenceInit == Init => ConfidenceInv
<1>. SUFFICES ASSUME Init PROVE ConfidenceInv
  OBVIOUS
<1>1. ConfidenceTypes
  BY DEF Init, ConfidenceTypes, NoEvent, NoReply
<1>2. ShownToTold
  <2>1. /\ scene.facts = {} /\ history = {}
        /\ \A c \in Listening : knows[c] = {} /\ moods[c] = {} /\ beat.moods[c] = {}
    BY DEF Init, Listening
  <2>. QED  BY <2>1 DEF ShownToTold
<1>3. \A w : w \notin Uttered
  <2>1. Felt = {} /\ beat.skip = {}
    BY DEF Init, Felt
  <2>. QED  BY <2>1, InUttered DEF Init, NoEvent
<1>4. KeptByAWhisper /\ ConfidedByAWhisper
  BY <1>3 DEF Init, KeptByAWhisper, ConfidedByAWhisper
<1>. QED  BY <1>1, <1>2, <1>4 DEF ConfidenceInv

LEMMA ConfidenceStep ==
    ASSUME ConfidenceInv, [Next]_vars
    PROVE  ConfidenceInv'
<1>. SUFFICES ConfidenceTypes' /\ (~aux_unguarded' => Guarded')
  BY DEF ConfidenceInv, Guarded
<1>1. ASSUME UNCHANGED <<scene, history, story, knows, moods, turn, event, beat, reply, aux_told, aux_unguarded>>,
             stage' # "answer" \/ stage' = stage
      PROVE  ConfidenceTypes' /\ (~aux_unguarded' => Guarded')
  <2>1. ConfidenceTypes'
    BY <1>1 DEF ConfidenceInv, ConfidenceTypes
  <2>2. Uttered' = Uttered /\ Whispers(history') = Whispers(history)
    BY <1>1 DEF Uttered, Felt
  <2>3. ~aux_unguarded' => Guarded'
    BY <1>1, <2>2
       DEF ConfidenceInv, Guarded, ShownToTold, KeptByAWhisper, ConfidedByAWhisper, record_visible_to
  <2>. QED  BY <2>1, <2>3
<1>2. CASE UNCHANGED vars
  BY <1>1, <1>2 DEF vars
<1>3. CASE Next
  <2>1. ~aux_unguarded /\ Guarded
    BY <1>3 DEF Next, ConfidenceInv, Guarded
  <2>2. CASE PlayerMove
    BY <2>1, <2>2, PlayerMoves
  <2>3. CASE DirectorBeat
    BY <2>1, <2>3, DirectorDecides
  <2>4. CASE RunSpeaker
    BY <2>1, <2>4, SpeakerReads
  <2>5. CASE CharacterAnswer
    BY <2>1, <2>5, CharacterAnswers
  <2>6. CASE QueueDone
    BY <1>1, <2>6 DEF QueueDone
  <2>7. CASE CommitBeat
    BY <2>1, <2>7, DirectorsLines
  <2>8. CASE Compact
    BY <2>1, <2>8, Compacts
  <2>. QED  BY <1>3, <2>2, <2>3, <2>4, <2>5, <2>6, <2>7, <2>8 DEF Next
<1>. QED  BY <1>2, <1>3

\* Every word that is kept from a listener stands in a whisper of the live history
\* which that listener did not hear, and in one that each confidant did.
THEOREM ConfidenceInvariant == Spec => []ConfidenceInv
BY ConfidenceInit, ConfidenceStep, PTL DEF Spec

\* A confidence reaches those it was confided to and no one else, wherever the
\* code guards it: through the Director's events, the facts of the scene, the lines
\* it gives and the confidants' replies, with zones that open and close meanwhile.
THEOREM ConfidencesAreKept == Spec => []ConfidenceKept
<1>1. ConfidenceInv => ConfidenceKept
  BY VisibleToTold DEF ConfidenceInv, ShownToTold, ConfidenceKept, Listening
<1>. QED  BY <1>1, ConfidenceInvariant, PTL
=============================================================================
