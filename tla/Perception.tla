----------------------------- MODULE Perception -----------------------------
(***************************************************************************)
(* Who perceives what: the zone graph, the audience a record is given, and  *)
(* the sets of words the guards keep from a character.                      *)
(*                                                                         *)
(* A text is the set of the guardable words it holds (payload_tokens), so   *)
(* redacting is taking words away.  The human is Player as a speaker and    *)
(* the controlled character as a listener, as in the code.                  *)
(***************************************************************************)
EXTENDS Integers, Sequences, FiniteSets

CONSTANTS
    Cast,        \* game.characters
    Controlled,  \* player.controlled_character_id
    Words,       \* guardable words
    Places,      \* what a zone may be called
    Stage,       \* the name the whole scene gets when it is first split
    Everyone     \* a record's audience when it is None

Player == "Player"
Narrator == "Narrator"
Nowhere == "nowhere"

ASSUME PerceptionAssumption ==
    /\ Controlled \in Cast /\ Player \notin Cast /\ Stage \in Places
    /\ \A heard \in SUBSET Cast : Everyone # heard

\* A scene: who is present, the zones there are, hears[z]: the zones a listener in z
\* hears beside its own, everyone's position and the words of the physical facts.
\* A record: speaker, type, words, audience and whether its origin is a whisper or
\* its zone; those without a guardable word are not kept: they tell nothing.

-----------------------------------------------------------------------------
(* Perception *)

can_perceive(scene, witness, subject) ==
    \/ scene.zones = {}
    \/ Nowhere \in {scene.positions[witness], scene.positions[subject]}
    \/ scene.positions[witness] = scene.positions[subject]
    \/ scene.positions[subject] \in scene.hears[scene.positions[witness]]

eligible_witnesses(scene, subject) ==
    {c \in scene.present \ {subject} : can_perceive(scene, c, subject)}

\* What the Director may grant of a proposal: it narrows, it never widens.
Witnesses(scene, subject, proposed) ==
    proposed \cap (IF subject = Narrator THEN scene.present ELSE eligible_witnesses(scene, subject))

\* The audience a line is recorded with.  Everyone stands for no audience: the
\* line is public, or, where zones keep it from someone, physically scoped.
Audience(scene, subject, audience) ==
    LET eligible == eligible_witnesses(scene, subject)
    IN  IF scene.zones = {} THEN audience
        ELSE IF audience # Everyone THEN audience \cap (eligible \cup {subject})
        ELSE IF eligible = scene.present \ {subject} THEN Everyone ELSE eligible

record_visible_to(rec, viewer) ==
    \/ rec.audience = Everyone
    \/ viewer \in rec.audience
    \/ rec.speaker = viewer

\* What a character's prompt shows of a history.
Visible(history, viewer) ==
    {rec \in history : IF rec.type = "thought" THEN rec.speaker = viewer
                       ELSE record_visible_to(rec, viewer)}

WordsOf(records) == UNION {rec.words : rec \in records}

-----------------------------------------------------------------------------
(* Confidentiality *)

\* A whisper is a confidence, a zone's audience is physics.
Whispers(history) ==
    {rec \in history : rec.audience # Everyone /\ rec.origin = "whisper" /\ rec.type # "thought"}

known_tokens(history, viewer, scene) == WordsOf(Visible(history, viewer)) \cup scene.facts

\* The whispered words a viewer did not hear.
hidden_whisper_tokens(history, viewer, scene) ==
    WordsOf({rec \in Whispers(history) : ~record_visible_to(rec, viewer)})
        \ known_tokens(history, viewer, scene)

\* The words found in private thoughts only.
hidden_thought_tokens(history, scene) ==
    WordsOf({rec \in history : rec.type = "thought"})
        \ (WordsOf({rec \in history : rec.type # "thought"}) \cup scene.facts)

\* Who a whisper let in.
Cover(rec) == rec.audience \cup {IF rec.speaker = Player THEN Controlled ELSE rec.speaker}

\* Mutant: one listener who was let in is enough.
secret_tokens_exposed_to_some(history, speaker, exposed, scene) ==
    LET confidential == {rec \in Whispers(history) :
                            record_visible_to(rec, speaker) /\ exposed \cap Cover(rec) = {}}
    IN  WordsOf(confidential) \ {w \in Words : \A c \in exposed : w \in known_tokens(history, c, scene)}

\* The whispered words a speaker heard that some of the listeners must not hear:
\* all of those, unless every listener knows the word already.
secret_tokens_exposed_to(history, speaker, exposed, scene) ==
    LET confidential == {rec \in Whispers(history) :
                            record_visible_to(rec, speaker) /\ ~(exposed \subseteq Cover(rec))}
        known == {w \in Words : \A c \in exposed : w \in known_tokens(history, c, scene)}
    IN  WordsOf(confidential) \ known

\* The words no physical fact may hold: a fact is shown to everyone, and what it
\* holds counts as known from then on.
scene_fact_secret_tokens(history, scene) ==
    hidden_thought_tokens(history, scene)
        \cup UNION {hidden_whisper_tokens(history, c, scene) : c \in scene.present}

redact_tokens(words, secret) == words \ secret

-----------------------------------------------------------------------------
(* The zone graph *)

\* Every zone a move opens is audible from where its movers came, both ways.
_open_new_zones(scene, moves, new) ==
    LET origins(zone) == {scene.positions[c] : c \in {d \in DOMAIN moves : moves[d] = zone}} \cap scene.zones
    IN  [scene EXCEPT
            !.zones = @ \cup new,
            !.hears = [z \in Places |->
                IF z \in new THEN origins(z)
                ELSE @[z] \cup {n \in new : z \in origins(n)}]]

\* The first split names the stage and puts everyone on it.
Staged(scene) ==
    [scene EXCEPT !.zones = {Stage},
                  !.positions = [c \in Cast |-> IF c \in scene.present THEN Stage ELSE @[c]]]

\* The scene after the Director's moves, with the links it set explicitly.
_apply_canon(scene, moves, links) ==
    LET new == {moves[c] : c \in DOMAIN moves} \ scene.zones
        staged == IF new # {} /\ scene.zones = {} THEN Staged(scene) ELSE scene
        opened == _open_new_zones(staged, moves, new \ staged.zones)
    IN  [opened EXCEPT
            !.positions = [c \in Cast |-> IF c \in DOMAIN moves THEN moves[c] ELSE @[c]],
            !.hears = [z \in Places |-> IF z \in DOMAIN links \cap opened.zones
                                        THEN links[z] \cap opened.zones ELSE @[z]]]
=============================================================================
