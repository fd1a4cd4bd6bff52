---------------------------- MODULE Confidences ----------------------------
(***************************************************************************)
(* What the human confides to some of the cast, and the paths it could take *)
(* to the others: the Director, who reads everything, through its events,   *)
(* the facts of the scene, the moods, the summary of skipped time and the   *)
(* lines it gives; the confidants through what they answer.                 *)
(*                                                                         *)
(* A turn is one beat: the human's move, the Director's decision on the     *)
(* scene as it was, the replies on the scene as it is then, and the lines   *)
(* the Director gave.  Who reacts is a choice here (Burst has the queue).   *)
(* A character says only words its prompts have shown it, this turn or      *)
(* before: it has a memory (PerspectiveMemory).  The cast stays in the scene *)
(* throughout.                                                              *)
(***************************************************************************)
EXTENDS Perception

CONSTANTS
    Proposals,  \* the witnesses the Director may propose
    Walkers,    \* who may move between zones
    Hearing,    \* the links the Director may set
    Moody,      \* whose mood the Director rewrites
    MaxReplies, \* bound: who answers in a turn
    MaxRecords  \* bound: nothing starts with more records that hold a word

ASSUME WalkersAssumption ==
    Walkers \cup Moody \subseteq Cast /\ Proposals \subseteq SUBSET Cast /\ Hearing \subseteq SUBSET Places

VARIABLES
    scene,
    history,  \* the records that hold a guardable word
    story,    \* the words in story_summary, which only the Director reads
    knows,    \* the words each character's prompts have shown it
    moods,    \* the words of each character's current_mood
    stage,
    turn,     \* the audience the human chose
    event,    \* the Director's event, if it holds a guardable word
    beat,     \* the words of the beat's time skip, and the moods it will leave
    reply     \* who answers, the attempt it is at, and who has answered

\* Ghosts: whom the human let in on each word; whether a word has taken one of
\* the paths no guard watches.
VARIABLES aux_told, aux_unguarded

vars == <<scene, history, story, knows, moods, stage, turn, event, beat, reply, aux_told, aux_unguarded>>

None == "none"
NoEvent == [kind |-> None, subject |-> Narrator, words |-> {}, witnesses |-> {}]
NoReply == [speaker |-> None, attempt |-> 0, done |-> {}]

-----------------------------------------------------------------------------
(* Records *)

\* A line as it is recorded: with an audience it is a whisper, without one the
\* scene's physics decide who heard it.
Line(speaker, type, words, audience) ==
    LET subject == IF speaker = Player THEN Controlled ELSE speaker
    IN  [speaker |-> speaker, type |-> type, words |-> words,
         audience |-> IF type = "thought" THEN audience ELSE Audience(scene, subject, audience),
         origin |-> IF audience = Everyone THEN "zone" ELSE "whisper"]

Telling(records) == {rec \in records : rec.words # {}}

-----------------------------------------------------------------------------
(* The human's move *)

Idle == stage = "idle" /\ Cardinality(history) <= MaxRecords

\* A whisper needs an audience in the scene, and words to whisper.
ValidAudiences(type) ==
    {Everyone} \cup (IF type \in {"speech", "action"} THEN (SUBSET (scene.present \ {Controlled})) \ {{}} ELSE {})

\* Whom the human lets in with a line: those it whispers to; and everyone with
\* one it does not, which is no confidence whoever is in earshot.
LetIn(rec, word) ==
    IF word \notin rec.words \/ rec.type = "thought" THEN aux_told[word]
    ELSE IF rec.origin = "whisper" THEN aux_told[word] \cup rec.audience
    ELSE Cast

PlayerMove ==
    /\ Idle
    /\ \E type \in {"speech", "thought"}, words \in SUBSET Words :
       \E audience \in ValidAudiences(type) :
          LET rec == Line(Player, type, words, audience)
          IN  /\ history' = history \cup Telling({rec})
              /\ aux_told' = [w \in Words |-> LetIn(rec, w)]
              /\ turn' = audience
    /\ stage' = "direct"
    /\ UNCHANGED <<scene, story, knows, moods, event, beat, reply, aux_unguarded>>

-----------------------------------------------------------------------------
(* The Director *)

\* The Director reads at most every record, thoughts and whispers too, the facts,
\* the moods and the summary of the records evicted.
DirectorReads == WordsOf(history) \cup scene.facts \cup story \cup UNION {moods[c] : c \in Cast}

\* What is left of the Director's event: who may perceive it, and no word found
\* in thoughts only.
Event(kind, subject, words, proposed) ==
    LET told == redact_tokens(words, hidden_thought_tokens(history, scene))
    IN  IF told = {} THEN NoEvent
        ELSE [kind |-> kind, subject |-> subject, words |-> told,
              witnesses |-> Witnesses(scene, subject, proposed)]

\* The values of facts are redacted, ...
FactWords(words) == redact_tokens(words, scene_fact_secret_tokens(history, scene))

\* ... their keys are not, nor is the summary of a time skip against the thoughts,
\* nor a mood: what these would tell someone who was not let in.
KeysTell(keys) == keys \cap scene_fact_secret_tokens(history, scene) # {}
SkipTells(skip) == skip \cap hidden_thought_tokens(history, scene) # {}
MoodsTell(new) ==
    \E c \in Cast : \E w \in new[c] :
        w \in hidden_thought_tokens(history, scene) \/ (c # Controlled /\ c \notin aux_told[w])

\* Bound: at most one character moves, to any place, and the links of one zone are set.
Moves == {<<>>} \cup UNION {[{c} -> Places] : c \in scene.present \cap Walkers}
Links == {<<>>} \cup UNION {[{z} -> {(heard \cap scene.zones) \ {z} : heard \in Hearing}] : z \in scene.zones}

\* The moods that may be written: any words for some, the others keep theirs.
Moods == {new \in [Cast -> SUBSET DirectorReads] : \A c \in Cast \ Moody : new[c] = moods[c]}

\* A character's observation is a line of theirs that is not voiced.
Kind(subject) == IF subject = Narrator THEN "observation" ELSE "audible_speech"

Decisions ==
    {NoEvent} \cup
    {Event(Kind(subject), subject, DirectorReads, proposed) :
        subject \in scene.present \cup {Narrator}, proposed \in Proposals}

\* Facts are written, and others go, one by one or all at once in a new place.
Written(kept, values, keys) ==
    [facts |-> kept \cup FactWords(values) \cup keys, tell |-> KeysTell(keys)]
FactsWritten ==
    {Written(kept, values, keys) :
        kept \in SUBSET scene.facts, values \in SUBSET DirectorReads, keys \in SUBSET DirectorReads}

\* The decision is read against the scene as it was; then the scene is moved on.
DirectorBeat ==
    /\ stage = "direct"
    /\ event' \in Decisions
    /\ \E moves \in Moves, links \in Links, written \in FactsWritten, skip \in SUBSET DirectorReads, new \in Moods :
          /\ scene' = [_apply_canon(scene, moves, links) EXCEPT !.facts = written.facts]
          /\ beat' = [skip |-> skip, moods |-> new]
          /\ aux_unguarded' = (aux_unguarded \/ written.tell \/ SkipTells(skip) \/ MoodsTell(new))
    /\ stage' = "reply"
    /\ UNCHANGED <<history, story, knows, moods, turn, reply, aux_told>>

-----------------------------------------------------------------------------
(* The replies *)

\* What is rendered for a viewer of the event and of the time skip, which everyone
\* present witnesses.
Context_raw(viewer) ==
    beat.skip \cup IF viewer \in event.witnesses \/ event.subject = viewer THEN event.words ELSE {}

\* Mutant: the context is passed on as it is rendered.
Context_whole(viewer) == Context_raw(viewer)

Context(viewer) == redact_tokens(Context_raw(viewer), hidden_whisper_tokens(history, viewer, scene))

\* A whispered exchange stays whispered.
reply_audience(speaker) ==
    IF turn # Everyone /\ speaker \in turn THEN turn ELSE Everyone

\* What a character's prompt shows it, beside what it has been shown before.
CharacterReads(c) == WordsOf(Visible(history, c)) \cup Context(c) \cup moods[c]

RunSpeaker ==
    /\ stage = "reply" /\ Cardinality(reply.done) < MaxReplies
    /\ \E c \in scene.present \ (reply.done \cup {Controlled}) :
        /\ reply' = [reply EXCEPT !.speaker = c]
        /\ knows' = [knows EXCEPT ![c] = @ \cup CharacterReads(c)]
    /\ stage' = "answer"
    /\ UNCHANGED <<scene, history, story, moods, turn, event, beat, aux_told, aux_unguarded>>

\* Who would hear the reply.
Exposed(speaker) ==
    (IF reply_audience(speaker) # Everyone THEN reply_audience(speaker)
     ELSE eligible_witnesses(scene, speaker)) \ {speaker}

_leaked_secret_tokens(speech) ==
    IF Exposed(reply.speaker) = {} THEN {}
    ELSE speech \cap secret_tokens_exposed_to(history, reply.speaker, Exposed(reply.speaker), scene)

\* An answer is sent back once, whatever is wrong with it.
Retried ==
    /\ reply.attempt = 0
    /\ reply' = [reply EXCEPT !.attempt = 1]
    /\ UNCHANGED <<history, stage, aux_unguarded>>

\* The reply is recorded, the action with no audience of its own.
Recorded(speech, action) ==
    /\ history' = history \cup Telling({Line(reply.speaker, "speech", speech, reply_audience(reply.speaker)),
                                        Line(reply.speaker, "action", action, Everyone)})
    /\ reply' = [speaker |-> None, attempt |-> 0, done |-> reply.done \cup {reply.speaker}]
    /\ stage' = "reply"

\* Movement in the wrong field: sent back, then moved to the action as it is.
Physical(speech, action) ==
    \/ Retried
    \/ /\ reply.attempt = 1
       /\ \E moved \in SUBSET speech :
            /\ Recorded(speech \ moved, action \cup moved)
            /\ aux_unguarded' = (aux_unguarded \/ speech \cup action # {})

\* A confidence spoken before others: sent back, then taken out.
Leaks(speech, action) ==
    /\ _leaked_secret_tokens(speech) # {}
    /\ \/ Retried
       \/ /\ reply.attempt = 1
          /\ Recorded(redact_tokens(speech, _leaked_secret_tokens(speech)), action)
          /\ aux_unguarded' = (aux_unguarded \/ action # {})

\* A repetition is sent back, and then dropped if a thought is left.
Echoes(speech, action) ==
    /\ _leaked_secret_tokens(speech) = {}
    /\ \/ Retried
       \/ /\ reply.attempt = 1
          /\ Recorded({}, action)
          /\ aux_unguarded' = (aux_unguarded \/ action # {})

Passes(speech, action) ==
    /\ _leaked_secret_tokens(speech) = {}
    /\ Recorded(speech, action)
    /\ aux_unguarded' = (aux_unguarded \/ action # {})

CharacterAnswer ==
    /\ stage = "answer"
    /\ \E speech \in SUBSET knows[reply.speaker], action \in SUBSET knows[reply.speaker] :
        \/ Physical(speech, action) \/ Leaks(speech, action)
        \/ Echoes(speech, action) \/ Passes(speech, action)
    /\ UNCHANGED <<scene, story, knows, moods, turn, event, beat, aux_told>>

QueueDone ==
    /\ stage = "reply"
    /\ stage' = "voice"
    /\ UNCHANGED <<scene, history, story, knows, moods, turn, event, beat, reply, aux_told, aux_unguarded>>

-----------------------------------------------------------------------------
(* The lines the Director gave *)

Others(subject) == scene.present \ {subject}

HeardBy == IF Others(event.subject) \subseteq event.witnesses THEN Everyone ELSE event.witnesses

Listeners == IF HeardBy = Everyone THEN Others(event.subject) ELSE HeardBy

\* A line is withheld that would hand a listener a whisper not meant for them.
Withheld ==
    \E c \in Listeners : event.words \cap hidden_whisper_tokens(history, c, scene) # {}

\* The line is the subject's speech from now on, whether they knew it or not.
Voiced ==
    /\ event.kind = "audible_speech" /\ event.subject \in Cast /\ ~Withheld
    /\ history' = history \cup {[speaker |-> event.subject, type |-> "speech", words |-> event.words,
                                 audience |-> HeardBy, origin |-> "zone"]}
    /\ aux_unguarded' = (aux_unguarded \/ \E w \in event.words : event.subject \notin aux_told[w])

\* An observation, a line withheld, or the echo of a recent one.
NotVoiced == UNCHANGED <<history, aux_unguarded>>

CommitBeat ==
    /\ stage = "voice"
    /\ Voiced \/ NotVoiced
    /\ stage' = "idle"
    /\ moods' = beat.moods
    /\ turn' = Everyone /\ event' = NoEvent /\ beat' = [beat EXCEPT !.skip = {}] /\ reply' = NoReply
    /\ UNCHANGED <<scene, story, knows, aux_told>>

-----------------------------------------------------------------------------
(* Between turns *)

\* The summary of the evicted records: thoughts do not go into it, whispers do.
Summarized(evicted) == story \cup WordsOf({rec \in evicted : rec.type # "thought"})

\* The oldest records go, into a summary for the Director: with a whisper goes
\* the guard on it.  Which records are the oldest is a choice.
Compact ==
    /\ Idle
    /\ \E evicted \in (SUBSET history) \ {{}} :
        /\ history' = history \ evicted
        /\ story' = Summarized(evicted)
        /\ aux_unguarded' = (aux_unguarded \/ Whispers(evicted) # {})
    /\ UNCHANGED <<scene, knows, moods, stage, turn, event, beat, reply, aux_told>>

-----------------------------------------------------------------------------
Init ==
    /\ scene = [present |-> Cast, zones |-> {}, hears |-> [z \in Places |-> {}],
                positions |-> [c \in Cast |-> Nowhere], facts |-> {}]
    /\ history = {}
    /\ story = {}
    /\ knows = [c \in Cast |-> {}]
    /\ moods = [c \in Cast |-> {}]
    /\ stage = "idle"
    /\ turn = Everyone /\ event = NoEvent /\ reply = NoReply
    /\ beat = [skip |-> {}, moods |-> moods]
    /\ aux_told = [w \in Words |-> {}]
    /\ aux_unguarded = FALSE

\* Nothing is shown of what comes once a word has escaped: there the model ends.
Next ==
  /\ ~aux_unguarded
  /\ \/ PlayerMove \/ DirectorBeat \/ RunSpeaker \/ CharacterAnswer \/ QueueDone \/ CommitBeat
     \/ Compact

Spec == Init /\ [][Next]_vars

-----------------------------------------------------------------------------
(* Properties *)

\* A confidence reaches those it was confided to and no one else: no prompt has
\* shown it to another and no record would, through the Director's events, the
\* facts of the scene, the lines it gives and the replies of the confidants,
\* unless a word took a path no guard watches: an answer whose movement was
\* moved, an action, a line given to someone who was not let in, a mood, the key
\* of a fact, a thought in the summary of a time skip, or a whisper evicted by a
\* compaction.
ConfidenceKept ==
    ~aux_unguarded =>
        \A c \in Cast \ {Controlled} :
            \A w \in knows[c] \cup WordsOf(Visible(history, c)) : c \in aux_told[w]
=============================================================================
