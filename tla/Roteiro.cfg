SPECIFICATION Spec
CONSTANTS
    actor = actor
    lamp = lamp
    key = key
    NoRoteiro = NoRoteiro
    HARD_BEAT_ACTION_CAP = 2
    HARD_BEAT_TURN_CAP = 2
    PARTIAL_ADVANCE_PATIENCE = 1
    COOLDOWN_TURNS = 1
    ACT_REPLAN_THRESHOLD = 1
    MaxSkip = 1
    BurstMaxBeats = 2
    KeepRecent = 2
    Actors <- MCActors
    Anchors <- MCAnchors
    Replies <- MCReplies
    Beats <- MCBeats
    MaxTick = 7
    MaxTurns = 3
INVARIANTS
    TypeOK
    FiredActsAreOver
    WorldNeverWaits
    BeatTurnCeiling
PROPERTIES
    PlayedActsStay
CHECK_DEADLOCK FALSE
