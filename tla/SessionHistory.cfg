SPECIFICATION Spec
CONSTANTS
    s1 = s1
    s2 = s2
    p1 = p1
    p2 = p2
    k1 = k1
    k2 = k2
    v1 = v1
    v2 = v2
    Keys <- MCKeys
    Leaves <- MCLeaves
    Dict = Dict
    KeepRecent = 1
    ShrinkAbove = 1
    ShrinkFloor = 1
    BurstMaxBeats = 2
    Beats <- MCBeats
    Scenes <- MCScenes
    PluginStates <- MCPluginStates
    NoDraft = NoDraft
    MaxRevision = 8
    MaxTick = 4
    StartScene = s1
    StartPlugin = p1
    MaxCheckpoints = 2
INVARIANTS
    TypeOK
    HistoryInOrder
    NothingLost
    SummaryCoversEvicted
    CheckpointChain
    RestoreStaysPossible
PROPERTIES
    CheckpointsAreImmutable
    UndoReturnsToTurnStart
    ImplementsStory
CHECK_DEADLOCK FALSE
