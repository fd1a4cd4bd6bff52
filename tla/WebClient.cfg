SPECIFICATION PageSpec
CONSTANTS
    tavern = tavern
    first = first
    second = second
    Sessions = {tavern}
    Slots <- MCSlots
    Shapes = {"replied", "voiced"}
    MaxTurn = 3
    MaxLive = 2
    MaxDepth = 1
SYMMETRY MCSymmetry
VIEW MCView
ACTION_CONSTRAINT CrossesInView
INVARIANTS
    ShownIsTheStory
CHECK_DEADLOCK FALSE
