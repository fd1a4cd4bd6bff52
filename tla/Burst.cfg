SPECIFICATION Spec
CONSTANTS
    human = human
    npc = npc
    absent = absent
    thud = thud
    other = other
    Cast <- MCCast
    Present <- MCPresent
    Controlled = human
    Texts <- MCTexts
    MaxBeats = 3
    MaxSpeakers = 2
    ExcludeBeats = 2
    QuietThreshold = 1
    Refractory = 2
INVARIANTS
    StopsWhereItSays
PROPERTIES
    EarnedDisruption
