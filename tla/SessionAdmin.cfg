SPECIFICATION Spec
CONSTANTS
    c1 = c1
    c2 = c2
    x = x
    y = y
    Characters <- MCCharacters
    StartPresent <- MCStartPresent
    StartControlled = c1
    Clients <- MCClients
    Sheets = {1, 2}
    StartSheet = 1
    MaxRevision = 5
SYMMETRY MCSymmetry
INVARIANTS
    TypeOK
    EditsReplaceWhatTheySaw
    PresenceUndoWalksBack
