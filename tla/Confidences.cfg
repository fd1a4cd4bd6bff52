SPECIFICATION Spec
CONSTANTS
    human = human
    bea = bea
    cas = cas
    code = code
    hall = hall
    cell = cell
    Everyone = Everyone
    Cast <- MCCast
    Controlled = human
    Words <- MCWords
    Places <- MCPlaces
    Stage = hall
    Proposals <- MCProposals
    Walkers <- MCWalkers
    Hearing <- MCHearing
    Moody <- MCMoody
    MaxReplies = 2
    MaxRecords = 2
VIEW MCView
INVARIANTS
    ConfidenceKept
CHECK_DEADLOCK FALSE
