SPECIFICATION LibrarySpec
SYMMETRY MCSymmetry
VIEW MCView
CONSTANTS
    Editors = {c1, c2}
    Names <- MCNames
    BuiltIns <- MCBuiltIns
    Scenarios = {harbour}
    Ids <- MCIds
    Shipped <- MCShipped
    Links <- MCLinks
    Characters = {x}
    Images = {a}
    Avatars = {a}
    MaxAge = 3
    None = none
PROPERTIES
    CastIsWhole
    ReplacesWhatWasRead
