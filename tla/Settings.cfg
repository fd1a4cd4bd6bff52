SPECIFICATION Spec
SYMMETRY MCSymmetry
CONSTANTS
    Clients = {c1, c2}
    BuiltIn = {llama_cpp, deepseek}
    Plugged = {router, lax}
    Initial = llama_cpp
    Secretive = {deepseek, router}
    Lax = {lax}
    Tuned = {deepseek}
    Keys = {k1}
    Absent = absent
    NoKey = no_key
INVARIANTS
    TypeOK
    RunsOnItsFile
    ComesUpAgain
PROPERTIES
    KeysAreKept
