SPECIFICATION HostSpec
SYMMETRY MCSymmetry
CONSTANTS
    Activated <- MCActivated
    Manifest <- MCManifest
    Setup <- MCSetup
    Names <- MCNames
    Builtin <- MCBuiltin
    Callers = {c1, c2}
    Attempts = 3
    MaxNext = 2
INVARIANTS
    TypeOK
    HooksHaveAnOrder
    FailureIsTheModels
