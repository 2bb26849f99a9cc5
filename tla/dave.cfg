SPECIFICATION Spec
CONSTANTS
    MaxEpoch = 2
    TopEpoch = 5
    Packages = 4
    MaxUpsets = 2
    MaxEarly = 1
    First = TRUE
    BareHelps = FALSE
INVARIANTS RatchetsFollow NeverAlone NotAhead BelievedMeansHeard
CHECK_DEADLOCK FALSE
