SPECIFICATION Spec
CONSTANTS
    a = a
    b = b
    Ids <- MCIds
    Texts = {1, 2}
    MaxTold = 4
    MaxPages = 1
    MaxSearches = 1
    MaxDeaths = 1
    Torn = TRUE
SYMMETRY Symmetry
INVARIANTS LogKeepsUp
PROPERTIES DeletionsStick
CHECK_DEADLOCK FALSE
