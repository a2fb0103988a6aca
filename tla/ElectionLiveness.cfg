SPECIFICATION FairSteadySpec
CONSTANTS
    Node = {a, b, c}
    Electable = {a, b}
    Fragile = {}
    First = a
    MaxTerm = 2
PROPERTIES
    ElectionEnds
    StalePrimaryStepsDown
CHECK_DEADLOCK FALSE
