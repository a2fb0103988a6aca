SPECIFICATION SteadySpec
CONSTANTS
    Node = {a, b, c}
    Electable = {a, b}
    Fragile = {}
    First = a
    MaxTerm = 2
SYMMETRY Members
INVARIANT RivalHasHigherTerm
CHECK_DEADLOCK FALSE
