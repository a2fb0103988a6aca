SPECIFICATION SteadySpec
CONSTANTS
    Node = {a, b, c}
    Electable = {a, b}
    Fragile = {a, b, c}
    First = a
    MaxTerm = 2
SYMMETRY Members
INVARIANTS
    TypeOK
    OnePrimaryUnlessAhead
    ElectedByMajority
    LeaderInItsTerm
    PendingAtLeader
    VotesDurable
PROPERTY TermsNeverForgotten
CHECK_DEADLOCK FALSE
