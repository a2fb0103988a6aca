\* Three members, any of which may be the source of any other.
SPECIFICATION Spec
CONSTANTS
    a = a
    b = b
    c = c
    Node <- Members
    MaxTerm = 2
    MaxLen = 2
    MaxIncidents = 0
SYMMETRY AnyMember
INVARIANT CommittedOnMajority
CHECK_DEADLOCK FALSE
