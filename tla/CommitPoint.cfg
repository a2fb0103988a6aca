\* Three members, up to four terms or three and a restart, oplogs of two entries.
SPECIFICATION Spec
CONSTANTS
    a = a
    b = b
    c = c
    Node <- Members
    MaxTerm = 4
    MaxLen = 2
    MaxIncidents = 1
SYMMETRY AnyMember
CONSTRAINT NotAstray
INVARIANTS
    TypeOK
    CommittedUnlessStrayed
    LeaderUnlessStrayed
PROPERTY ImplementsUnlessStrayed
CHECK_DEADLOCK FALSE
