SPECIFICATION FairSpec
CONSTANTS
    MaxTerm = 2
    MaxOp = 3
    BatchLimit = 2
INVARIANTS
    TypeOK
    WritesOnlyAsPrimary
    TransitionAssertions
    Drained
    NoGap
PROPERTIES
    PrimaryBecomesWritable
    SyncResumes
CHECK_DEADLOCK FALSE
