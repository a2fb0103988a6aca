\* A set of two members and two clients, one with w: "majority" and one with w: 2.
CONSTANTS
    Other = {m}
    Client = {c1, c2}
    Majority = {c1}
    MaxTerm = 3
    MaxLen = 3
    SnapshotLimit = 2
    RestartPoint = 1
SPECIFICATION Spec
INVARIANTS TypeOK
    AckedIsCommitted CommittedSnapshot SnapshotAssertions NoLostWakeup SnapshotsKeepUp
CHECK_DEADLOCK FALSE
