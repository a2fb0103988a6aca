\* Two writers, each of which may log a batch of two entries.
CONSTANTS
    Writer = {w1, w2}
    MaxTs = 3
    MaxBatch = 2
SPECIFICATION Spec
INVARIANTS TypeOK NoSkippedEntry NoHoleAfterCrash DurableIsJournaled
PROPERTY BecomesVisible
CHECK_DEADLOCK FALSE
