SPECIFICATION Spec
CONSTANTS
    Deal = {d1, d2}
    Renewed = {}
    MaxEvent = 2
    MaxReplay = 1
    BatchSize = 1
INVARIANT
    RevisionTellsRevoked
CHECK_DEADLOCK FALSE
