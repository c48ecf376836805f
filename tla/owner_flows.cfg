SPECIFICATION MCSpec
CONSTANTS
    Flow = {f1}  Target = target  Other = other  None = None
    Candidates = 2  Builds <- MCBuilds  MaxMoves = 2
    Session = {a, b}  Slot = {d1, d2, d3}  Nothing = Nothing
INVARIANTS TypeOK EnsuredOnTarget NoFailureWithoutCause DeletionTypeOK UndoReachesTheTimer
PROPERTIES ChecksEnd PendingResolves
