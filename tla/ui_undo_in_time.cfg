SPECIFICATION DeletionSpec
CONSTANTS
    Session = {a, b}  Slot = {d1, d2, d3}  Nothing = Nothing
PROPERTY UndoInTimeCancels
