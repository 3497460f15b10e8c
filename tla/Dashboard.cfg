SPECIFICATION FairSpec
CHECK_DEADLOCK FALSE
CONSTANTS
    N = 3
    Mine = {2}
    MaxRequests = 1
INVARIANTS
    CursorInStep
    NotesAreTrue
    ExitTells
PROPERTIES
    CursorStays
    NothingHangs
