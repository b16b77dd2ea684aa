SPECIFICATION Spec
CONSTANTS
    Library = {saved}
    Keep = 2
    MaxAsks = 3
    MaxRestarts = 1
    MaxWaiting = 2
    None = None
INVARIANTS
    ScreenInv
    AnswersOwn
    RevisionKept
    KeptTurns
PROPERTIES
    NeverRewritten
    Settles
CHECK_DEADLOCK FALSE
