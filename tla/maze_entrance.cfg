SPECIFICATION SafetySpec
CONSTANTS
    ROW = 2
    COL = 5
    Mazes <- AnyEntrance
INVARIANTS
    VisitedOnce
CHECK_DEADLOCK FALSE
