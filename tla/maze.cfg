SPECIFICATION Spec
CONSTANTS
    ROW = 4
    COL = 4
    Mazes <- AllMazes
INVARIANTS
    EnqueuedOnce
    LinksMutual
    BreadthFirst
PROPERTIES
    Implements
    PrintingEnds
CHECK_DEADLOCK FALSE
