SPECIFICATION SafetySpec
CONSTANTS
    Tracks <- MCTracks
    QueueLen = 1
    Heap = 98
    MaxRequests = 1
INVARIANTS
    LettersReadAsPrinted
CHECK_DEADLOCK FALSE
