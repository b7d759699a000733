SPECIFICATION Spec
CONSTANTS
    Tracks <- MCTracks
    QueueLen = 1
    Heap = 98
    MaxRequests = 1
INVARIANTS
    DecodesTrack
    NoBarcodeTwice
    MessageIsBarcode
    PageShowsBarcode
    MemoryPerBarcode
PROPERTIES
    LoneBarcodeReachesPage
CHECK_DEADLOCK FALSE
