SPECIFICATION Spec
CONSTANTS
    BlockEdges = 3
    MaxEdges = 3
INVARIANTS
    BlocksAreDriven
    DistanceNotAheadOfNotches
PROPERTY BlockIsReported
