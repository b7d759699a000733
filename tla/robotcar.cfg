SPECIFICATION Spec
CONSTANTS
    QueueLen = 1
    MaxSends = 4
    TurnLimit = 0
    UTurnLimit = 0
    MaxNotch = 1
INVARIANTS
    TurnsHaveCauses
    BoundedStaleness
    PageNotBehindMotor
    LatestCommandMatchesSensors
    OneCommandPerPass
PROPERTIES
    ImplementsMotor
    AcceptedIsDelivered
    CommandStartsTurn
