SPECIFICATION Spec
CONSTANTS
    Writers <- IRWriter
    Sends <- IRSends
    TurnLimit <- CodeTurnLimit
    UTurnLimit <- CodeUTurnLimit
    MaxNotch = 28
    MaxWrites = 2
PROPERTY CommandIsFollowedByTurn
