SPECIFICATION Spec
CONSTANTS
    Writers <- MCWriters
    Sends <- MCSends
    TurnLimit = 1
    UTurnLimit = 2
    MaxNotch = 3
    MaxWrites = 4
INVARIANTS
    BusyWaitOnDrivenWheel
    OneTurnPerCommand
    ManoeuvreIsFull
    PollsRunningAhead
PROPERTIES
    OthersRun
    Implements
