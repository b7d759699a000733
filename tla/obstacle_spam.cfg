SPECIFICATION Spec
CONSTANTS
    Period = 1724
    Lag = 8
    Timeout = 450
    Distances <- MCDistances
    MaxPolls = 5
    Near = 12
    QueueLen = 1
INVARIANT OneCommandPerObstacle
