SPECIFICATION Spec
CONSTANTS
    MaxEdges = 5
    Tracks <- MCTracks
    Axes = 2
    Field <- MCField
    MaxFaults = 3
    MaxPolls = 3
    Channels <- MCChannels
    ViaHandler <- MCViaHandler
INVARIANTS
    PrintsWhatIsThere
    OffByALowByte
    SubscriberIsConnected
    HandlesAreQueues
    StartedApartTheyShare
PROPERTIES
    ShownInTheEnd
    LoneBarcodePrinted
    LatestTemperatureShown
