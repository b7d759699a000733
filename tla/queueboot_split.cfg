SPECIFICATION BootSpec
CONSTANTS
    Channels <- MCChannels
    ViaHandler <- MCViaHandler
INVARIANT OneQueuePerChannel
