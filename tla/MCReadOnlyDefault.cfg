SPECIFICATION Spec
CONSTANTS
    Devices <- LargeDevices
    DepthArgs = {0, 1, 3}
    BlockArgs = {1, 2, 4}
    Ratios <- MCRatios
    IoQueueSize = 2
    MaxRequests = 4
    Mantissa = 4
    Word32 = 64
INVARIANT
    ReadOnlyByDefault
