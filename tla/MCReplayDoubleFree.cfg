SPECIFICATION Spec
CONSTANTS
    ENTRY_MAX = 2
    MaxRequests = 2
    IoQueueSize = 2
    DepthArgs = {0}
    MaxTrace = 2
    Traces <- ShortTraces
INVARIANTS
    QpairFreedOnce
