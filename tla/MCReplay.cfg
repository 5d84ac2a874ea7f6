SPECIFICATION FairSpec
CONSTANTS
    ENTRY_MAX = 3
    MaxRequests = 2
    IoQueueSize = 2
    DepthArgs = {0, 1, 3}
    MaxTrace = 5
    Traces <- LongTraces
INVARIANTS
    TypeOK
    OutstandingExact
    NoRoomFailure
    TasksAccounted
    ReplayedAll
PROPERTIES
    ReleasedInOrder
    ImplementsReplayQueue
    Terminates
