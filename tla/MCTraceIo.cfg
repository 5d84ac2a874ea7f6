SPECIFICATION FairSpec
CONSTANTS
    GroupArgs <- MCGroupArgs
    Groups = {0, 1}
    Tpoints = {"submit", "complete"}
    MaxInterrupts = 1
INVARIANTS
    TypeOK
    EnabledExact
PROPERTIES
    RecorderStopped
    ApplicationEnds
