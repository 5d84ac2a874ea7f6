SPECIFICATION Spec
CONSTANTS
    GroupArgs <- MCGroupArgs
    Groups = {0, 1}
    Tpoints = {"submit", "complete"}
    MaxInterrupts = 1
INVARIANT
    ForkFailureReported
