SPECIFICATION FairSpec
CONSTANTS
    ENTRY_MAX = 2
    Word16 = 4
    UINT64_MAX = 31
    Mantissa = 8
    Traces <- MCTraces
    Namespaces <- MCNamespaces
INVARIANTS
    TypeOK
    SizesExact
    LatencyExact
    AverageBetween
    RoundsAgree
    InArrays
PROPERTY
    Terminates
